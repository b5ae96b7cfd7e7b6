SPECIFICATION MCSpec
CONSTANTS
    Answers <- MCAnswers
    PxeFirmwares <- MCFirmwares
    MaxOpens = 4
    FrameLens = {0, 10, 50, 80}
    MaxFrames = 2
    Kernels <- MCKernels
    Environments <- MCEnvs
    ArgStrings <- MCArgs
    StrLen <- MCStrLen
    PAGE = 16
    PBVM_PAGE_SIZE = 64
    TermWords <- MCWords
    MaxWords = 4
    ROWS = 3
    COLS = 4
    MAXARGS = 3
    Ps3 <- MCPs3
    ConsoleLists <- MCLists
    ConsoleValues <- MCValues
    Speeds = {9600, 100000, 230400}
    Ports = {1, 2}
    PciBars <- MCBars
    MaxTyped = 2
    MaxPut = 1
    MaxSets = 2
    ElfFiles <- MCElfFiles
    ObjFiles <- MCObjFiles
    ElfDest = 33
    ElfPage = 16
    HIGHMEM = 64
    MAXADDR = 255
    InputLines <- MCInputs
    Values <- MCVals
    PARSE_BUFSIZE = 5
    ARGMAX = 2
    HelpFiles <- MCHelp
    HelpRequests <- MCReqs
    Scripts <- MCScripts
    Prompted <- MCPrompted
    MaxTyped9 = 2
    TftpFiles <- MCFiles
    IPs = {"h1", "h2"}
    BLOCKNUMS = 4
    TIMEOUT91 = 2
    MaxPorts = 2
    MaxDownloads = 2
    Images <- MCImages
    NUMS = 8
    PERPAGE = 2
    TRIES = 2
    MaxDamage = 2
    MaxResend = 1
    TypedLines <- MCTyped
    Baked <- MCBaked
    MAX_INPUT_SIZE = 11
    MAX_COMMAND_PARAMS = 6
    MAX_ENV_SIZE_BYTES = 9
    MAX_BOOT_COMMANDS = 3
    MaxLines91 = 4
INVARIANTS HandedOver LoadedRight ScreenSafe LinesSafe NetworkSafe At91Safe
CHECK_DEADLOCK FALSE
