SPECIFICATION BootSpec
CONSTANTS
    kern = kern  kern2 = kern2  fileA = fileA  fileB = fileB  fileC = fileC  fileC2 = fileC2  fileD = fileD  rawFile = rawFile
    ma = ma  mb = mb  mc = mc  md = md  mz = mz  kernel = kernel
    d1 = d1  d2 = d2  None = None
    Names <- MCNames  Mods <- MCBootMods  Kind <- MCKind  Size <- MCSize  ReadEnd <- MCReadEnd  Syms <- MCSyms
    Provides <- MCProvides  Requires <- MCRequires
    Dirs <- MCDirs  Paths <- MCBootPaths  Hints <- MCHints  ByName <- MCByName
    KernelAddr = 6  PAGE_SIZE = 4  Chunk = 2  memtop = 23
    Bootfiles <- MCBootfiles  Empty = Empty  NO = NO  Delays <- MCDelays  Default = 2  Day = 3
    MaxCmds = 2  MaxFaults = 1
INVARIANTS BootsKernel GivesUpRightly
PROPERTY NotEarly
CHECK_DEADLOCK FALSE
