SPECIFICATION MCSpec
CONSTANTS
    MAXPARTITIONS = 8
    Media <- MCMedia
    NEXTDOSPART = 9
    MaxOpen = 2
    MaxCount = 3
    DevSpecs <- MCDevSpecs
    Currdevs <- MCCurrdevs
    CmdLines <- MCCmdLines
    Machines2 <- MCMachines2
    MAXBDDEV = 4
    Geometries <- MCGeometries
    LOW = 12
    SEG = 6
    BOUNCE = 2
    MaxCyl = 1
    Blocks = {0, 2, 4, 10}
    Bufs = {1, 4, 13}
    Lengths = {0, 1, 3, 5}
    Volumes <- MCVolumes
    UfsPaths <- MCPaths
    UfsSizes = {4}
    UfsOffsets = {0, 6}
    UfsFaults <- MCFaults
    NDADDR = 2
    VBLK = 2
    FSBLK = 4
    NINDIR = 4
    ZMachines <- MCZMachines
    ZCmds <- MCZCmds
    DEV = 2
    BUF = 2
    MEG = 4
    HALF = 2
    HEAP_MIN = 12
    TOP4G = 64
    CdDrives <- MCCdDrives
    BootDrives = {128, 160, 161}
    CdSectors = 9
    SECS = 2
    CDLOW = 8
    CD_BOUNCEBUF = 2
    MAXBCDEV = 1
    CdBlocks = {0, 1, 4, 10}
    CdSizes = {0, 1, 4, 6, 10}
    CdBufs = {1, 8}
INVARIANTS DisksSafe TransfersSafe StagesSafe
CHECK_DEADLOCK FALSE
