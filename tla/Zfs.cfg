SPECIFICATION MCSpec
CONSTANTS
    Objects <- MCObjects
    FsBase = 40
    ListPaths <- MCListPaths
    Slots = {"f1", "f2"}
    ZPaths <- MCZPaths
    BootfsNames <- MCBootfsNames
    DevSpecs <- MCDevSpecs
    MosDir = 11
    Depth = 2
    SeekOffs = {0, 4}
    ReadSizes = {1, 3}
    BadBlocks <- MCBadBlocks
    DPB = 2
    BSIZE = 2
    PathSize = 13
    MaxOps = 3
    MaxFaults = 1
    None = None
    Junk = Junk
    Devices = {"a", "b", "c"}
    Machines <- MCMachines
    BlockPtrs <- MCBlockPtrs
    RootBp <- MCRootBp
    Guids = {"A", "B", "C", "D", "M", "R", "S", "Z"}
    Nil = "nil"
INVARIANTS PoolSafe GoodCopyIsRead FileSafe
PROPERTY LookupEnds
CHECK_DEADLOCK FALSE
