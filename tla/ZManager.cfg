SPECIFICATION MCSpec
CONSTANTS
    Parts = {"devices", "filesystems", "properties", "pools"}
    Geoms <- MCGeoms
    SliderMax = 4
    MaxCommands = 3
    Alphabet <- MCAlphabet
    FsPools <- MCFsPools
    FsStart <- MCFsStart
    NewNames <- MCNewNames
    MaxFsOps = 3
    Known <- MCKnown
    DataSets <- MCDataSets
    UserNames = {"x:y", "a:b", "a:c"}
    TypedNames = {"a:b", "a:c", "atime", "x:y"}
    TypedValues = {"v", "w"}
    MaxEdits = 5
    Ids = {1, 2, 3}
    PoolNames = {1, 2}
    Devs = {"ada0", "ada1", "gpt2"}
    Labelled = {"gpt2"}
    Mirrors = {"mirror-0"}
    None = None
    Stale = Stale
    InitPools <- MCInitPools
    MaxMenus = 3
    MaxOther = 1
INVARIANTS PoolsSafe DevicesSafe DataSetsSafe
PROPERTIES RequestsSound RightTarget
CHECK_DEADLOCK FALSE
