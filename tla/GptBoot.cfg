SPECIFICATION FairSpec
CONSTANTS
    N = 4
    EPS = 2
    UFS = {0, 2, 3}
    PartArgs = {1, 5}
    BadParts <- Rejected
    Configs = {"none", "bad", "part"}
    InitFlags <- ArmedFlags
    MaxBoots = 2
    MaxFaults = 1
INVARIANTS TypeOK CurentInTable TableSurvives OneShot FallbackComplete
PROPERTIES NoRetry SearchEnds
CHECK_DEADLOCK FALSE
