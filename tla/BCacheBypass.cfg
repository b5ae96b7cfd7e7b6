SPECIFICATION Spec
CONSTANTS
    NBlks = 2
    Units = {0}
    Removable = {0}
    MaxBlk = 1
    MaxReq = 2
    Values = {v1, v2}
    Half = 2
    TIMEOUT = 0
    MaxTime = 2
    MaxCalls = 3
    MaxFaults = 1
INVARIANT BypassCoherent
CHECK_DEADLOCK FALSE
