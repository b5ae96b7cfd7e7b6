SPECIFICATION FairSpec
CONSTANTS
    NBlks = 4
    Units = {0, 1}
    Removable = {}
    MaxBlk = 1
    MaxReq = 2
    Values = {v1, v2}
    Half = 2
    TIMEOUT = 0
    MaxTime = 1
    MaxCalls = 2
    MaxFaults = 1
PROPERTIES ImplementsDevice Returns
CHECK_DEADLOCK FALSE
