SPECIFICATION MCSpec
CONSTANTS
    Lines <- MCLines
    Texts <- MCTexts
    Numbers <- MCNumbers
    VOCS = 2
    MaxStack = 16
    MaxLocals = 2
    MaxBody = 16
    MaxWords = 9
    MaxLines = 6
    MaxOf <- MCMaxOf
    BITS = 4
    Bases = {2, 3, 4, 8, 10}
    WB = 8
    TIB = 8
    DICT = 14
    MEMSIZE = 24
    STACKSIZE = 6
    WVOCS = 3
    USERCELLS = 4
    Machines <- MCMachines
INVARIANTS FiclSafe NumbersAndWords
CHECK_DEADLOCK FALSE
