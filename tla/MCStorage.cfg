SPECIFICATION Spec
CONSTANTS
    Procs = {1, 2}
    NFILE = 2
    NDIRECT = 2
    BSIZE = 2
    FSSIZE = 13
    MAXOPBLOCKS = 6
    FileSize = 3
    Sizes = {3, 8}
    MaxWrites = 2
    MAX_PSYC_PAGES = 2
    MAX_TOTAL_PAGES = 4
    Policies <- MCPolicies
    MaxSize <- MCMaxSize
    AgeBits = 2
    MaxLeak <- MCMaxLeak
INVARIANTS ContentsAsWritten BlocksOwnedOnce OpFits 
PROPERTY VictimFair
CHECK_DEADLOCK FALSE
