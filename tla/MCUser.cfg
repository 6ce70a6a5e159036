SPECIFICATION UserSpec
CONSTANTS
    MAXARGS = 4
    Lines <- MCLines
    BusyLines <- MCBusy
    NProc = 5
    NPipe = 2
    PipeSize = 1
    HeapMax = 12
    Core = 4
    Requests = {2, 3, 5}
    MaxHoles = 1
    LabLines <- MCLabLines
    VarNames <- MCVarNames
    PidOf <- MCPidOf
    MaxPid = 3
    MAX_ARGUMENTS = 4
    HOME = "home"
INVARIANTS ParseFaithful ForegroundDone HeapExact JobsKept
PROPERTY PromptReturns
\* PromptReturns also finds every state in which all wait for each other; the
\* lab shell may end.
CHECK_DEADLOCK FALSE
