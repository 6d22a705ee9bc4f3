SPECIFICATION Spec
CONSTANTS
    Services <- MCServices
    Pids <- MCPids
    PmtPids <- MCPmtPids
    FirstPmtPid <- MCFirstPmtPid
    Kinds <- MCKinds
    FirstKinds <- MCFirstKinds
    PmtOf <- MCPmtOf
    EmmOf <- MCEmmOf
    FirstCat = 1
    Modes = {"scam"}
    LastSection = 1
    MaxEvents <- MCMaxEvents
    MaxOdd <- MCMaxOdd
    Changing <- MCChanging
CHECK_DEADLOCK FALSE
INVARIANT
    OscamHasLatest
