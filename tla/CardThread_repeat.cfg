\* Timeouts of the poll, no signal and no error.
CONSTANTS
    ChunkSize = 1
    WriteSize = 2
    MaxPackets = 3
    SignalThreads = {}
    PollErrors = FALSE
    SpuriousWakeups = FALSE
SPECIFICATION Spec
INVARIANT HandledOnce
