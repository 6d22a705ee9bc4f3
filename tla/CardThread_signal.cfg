\* One signal, delivered to any of the threads.
CONSTANTS
    ChunkSize = 1
    WriteSize = 2
    MaxPackets = 1
    SignalThreads = {"main", "card", "other"}
    PollErrors = FALSE
    SpuriousWakeups = FALSE
SPECIFICATION FairSpec
PROPERTY SignalCloses
CHECK_DEADLOCK FALSE
