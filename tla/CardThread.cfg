\* Reads of one or two packets, a writing buffer that holds one read and a half.
\* A signal may come, to a thread that has nothing else to do.
CONSTANTS
    ChunkSize = 2
    WriteSize = 3
    MaxPackets = 5
    SignalThreads = {"other"}
    PollErrors = TRUE
    SpuriousWakeups = TRUE
SPECIFICATION FairSpec
INVARIANTS TypeOK BuffersHoldStream
PROPERTIES NothingSkipped EveryPacketHandled MainWakesUp
