\* The send delay is the shorter one here, and packets without payload come.
CONSTANTS
    RingSize = 4
    BatchSize = 2
    BufPackets = 2
    DecsaDelay = 1
    SendDelay = 0
    Kinds = {"scrambled", "bare"}
    DontSendScrambled = FALSE
    MaxInFlight = 4
    MaxWritten = 4
    MaxTime = 1
SPECIFICATION FairSpec
PROPERTIES EveryPacketLeaves StopReturns
