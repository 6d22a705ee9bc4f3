\* The stream outgrows the ring by one packet.
CONSTANTS
    RingSize = 4
    BatchSize = 2
    BufPackets = 2
    DecsaDelay = 0
    SendDelay = 0
    Kinds = {"clear"}
    DontSendScrambled = FALSE
    MaxInFlight = 5
    MaxWritten = 6
    MaxTime = 0
SPECIFICATION Spec
INVARIANT OverflowDetected
