\* Two batches fill the ring: slots are reused from the fifth packet on.
CONSTANTS
    RingSize = 4
    BatchSize = 2
    BufPackets = 2
    DecsaDelay = 0
    SendDelay = 1
    Kinds = {"clear", "scrambled"}
    DontSendScrambled = TRUE
    MaxInFlight = 4
    MaxWritten = 6
    MaxTime = 2
SPECIFICATION Spec
INVARIANTS
    TypeOK
    CountersAgree
    RingHoldsStream
    DecryptsAlone
    DescrambledWhenOut
    NeverEarly
PROPERTY ImplementsDelayLine
