\* Packets of 8 bytes: up to three sections end in one.  As in the code, a
\* section may be longer than MAX_FULL_PACKETS packets.
CONSTANTS
    PayloadSize = 8
    HeaderLen = 3
    MAX_TS_SIZE = 17
    MAX_FULL_PACKETS = 2
    CounterSize = 4
    SectionLens = {3, 17}
    MaxSections = 4
    MaxFaults = 2
SPECIFICATION Spec
INVARIANTS TypeOK WholeSections InOrder AllAccountedFor Prompt NeverDropped
