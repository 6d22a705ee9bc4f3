\* Two datagrams of two bytes fit in a queue; two clients share the channel.
CONSTANTS
    Clients = {c1, c2}
    NoClient = NoClient
    DatagramSize = 2
    queue_max_size = 5
    MultipleSend = 2
    ErrorsTimeout = 1
    FlushOptions = {TRUE, FALSE}
    MaxBytes = 6
    MaxTime = 2
SPECIFICATION Spec
INVARIANTS TypeOK BytesAgree SentInOrder HolesExplained
PROPERTIES ClosedAfterTimeout CatchesUp
SYMMETRY Sockets
