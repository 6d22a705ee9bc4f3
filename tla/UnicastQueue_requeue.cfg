\* One client, three datagrams.
CONSTANTS
    Clients = {c1}
    NoClient = NoClient
    DatagramSize = 2
    queue_max_size = 9
    MultipleSend = 3
    ErrorsTimeout = 1
    FlushOptions = {FALSE}
    MaxBytes = 6
    MaxTime = 0
SPECIFICATION Spec
INVARIANT NonSentKept
