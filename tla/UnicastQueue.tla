---------------------------- MODULE UnicastQueue ----------------------------
(***************************************************************************)
(* Sending a channel to its HTTP clients (unicast_data_send): each         *)
(* datagram of the channel is offered to the clients one after the other.  *)
(* What a client's socket does not take is queued for that client, and     *)
(* sent before later datagrams; a client that fails for too long is        *)
(* disconnected in the middle of the loop.                                 *)
(*                                                                         *)
(* The stream is a sequence of bytes, known by their rank; what is queued  *)
(* is an interval of them.  One action per call of send().                 *)
(*                                                                         *)
(* Left out: the table of file descriptors and the list of all clients     *)
(* (unicast_close_connection, seen from here, takes the client out of the  *)
(* channel's list), and failures of malloc.  The bytes a requeue copies    *)
(* have been freed by then: here they keep their rank, their values are    *)
(* not modelled.                                                           *)
(***************************************************************************)
EXTENDS Integers, SequencesExt

CONSTANTS
    Clients,        \* the sockets that may connect
    NoClient,       \* NULL
    DatagramSize,   \* nb_bytes of a full datagram: the same one for a channel
    queue_max_size,
    MultipleSend,   \* UNICAST_MULTIPLE_QUEUE_SEND
    ErrorsTimeout,  \* consecutive_errors_timeout
    FlushOptions,   \* the values of flush_on_eagain
    MaxBytes,       \* bound: the stream
    MaxTime         \* bound: the clock

ASSUME QueueAssumption ==
    /\ NoClient \notin Clients
    /\ DatagramSize \in Nat \ {0}
    /\ queue_max_size \in Nat
    /\ MultipleSend \in Nat /\ MultipleSend >= 2
    /\ ErrorsTimeout \in Nat
    /\ FlushOptions \subseteq BOOLEAN
    /\ MaxBytes \in Nat /\ MaxTime \in Nat

\* errno; "none" is the last_write_error of a client without error
Errors == {"EAGAIN", "ENOBUFS"}

VARIABLES
    flush_on_eagain,        \* set once, when the configuration is read
    now,                    \* in seconds
    produced,               \* bytes of the stream so far
    clients,                \* actual_channel->clients, along chan_next
    queue,                  \* for each client: what waits, data_bytes_in_queue, full
    consecutive_errors, first_error_time, last_write_error,
    pc,                     \* "idle": not in unicast_data_send; "client": at the
                            \* head of its loop on the clients; "send": in the inner
    actual_client, buffer, data_from_queue, packets_left,
    got,                    \* history: the last byte each client received
    lost,                   \* history: why a client may miss bytes
    last_whole,             \* history: when a client last took all it was sent
    served,                 \* history: the clients reached in this call
    backlog                 \* history: what waited when the last one was reached

errVars  == <<consecutive_errors, first_error_time, last_write_error>>
callVars == <<pc, actual_client, buffer, data_from_queue, packets_left>>
histVars == <<got, lost, last_whole, served, backlog>>
vars == <<flush_on_eagain, now, produced, clients, queue, errVars, callVars, histVars>>

-----------------------------------------------------------------------------
(* The queue of a client; packets_in_queue is the length of pkts. *)

Piece(from, len) == [from |-> from, len |-> len]
End(piece) == piece.from + piece.len - 1

EmptyQueue == [pkts |-> <<>>, data_bytes_in_queue |-> 0, full |-> FALSE]

\* Slip of HasRoom: the room the data takes is forgotten
HasRoomNow(q, len) == q.data_bytes_in_queue < queue_max_size
HasRoom(q, len) == q.data_bytes_in_queue + len < queue_max_size

\* unicast_queue_add_data
Added(q, piece) ==
    [q EXCEPT !.pkts = Append(@, piece), !.data_bytes_in_queue = @ + piece.len]

\* unicast_queue_remove_data; nothing happens to an empty queue
Removed(q) ==
    IF q.pkts = <<>> THEN q
    ELSE [pkts |-> Tail(q.pkts), full |-> FALSE,
          data_bytes_in_queue |-> q.data_bytes_in_queue - Head(q.pkts).len]

\* Slip of Requeued: the size of the data replaced is not taken off
RequeuedUncounted(q, piece) ==
    IF q.pkts = <<>> THEN q
    ELSE [q EXCEPT !.pkts = <<piece>> \o Tail(@), !.data_bytes_in_queue = @ + piece.len]

(* unicast_queue_requeue: it replaces the data of the first packet, and    *)
(* the caller has just removed the packet the data comes from.             *)
Requeued(q, piece) ==
    IF q.pkts = <<>> THEN q
    ELSE [q EXCEPT !.pkts = <<piece>> \o Tail(@),
                   !.data_bytes_in_queue = @ - Head(q.pkts).len + piece.len]

\* The bytes in the first i packets, for each i
BytesUpTo(pkts) ==
    LET sum[i \in 0 .. Len(pkts)] == IF i = 0 THEN 0 ELSE sum[i - 1] + pkts[i].len
    IN  sum

Bytes(pkts) == BytesUpTo(pkts)[Len(pkts)]

\* unicast_queue_clear: every packet removed
Cleared(q) ==
    IF q.pkts = <<>> THEN q
    ELSE [pkts |-> <<>>, full |-> FALSE,
          data_bytes_in_queue |-> q.data_bytes_in_queue - Bytes(q.pkts)]

-----------------------------------------------------------------------------
Init ==
    /\ flush_on_eagain \in FlushOptions
    /\ now = 0 /\ produced = 0
    /\ clients = <<>>
    /\ queue = [c \in Clients |-> EmptyQueue]
    /\ consecutive_errors = [c \in Clients |-> FALSE]
    /\ first_error_time = [c \in Clients |-> 0]
    /\ last_write_error = [c \in Clients |-> "none"]
    /\ pc = "idle" /\ actual_client = NoClient
    /\ buffer = Piece(1, 0) /\ data_from_queue = FALSE /\ packets_left = 0
    /\ got = [c \in Clients |-> 0]
    /\ lost = [c \in Clients |-> {}]
    /\ last_whole = [c \in Clients |-> 0]
    /\ served = {} /\ backlog = 0

Tick ==
    /\ now < MaxTime
    /\ now' = now + 1
    /\ UNCHANGED <<flush_on_eagain, produced, clients, queue, errVars, callVars, histVars>>

(* unicast_add_client and channel_add_unicast_client: a new client, at the *)
(* end of the channel's list.                                              *)
Connect(c) ==
    /\ pc = "idle" /\ ~ Contains(clients, c)
    /\ clients' = Append(clients, c)
    /\ queue' = [queue EXCEPT ![c] = EmptyQueue]
    /\ consecutive_errors' = [consecutive_errors EXCEPT ![c] = FALSE]
    /\ first_error_time' = [first_error_time EXCEPT ![c] = 0]
    /\ last_write_error' = [last_write_error EXCEPT ![c] = "none"]
    /\ got' = [got EXCEPT ![c] = produced]
    /\ lost' = [lost EXCEPT ![c] = {}]
    /\ last_whole' = [last_whole EXCEPT ![c] = now]
    /\ UNCHANGED <<flush_on_eagain, now, produced, callVars, served, backlog>>

\* Where c is in the channel's list
Position(c) == CHOOSE i \in DOMAIN clients : clients[i] = c

\* unicast_del_client: the channel's list without c
Unlinked(c) == RemoveAt(clients, Position(c))

\* unicast_handle_fd_event closes a connection, between two datagrams.
Leave(c) ==
    /\ pc = "idle" /\ Contains(clients, c)
    /\ clients' = Unlinked(c)
    /\ queue' = [queue EXCEPT ![c] = Cleared(@)]
    /\ UNCHANGED <<flush_on_eagain, now, produced, errVars, callVars, histVars>>

-----------------------------------------------------------------------------
(* unicast_data_send *)

\* actual_client->chan_next, in the list as it is
ChanNext(c) ==
    IF Position(c) = Len(clients) THEN NoClient ELSE clients[Position(c) + 1]

\* The loop goes on with the client c, or ends.
GoOn(c) ==
    /\ actual_client' = c
    /\ pc' = IF c = NoClient THEN "idle" ELSE "client"
    /\ buffer' = Piece(1, 0) /\ data_from_queue' = FALSE /\ packets_left' = 0

Datagram ==
    /\ pc = "idle" /\ produced + DatagramSize =< MaxBytes
    /\ produced' = produced + DatagramSize
    /\ GoOn(IF clients = <<>> THEN NoClient ELSE Head(clients))
    /\ served' = {}
    /\ UNCHANGED <<flush_on_eagain, now, clients, queue, errVars, got, lost, last_whole, backlog>>

Fresh == Piece(produced - DatagramSize + 1, DatagramSize)

\* Slip of Choose: the new datagram is sent before what is queued
ChooseFresh ==
    /\ pc = "client" /\ pc' = "send"
    /\ buffer' = Fresh /\ data_from_queue' = FALSE /\ packets_left' = 1
    /\ served' = served \cup {actual_client}
    /\ backlog' = Len(queue[actual_client].pkts)
    /\ UNCHANGED <<flush_on_eagain, now, produced, clients, queue, errVars,
                   actual_client, got, lost, last_whole>>

\* What this client is sent: the datagram, or the queue if there is one, the
\* datagram added to it if there is room.
Choose ==
    LET q == queue[actual_client]
        added == IF HasRoom(q, DatagramSize) THEN Added(q, Fresh) ELSE [q EXCEPT !.full = TRUE]
    IN
    /\ pc = "client" /\ pc' = "send"
    /\ \/ /\ q.pkts = <<>>
          /\ buffer' = Fresh /\ data_from_queue' = FALSE /\ packets_left' = 1
          /\ UNCHANGED <<queue, lost>>
       \/ /\ q.pkts # <<>>
          /\ queue' = [queue EXCEPT ![actual_client] = added]
          /\ buffer' = Head(added.pkts) /\ data_from_queue' = TRUE
          /\ packets_left' = MultipleSend
          /\ lost' = [lost EXCEPT ![actual_client] =
                        @ \cup IF HasRoom(q, DatagramSize) THEN {} ELSE {"full"}]
    /\ served' = served \cup {actual_client}
    /\ backlog' = Len(queue[actual_client].pkts)
    /\ UNCHANGED <<flush_on_eagain, now, produced, clients, errVars,
                   actual_client, got, last_whole>>

\* Slip of ErrorsOver: consecutive_errors stays set
ErrorsStay == UNCHANGED consecutive_errors
ErrorsOver == consecutive_errors' = [consecutive_errors EXCEPT ![actual_client] = FALSE]

\* Slip of OneMore: the packet just sent counted twice
OneMoreShort(q) == q.pkts # <<>> /\ packets_left > 2

\* After a packet of the queue: another one follows in this call.
OneMore(q) == q.pkts # <<>> /\ packets_left > 1

\* send() took it all.
SendWhole ==
    LET c == actual_client
        q == IF data_from_queue THEN Removed(queue[c]) ELSE queue[c]
    IN
    /\ pc = "send"
    /\ queue' = [queue EXCEPT ![c] = q]
    /\ ErrorsOver
    /\ last_write_error' =
          [last_write_error EXCEPT ![c] = IF consecutive_errors[c] THEN "none" ELSE @]
    /\ IF OneMore(q)
       THEN /\ buffer' = Head(q.pkts) /\ packets_left' = packets_left - 1
            /\ UNCHANGED <<pc, actual_client, data_from_queue>>
       ELSE GoOn(ChanNext(c))
    /\ got' = [got EXCEPT ![c] = End(buffer)]
    /\ last_whole' = [last_whole EXCEPT ![c] = now]
    /\ UNCHANGED <<flush_on_eagain, now, produced, clients, first_error_time, lost, served,
                   backlog>>

\* Slip of Kept: what was written is not taken off
KeptWhole(q, written_len, errno) ==
    IF data_from_queue THEN q ELSE Added(q, buffer)

(* What the client's queue becomes when send() took written_len bytes      *)
(* only: the rest is queued if there is room, or put back, unless the      *)
(* queue is flushed.                                                       *)
Kept(q, written_len, errno) ==
    LET rest == Piece(buffer.from + written_len, buffer.len - written_len) IN
    CASE flush_on_eagain /\ errno = "EAGAIN" ->
            IF data_from_queue THEN Cleared(q) ELSE q
      [] ~ (flush_on_eagain /\ errno = "EAGAIN") /\ ~ data_from_queue ->
            IF HasRoom(q, rest.len) THEN Added(q, rest) ELSE q
      [] ~ (flush_on_eagain /\ errno = "EAGAIN") /\ data_from_queue ->
            IF written_len > 0 THEN Requeued(Removed(q), rest) ELSE q

\* History: the ways of AfterShort to lose bytes
Reasons(q, written_len, errno) ==
    (IF flush_on_eagain /\ errno = "EAGAIN" THEN {"flushed"} ELSE {}) \cup
    (IF ~ data_from_queue /\ ~ HasRoom(q, buffer.len - written_len) THEN {"full"} ELSE {}) \cup
    (IF data_from_queue /\ written_len > 0 THEN {"requeued"} ELSE {})

(* The errors have lasted too long: unicast_close_connection.              *)
TimedOut(c) ==
    /\ consecutive_errors[c]
    /\ ErrorsTimeout > 0 /\ now - first_error_time[c] > ErrorsTimeout

(* The rest of the iteration after a short write.  When the client is      *)
(* disconnected, actual_client becomes its chan_next, and then the         *)
(* chan_next of that one.                                                  *)
AfterShort(written_len, errno) ==
    LET c == actual_client
        next == ChanNext(c)
        q == Kept(queue[c], written_len, errno)
        skipped == TimedOut(c) /\ next # NoClient
    IN
    /\ queue' = [queue EXCEPT ![c] = IF TimedOut(c) THEN Cleared(q) ELSE q]
    /\ consecutive_errors' = [consecutive_errors EXCEPT ![c] = TRUE]
    /\ first_error_time' =
          [first_error_time EXCEPT ![c] = IF consecutive_errors[c] THEN @ ELSE now]
    /\ clients' = IF TimedOut(c) THEN Unlinked(c) ELSE clients
    /\ GoOn(IF skipped THEN ChanNext(next) ELSE next)
    /\ lost' = [ d \in Clients |-> lost[d] \cup
                   CASE d = c -> Reasons(queue[c], written_len, errno)
                     [] d # c -> IF skipped /\ d = next THEN {"skipped"} ELSE {} ]
    /\ UNCHANGED <<flush_on_eagain, now, produced, last_whole, served, backlog>>

\* send() took a part.  errno has the value it had before.
SendPart(written_len, errno) ==
    /\ pc = "send"
    /\ written_len < buffer.len
    /\ AfterShort(written_len, errno)
    /\ got' = [got EXCEPT ![actual_client] = buffer.from + written_len - 1]
    /\ UNCHANGED last_write_error

(* send() failed.  written_len is 0 for a new error; it stays -1 for the   *)
(* same error again.                                                       *)
SendNothing(errno) ==
    LET again == errno = last_write_error[actual_client] IN
    /\ pc = "send"
    /\ AfterShort(IF again THEN -1 ELSE 0, errno)
    /\ last_write_error' = [last_write_error EXCEPT ![actual_client] = errno]
    /\ UNCHANGED got

-----------------------------------------------------------------------------
Next ==
    \/ Tick
    \/ \E c \in Clients : Connect(c) \/ Leave(c)
    \/ Datagram
    \/ Choose
    \/ SendWhole
    \/ \E errno \in Errors :
          \/ SendNothing(errno)
          \/ \E written_len \in 1 .. DatagramSize : SendPart(written_len, errno)

Spec == Init /\ [][Next]_vars

-----------------------------------------------------------------------------
(* PROPERTIES *)

Connected == ToSet(clients)

(* Every variable keeps its type, and no queue reaches unicast_queue_size, *)
(* whatever its client takes and leaves.                                   *)
TypeOK ==
    /\ flush_on_eagain \in BOOLEAN
    /\ now \in Nat /\ produced \in Nat
    /\ clients \in Seq(Clients)
    /\ \A c \in Clients :
          /\ queue[c].pkts # <<>> => queue[c].data_bytes_in_queue < queue_max_size
          /\ \A i \in DOMAIN queue[c].pkts : queue[c].pkts[i].len > 0
    /\ consecutive_errors \in [Clients -> BOOLEAN]
    /\ first_error_time \in [Clients -> Nat]
    /\ last_write_error \in [Clients -> Errors \cup {"none"}]
    /\ pc \in {"idle", "client", "send"}
    /\ actual_client \in Clients \cup {NoClient}
    /\ data_from_queue \in BOOLEAN /\ packets_left \in 0 .. MultipleSend

(* data_bytes_in_queue is the number of bytes in the queue, after partial  *)
(* writes, requeues and flushes too.                                       *)
BytesAgree ==
    \A c \in Clients : queue[c].data_bytes_in_queue = Bytes(queue[c].pkts)

\* What a client is still to receive of the datagrams it was offered
Pending(c) ==
    IF pc = "send" /\ c = actual_client /\ ~ data_from_queue
    THEN <<buffer>> ELSE queue[c].pkts

\* Where the i-th piece of Pending(c) should begin at the earliest
Earliest(c, i) == (IF i = 1 THEN got[c] ELSE End(Pending(c)[i - 1])) + 1

\* The datagram a byte is in
DatagramOf(byte) == (byte - 1) \div DatagramSize

(* A client is sent the bytes of the stream in order and none of them      *)
(* twice, although what it is sent comes from the datagram or from the     *)
(* queue, whole or in part.  No part reaches out of its datagram, as it    *)
(* does when a length of -1 is taken for a number of bytes written (the    *)
(* same error again, with an empty queue): but for that, the queue must    *)
(* hold two datagrams and flush_on_eagain must be off.                     *)
SentInOrder ==
    \A c \in Connected : \A i \in DOMAIN Pending(c) :
        LET piece == Pending(c)[i] IN
        /\ piece.from >= Earliest(c, i) /\ End(piece) =< produced
        /\ ~ flush_on_eagain /\ 2 * DatagramSize < queue_max_size
           => DatagramOf(piece.from) = DatagramOf(End(piece))

\* What the client has and what is pending make the stream, up to the last
\* datagram it was offered.
NoHole(c) ==
    /\ \A i \in DOMAIN Pending(c) : Pending(c)[i].from = Earliest(c, i)
    /\ Earliest(c, Len(Pending(c)) + 1) - 1 =
          IF pc = "idle" \/ c \in served THEN produced ELSE produced - DatagramSize

(* The ways for a client to miss bytes are those: its queue was full, it   *)
(* was flushed, the client came after one that was disconnected, or a part *)
(* of a queued packet was sent.                                            *)
HolesExplained == \A c \in Connected : lost[c] = {} => NoHole(c)

(* unicast_queue.c:146 "We store the non sent data in the queue" and :157  *)
(* "We requeue the non sent data": a partial write by itself loses         *)
(* nothing.                                                                *)
NonSentKept ==
    \A c \in Connected : lost[c] \subseteq {"requeued"} => NoHole(c)

(* The sender disconnects a client only when it has not once taken all it  *)
(* was sent for longer than the timeout.                                   *)
ClosedAfterTimeout ==
    [][ \A c \in Connected \ Connected' :
           pc = "send" => now - last_whole[c] > ErrorsTimeout ]_clients

(* A client that takes all it is sent catches up: one datagram is queued   *)
(* and MultipleSend are sent (unicast_queue.h:32: "MUST be at least 2").   *)
CatchesUp ==
    [][ \A c \in Clients :
          c = actual_client /\ pc = "send" /\ pc' # "send" /\ ~ consecutive_errors'[c]
          => Len(queue'[c].pkts) =< backlog - (MultipleSend - 1) \/ queue'[c].pkts = <<>>
      ]_pc
=============================================================================
