----------------------------- MODULE CardThread -----------------------------
(***************************************************************************)
(* The threaded reading of the card (option dvr_thread): a thread reads    *)
(* the DVR device into one buffer while the main loop handles the packets  *)
(* of the other one; the main loop swaps the two, and sleeps on a          *)
(* condition variable when there is nothing to swap.  Also the flag that   *)
(* ends both loops, with its mutex, and the signal handler that sets it.   *)
(*                                                                         *)
(* Sizes and positions count packets.  Packets are known by their rank in  *)
(* what the card delivers.  The sections under carddatamutex are one       *)
(* action each, except for the one in which the main thread goes to sleep: *)
(* the card thread looks at main_waiting without the mutex.                *)
(*                                                                         *)
(* Left out: the unicast polling and the handling of a packet (modules of  *)
(* their own), T2-MI, and what mumudvb_close does after the main loop.     *)
(***************************************************************************)
EXTENDS Integers

CONSTANTS
    ChunkSize,      \* card_buffer.dvr_buffer_size
    WriteSize,      \* card_buffer.max_thread_buffer_size
    MaxPackets,     \* bound: packets the card delivers
    SignalThreads,  \* the threads that may take the signal to stop
    PollErrors,     \* whether polling the card may fail
    SpuriousWakeups \* whether pthread_cond_wait may return without a signal

ASSUME CardAssumption ==
    /\ ChunkSize \in Nat \ {0}
    /\ WriteSize \in Nat /\ WriteSize >= ChunkSize
    /\ MaxPackets \in Nat
    /\ SignalThreads \subseteq {"main", "card", "other"}
    /\ PollErrors \in BOOLEAN /\ SpuriousWakeups \in BOOLEAN

VARIABLES
    buffer,                 \* buffer1 and buffer2
    actual_read_buffer,     \* 1 or 2: reading_buffer; writing_buffer is the other
    bytes_in_write_buffer,
    bytes_read,
    read_buff_pos,
    main_waiting,
    interrupted,            \* the flag of get_interrupted
    mpc, cpc,               \* main loop, card thread
    handler,                \* where the signal handler runs: "main", "card" or
                            \* "other"; "none" before and "done" after
    delivered,              \* history: packets read from the device
    handled,                \* history: the packet handled last
    repeated                \* history: a packet was handled twice

bufVars  == <<buffer, actual_read_buffer, bytes_in_write_buffer, bytes_read>>
histVars == <<delivered, handled, repeated>>
vars == <<bufVars, read_buff_pos, main_waiting, interrupted, mpc, cpc, handler, histVars>>

Positions == 1 .. WriteSize
\* Slip of WritingBuffer: the buffers not swapped
ReadAndWriteOne == actual_read_buffer

WritingBuffer == 3 - actual_read_buffer

\* A thread inside get_interrupted has interrupted_mutex.
InterruptedMutexFree == mpc # "head_in" /\ cpc # "head_in"
\* A thread that pthread_cond_wait has not put to sleep yet has carddatamutex.
CardMutexFree == mpc # "towait"

\* The thread runs, and not the signal handler in its place.
MainRuns == handler # "main"
CardRuns == handler # "card"

-----------------------------------------------------------------------------
(* The main thread, once it has allocated the buffers *)
Init ==
    /\ buffer = [b \in {1, 2} |-> [p \in Positions |-> 0]]
    /\ actual_read_buffer = 1
    /\ bytes_in_write_buffer = 0 /\ bytes_read = 0 /\ read_buff_pos = 0
    /\ main_waiting = FALSE
    /\ interrupted = FALSE
    /\ mpc = "head" /\ cpc = "start"
    /\ handler = "none"
    /\ delivered = 0 /\ handled = 0 /\ repeated = FALSE

-----------------------------------------------------------------------------
(* Main loop *)

\* get_interrupted: the mutex taken, the flag read
M_HeadLock ==
    /\ mpc = "head" /\ MainRuns /\ InterruptedMutexFree
    /\ mpc' = "head_in"
    /\ UNCHANGED <<bufVars, read_buff_pos, main_waiting, interrupted, cpc, handler, histVars>>

M_HeadRead ==
    /\ mpc = "head_in" /\ MainRuns
    /\ mpc' = IF interrupted THEN "closing" ELSE "test"
    /\ UNCHANGED <<bufVars, read_buff_pos, main_waiting, interrupted, cpc, handler, histVars>>

\* bytes_in_write_buffer is looked at without the mutex.
M_Test ==
    /\ mpc = "test" /\ MainRuns
    /\ mpc' = IF bytes_in_write_buffer = 0 THEN "lockwait" ELSE "lock"
    /\ UNCHANGED <<bufVars, read_buff_pos, main_waiting, interrupted, cpc, handler, histVars>>

\* Slip of M_LockToWait: main_waiting not set
LockUnannounced ==
    /\ mpc = "lockwait" /\ MainRuns /\ CardMutexFree
    /\ mpc' = "towait"
    /\ UNCHANGED <<bufVars, read_buff_pos, main_waiting, interrupted, cpc, handler, histVars>>

M_LockToWait ==
    /\ mpc = "lockwait" /\ MainRuns /\ CardMutexFree
    /\ mpc' = "towait"
    /\ main_waiting' = TRUE
    /\ UNCHANGED <<bufVars, read_buff_pos, interrupted, cpc, handler, histVars>>

M_CondWait ==
    /\ mpc = "towait" /\ MainRuns
    /\ mpc' = "waiting"
    /\ UNCHANGED <<bufVars, read_buff_pos, main_waiting, interrupted, cpc, handler, histVars>>

M_SpuriousWakeup ==
    /\ SpuriousWakeups
    /\ mpc = "waiting" /\ MainRuns
    /\ mpc' = "woken"
    /\ UNCHANGED <<bufVars, read_buff_pos, main_waiting, interrupted, cpc, handler, histVars>>

(* With the mutex (back from pthread_cond_wait, or taken): swap the        *)
(* buffers if there is something to handle.  bytes_read keeps its value    *)
(* otherwise.                                                              *)
M_Swap ==
    /\ mpc \in {"woken", "lock"} /\ MainRuns /\ CardMutexFree
    /\ main_waiting' = IF mpc = "woken" THEN FALSE ELSE main_waiting
    /\ IF bytes_in_write_buffer # 0
       THEN /\ actual_read_buffer' = WritingBuffer
            /\ bytes_read' = bytes_in_write_buffer
            /\ bytes_in_write_buffer' = 0
       ELSE UNCHANGED <<actual_read_buffer, bytes_read, bytes_in_write_buffer>>
    /\ read_buff_pos' = 0
    /\ mpc' = "process"
    /\ UNCHANGED <<buffer, interrupted, cpc, handler, histVars>>

\* The loop on the packets of the reading buffer
M_Packet ==
    LET pkt == buffer[actual_read_buffer][read_buff_pos + 1] IN
    /\ mpc = "process" /\ MainRuns
    /\ read_buff_pos < bytes_read
    /\ handled' = pkt
    /\ repeated' = (repeated \/ pkt =< handled)
    /\ read_buff_pos' = read_buff_pos + 1
    /\ UNCHANGED <<bufVars, main_waiting, interrupted, mpc, cpc, handler, delivered>>

\* Slip of M_EndOfBuffer: the bound of the loop one packet short
EndOneShort ==
    /\ mpc = "process" /\ MainRuns
    /\ read_buff_pos + 1 >= bytes_read
    /\ mpc' = "head"
    /\ UNCHANGED <<bufVars, read_buff_pos, main_waiting, interrupted, cpc, handler, histVars>>

M_EndOfBuffer ==
    /\ mpc = "process" /\ MainRuns
    /\ read_buff_pos = bytes_read
    /\ mpc' = "head"
    /\ UNCHANGED <<bufVars, read_buff_pos, main_waiting, interrupted, cpc, handler, histVars>>

-----------------------------------------------------------------------------
(* Card thread: read_card_thread_func *)

C_Start ==
    /\ cpc = "start" /\ CardRuns /\ CardMutexFree
    /\ bytes_in_write_buffer' = 0
    /\ cpc' = "head"
    /\ UNCHANGED <<buffer, actual_read_buffer, bytes_read, read_buff_pos, main_waiting,
                   interrupted, mpc, handler, histVars>>

C_HeadLock ==
    /\ cpc = "head" /\ CardRuns /\ InterruptedMutexFree
    /\ cpc' = "head_in"
    /\ UNCHANGED <<bufVars, read_buff_pos, main_waiting, interrupted, mpc, handler, histVars>>

C_HeadRead ==
    /\ cpc = "head_in" /\ CardRuns
    /\ cpc' = IF interrupted THEN "exited" ELSE "poll"
    /\ UNCHANGED <<bufVars, read_buff_pos, main_waiting, interrupted, mpc, handler, histVars>>

\* mumudvb_poll: an error, a timeout, or data
C_Poll(outcome) ==
    /\ cpc = "poll" /\ CardRuns
    /\ outcome = "error" => PollErrors
    /\ cpc' = outcome
    /\ UNCHANGED <<bufVars, read_buff_pos, main_waiting, interrupted, mpc, handler, histVars>>

\* set_interrupted, and the thread returns
C_PollError ==
    /\ cpc = "error" /\ CardRuns /\ InterruptedMutexFree
    /\ interrupted' = TRUE
    /\ cpc' = "exited"
    /\ UNCHANGED <<bufVars, read_buff_pos, main_waiting, mpc, handler, histVars>>

\* Slip of HasRoom: room for one packet is enough
HasSomeRoom == bytes_in_write_buffer < WriteSize

\* Room for one more read, looked at without the mutex
HasRoom == bytes_in_write_buffer + ChunkSize =< WriteSize

C_Room ==
    /\ cpc = "data" /\ CardRuns
    /\ cpc' = IF HasRoom THEN "lock" ELSE "nodata"
    /\ UNCHANGED <<bufVars, read_buff_pos, main_waiting, interrupted, mpc, handler, histVars>>

\* Slip of C_TestWaiting: only new data wakes the main thread up
WaitForData ==
    /\ cpc = "nodata" /\ CardRuns
    /\ cpc' = "head"
    /\ UNCHANGED <<bufVars, read_buff_pos, main_waiting, interrupted, mpc, handler, histVars>>

\* After a timeout, or when there is no room: wake the main thread up.
\* Neither the test nor the signal are made with the mutex.
C_TestWaiting ==
    /\ cpc = "nodata" /\ CardRuns
    /\ cpc' = IF main_waiting THEN "signal" ELSE "head"
    /\ UNCHANGED <<bufVars, read_buff_pos, main_waiting, interrupted, mpc, handler, histVars>>

Wakened == IF mpc = "waiting" THEN "woken" ELSE mpc

C_Signal ==
    /\ cpc = "signal" /\ CardRuns
    /\ mpc' = Wakened
    /\ cpc' = "head"
    /\ UNCHANGED <<bufVars, read_buff_pos, main_waiting, interrupted, handler, histVars>>

(* card_read, after what the writing buffer holds already; it returns 0 on *)
(* an error or for a partial packet.                                       *)
C_Read(n) ==
    /\ cpc = "lock" /\ CardRuns /\ CardMutexFree
    /\ n =< ChunkSize /\ delivered + n =< MaxPackets
    /\ buffer' = [buffer EXCEPT ![WritingBuffer] =
                    [p \in Positions |->
                        IF p \in bytes_in_write_buffer + 1 .. bytes_in_write_buffer + n
                        THEN delivered + p - bytes_in_write_buffer
                        ELSE @[p]]]
    /\ bytes_in_write_buffer' = bytes_in_write_buffer + n
    /\ delivered' = delivered + n
    /\ mpc' = IF main_waiting THEN Wakened ELSE mpc
    /\ cpc' = "head"
    /\ UNCHANGED <<actual_read_buffer, bytes_read, read_buff_pos, main_waiting, interrupted,
                   handler, handled, repeated>>

-----------------------------------------------------------------------------
(* SignalHandler runs in any of the threads, between two of its steps, and *)
(* takes interrupted_mutex too (set_interrupted).                          *)
H_Arrive(thread) ==
    /\ handler = "none"
    /\ mpc # "closing" /\ (thread = "card" => cpc # "exited")
    /\ handler' = thread
    /\ UNCHANGED <<bufVars, read_buff_pos, main_waiting, interrupted, mpc, cpc, histVars>>

H_SetInterrupted ==
    /\ handler \in {"main", "card", "other"} /\ InterruptedMutexFree
    /\ interrupted' = TRUE
    /\ handler' = "done"
    /\ UNCHANGED <<bufVars, read_buff_pos, main_waiting, mpc, cpc, histVars>>

-----------------------------------------------------------------------------
Main == \/ M_HeadLock \/ M_HeadRead \/ M_Test \/ M_LockToWait \/ M_CondWait
        \/ M_Swap \/ M_Packet \/ M_EndOfBuffer
Card == \/ C_Start \/ C_HeadLock \/ C_HeadRead \/ C_PollError \/ C_Room
        \/ C_TestWaiting \/ C_Signal
        \/ \E outcome \in {"nodata", "data"} : C_Poll(outcome)
        \/ \E n \in 0 .. ChunkSize : C_Read(n)
Handler == \/ \E thread \in SignalThreads : H_Arrive(thread)
           \/ H_SetInterrupted

Done == mpc = "closing" /\ UNCHANGED vars

Next == \/ Main \/ Card \/ Handler \/ Done
        \/ M_SpuriousWakeup \/ C_Poll("error")

Spec == Init /\ [][Next]_vars

(* Both threads run whenever they can: poll returns after DVB_POLL_TIMEOUT *)
(* at the latest, and a mutex is held for the length of a copy, so that a  *)
(* thread gets it which finds it free again and again.  Data and spurious  *)
(* wakeups are not counted on.                                             *)
Fairness == SF_vars(Main) /\ SF_vars(Card) /\ SF_vars(H_SetInterrupted)

FairSpec == Spec /\ Fairness

-----------------------------------------------------------------------------
(* PROPERTIES *)

MainSteps == {"head", "head_in", "test", "lockwait", "towait", "waiting", "woken",
              "lock", "process", "closing"}
CardSteps == {"start", "head", "head_in", "poll", "error", "nodata", "data", "signal",
              "lock", "exited"}

(* Every variable keeps its type; the writing buffer is never overrun,     *)
(* although the room in it is checked without the mutex.                   *)
TypeOK ==
    /\ buffer \in [{1, 2} -> [Positions -> 0 .. MaxPackets]]
    /\ actual_read_buffer \in {1, 2}
    /\ bytes_in_write_buffer \in 0 .. WriteSize /\ bytes_read \in 0 .. WriteSize
    /\ read_buff_pos \in 0 .. bytes_read
    /\ main_waiting \in BOOLEAN /\ interrupted \in BOOLEAN /\ repeated \in BOOLEAN
    /\ mpc \in MainSteps /\ cpc \in CardSteps
    /\ handler \in {"none", "main", "card", "other", "done"}
    /\ delivered \in 0 .. MaxPackets /\ handled \in 0 .. MaxPackets

(* The packets delivered last are the ones of the reading buffer followed  *)
(* by the ones of the writing buffer, wherever the two threads are: what   *)
(* the main loop reads is not written over while it does, and no packet is *)
(* lost between the buffers.                                               *)
BuffersHoldStream ==
    LET first_unread == delivered - bytes_in_write_buffer IN
    /\ \A p \in 1 .. bytes_in_write_buffer :
          buffer[WritingBuffer][p] = first_unread + p
    /\ \A p \in 1 .. bytes_read :
          buffer[actual_read_buffer][p] = first_unread - bytes_read + p

(* After a packet the main loop handles the next one the card delivered,   *)
(* or goes back to the beginning of the buffer it has just finished.       *)
NothingSkipped ==
    [][ \/ handled' = handled + 1
        \/ read_buff_pos = 0 /\ handled' = handled - bytes_read + 1 ]_handled

(* Every packet the card thread reads is handled, unless the program stops.*)
EveryPacketHandled ==
    \A k \in 1 .. MaxPackets : (delivered >= k) ~> (handled >= k \/ interrupted)

(* A main thread that waits is woken up, whether there is data or not: it  *)
(* has the unicast clients to look after.  A signal sent before the main   *)
(* thread sleeps is lost, but the card thread sends others.                *)
MainWakesUp == (mpc = "waiting") ~> (mpc # "waiting" \/ interrupted)

(* README.asciidoc:889: "This reading uses two buffers: one for the data   *)
(* just received from the card, one for the data treated by the main       *)
(* program", and dvb.c:401: on a timeout "we give the ball back to the     *)
(* main for unicast polling": no packet is treated twice.                  *)
HandledOnce == ~ repeated

(* mumudvb.c:1051: "the card is tuned, we catch signals to close cleanly": *)
(* a signal makes the main loop end.                                       *)
SignalCloses == (handler # "none") ~> (mpc = "closing")
=============================================================================
