------------------------------ MODULE ScamRing ------------------------------
(***************************************************************************)
(* The delay line of a software-descrambled channel (ring_buffer_t in      *)
(* scam_common.h): the main thread stores every packet of the channel in a *)
(* ring (buffer_func), the decsa thread examines them in order, decrypts   *)
(* them a batch at a time, in place and without the lock, and hands them   *)
(* to the send thread, which lets each one go after its delay.  The three  *)
(* share the ring, two counters and one mutex; nothing tells the writer    *)
(* that the ring is full.                                                  *)
(*                                                                         *)
(* The critical sections of the main and the send thread are one action    *)
(* each.  The decsa thread keeps the mutex over many iterations of its     *)
(* loop, so that holding it is a property of its control state.            *)
(*                                                                         *)
(* Left out: the packet counters under stats_lock (the monitor's), the     *)
(* control words (whether a scrambled packet can be decrypted is a choice  *)
(* of D_Take), and the send itself (send_func empties the datagram).       *)
(***************************************************************************)
EXTENDS Integers, FiniteSets

CONSTANTS
    RingSize,           \* channel->ring_buffer_size, a power of two
    BatchSize,          \* dvbcsa_bs_batch_size()
    BufPackets,         \* packets in one datagram (MAX_UDP_SIZE)
    DecsaDelay,         \* channel->decsa_delay
    SendDelay,          \* channel->send_delay
    Kinds,              \* the kinds of packets the stream holds
    DontSendScrambled,  \* the global option of that name
    MaxInFlight,        \* bound: packets stored and not yet sent (the user sizes
                        \* the ring for the stream's rate and the delays)
    MaxWritten,         \* bound: packets stored in a behaviour
    MaxTime             \* bound: the clock

\* "bare": scrambling bits set, but no payload to decrypt
AllKinds == {"clear", "scrambled", "bare"}

ASSUME SizesAssumption ==
    /\ RingSize \in Nat \ {0}
    /\ BatchSize \in Nat \ {0}
    /\ BufPackets \in Nat \ {0}
ASSUME StreamAssumption ==
    /\ DecsaDelay \in Nat /\ SendDelay \in Nat
    /\ Kinds \subseteq AllKinds
    /\ DontSendScrambled \in BOOLEAN
ASSUME BoundsAssumption ==
    MaxInFlight \in Nat /\ MaxWritten \in Nat /\ MaxTime \in Nat

Slots == 0 .. RingSize - 1

(* A slot of data, time_decsa and time_send.  pkt (the rank of the packet  *)
(* in the stream), born (its arrival) and seen (what the decsa thread made *)
(* of it) are history.                                                     *)
Slot == [ kind : AllKinds, time_decsa : Nat, time_send : Nat,
          pkt : Nat, born : Nat, seen : {"no", "left", "chosen"} ]

VARIABLES
    now,            \* get_time()
    ring,           \* the slots
    write_idx, read_decsa_idx, read_send_idx,
    to_descramble, to_send,
    mpc,            \* main thread: "run", then the steps of scam_channel_stop
    dpc,            \* decsa thread
    d_wake,         \* ... the time it sleeps until
    scrambled, nscrambled,  \* ... the packets examined since the last hand-over
    batch,          \* ... the slots its two batches point into
    spc,            \* send thread
    s_time,         \* ... its send_time
    nb_packets,     \* channel->nb_bytes, in packets
    written, sent,  \* history: packets stored, packets taken out
    last_out        \* history: the slot last taken out, and when

ringVars  == <<ring, write_idx, read_decsa_idx, read_send_idx, to_descramble, to_send>>
decsaVars == <<dpc, d_wake, scrambled, nscrambled, batch>>
sendVars  == <<spc, s_time, nb_packets>>
histVars  == <<written, sent, last_out>>
vars == <<now, ringVars, mpc, decsaVars, sendVars, histVars>>

EmptySlot == [ kind |-> "clear", time_decsa |-> 0, time_send |-> 0,
               pkt |-> 0, born |-> 0, seen |-> "no" ]

\* Slips of Advance: the mask forgotten, the mask one too small
AdvanceUnmasked(idx) == idx + 1
AdvanceShort(idx) == (idx + 1) % (RingSize - 1)

(* The index one further; RingSize being a power of two, & (RingSize - 1)  *)
(* is the remainder.                                                       *)
Advance(idx) == (idx + 1) % RingSize

\* The slot of the i-th packet of the stream
SlotOf(i) == (i - 1) % RingSize

InFlight == written - sent
InBatch == scrambled + nscrambled

\* The decsa thread has the ring's mutex between its sleeps and decryptions.
DecsaHoldsLock == dpc = "loop"
LockFree == ~ DecsaHoldsLock

sendthread_shutdown == mpc # "run"
decsathread_shutdown == mpc \in {"join_decsa", "freed"}

-----------------------------------------------------------------------------
(* scam_channel_start *)
Init ==
    /\ now = 0
    /\ ring = [s \in Slots |-> EmptySlot]
    /\ write_idx = 0 /\ read_decsa_idx = 0 /\ read_send_idx = 0
    /\ to_descramble = 0 /\ to_send = 0
    /\ mpc = "run"
    /\ dpc = "relock" /\ d_wake = 0
    /\ scrambled = 0 /\ nscrambled = 0 /\ batch = {}
    /\ spc = "poll" /\ s_time = 0
    /\ nb_packets = 0
    /\ written = 0 /\ sent = 0
    /\ last_out = [slot |-> EmptySlot, at |-> 0]

Tick ==
    /\ now < MaxTime
    /\ now' = now + 1
    /\ UNCHANGED <<ringVars, mpc, decsaVars, sendVars, histVars>>

-----------------------------------------------------------------------------
(* Main thread *)

(* buffer_func: no test that the slot is free *)
M_Write(kind) ==
    /\ mpc = "run" /\ LockFree
    /\ written < MaxWritten /\ InFlight < MaxInFlight
    /\ now + DecsaDelay =< MaxTime /\ now + SendDelay =< MaxTime
    /\ ring' = [ring EXCEPT ![write_idx] =
                  [ kind |-> kind,
                    time_decsa |-> now + DecsaDelay, time_send |-> now + SendDelay,
                    pkt |-> written + 1, born |-> now, seen |-> "no" ]]
    /\ write_idx' = Advance(write_idx)
    /\ to_descramble' = to_descramble + 1
    /\ written' = written + 1
    /\ UNCHANGED <<now, read_decsa_idx, read_send_idx, to_send, mpc,
                   decsaVars, sendVars, sent, last_out>>

(* scam_channel_stop: scam_send_stop, then scam_decsa_stop, then the frees *)
M_StopSend ==
    /\ mpc = "run"
    /\ mpc' = "join_send"
    /\ UNCHANGED <<now, ringVars, decsaVars, sendVars, histVars>>

M_StopDecsa ==
    /\ mpc = "join_send" /\ spc = "exited"
    /\ mpc' = "join_decsa"
    /\ UNCHANGED <<now, ringVars, decsaVars, sendVars, histVars>>

M_Free ==
    /\ mpc = "join_decsa" /\ dpc = "exited"
    /\ mpc' = "freed"
    /\ UNCHANGED <<now, ringVars, decsaVars, sendVars, histVars>>

-----------------------------------------------------------------------------
(* Decsa thread: decsathread_func *)

\* The first lock, and the lock after the sleep of a starved thread
D_Lock ==
    /\ dpc = "relock"
    /\ dpc' = "loop"
    /\ UNCHANGED <<now, ringVars, mpc, d_wake, scrambled, nscrambled, batch,
                   sendVars, histVars>>

D_Exit ==
    /\ dpc = "loop" /\ decsathread_shutdown
    /\ dpc' = "exited"
    /\ UNCHANGED <<now, ringVars, mpc, d_wake, scrambled, nscrambled, batch,
                   sendVars, histVars>>

D_Starve ==
    /\ dpc = "loop" /\ ~ decsathread_shutdown
    /\ to_descramble = 0
    /\ dpc' = "relock"
    /\ UNCHANGED <<now, ringVars, mpc, d_wake, scrambled, nscrambled, batch,
                   sendVars, histVars>>

D_Delay ==
    /\ dpc = "loop" /\ ~ decsathread_shutdown
    /\ to_descramble # 0
    /\ now < ring[read_decsa_idx].time_decsa
    /\ dpc' = "delay"
    /\ d_wake' = ring[read_decsa_idx].time_decsa
    /\ UNCHANGED <<now, ringVars, mpc, scrambled, nscrambled, batch,
                   sendVars, histVars>>

\* The iteration goes on without a delay, or after it.
DecsaProceeds ==
    \/ /\ dpc = "loop" /\ ~ decsathread_shutdown
       /\ to_descramble # 0
       /\ now >= ring[read_decsa_idx].time_decsa
    \/ dpc = "delay" /\ now >= d_wake

\* Slip of BatchComplete: > for ==
BatchOverfull(s, n) == s > BatchSize \/ n > BatchSize

BatchComplete(s, n) == s = BatchSize \/ n = BatchSize

(* One packet examined.  "chosen": it goes into a batch, which takes a ca  *)
(* index and a first key of its parity.                                    *)
D_Take(seen) ==
    LET kind == ring[read_decsa_idx].kind IN
    /\ DecsaProceeds
    /\ seen = "chosen" => kind = "scrambled"
    /\ ring' = [ring EXCEPT ![read_decsa_idx].seen = seen]
    /\ batch' = batch \cup (IF seen = "chosen" THEN {read_decsa_idx} ELSE {})
    /\ scrambled' = scrambled + (IF kind = "scrambled" THEN 1 ELSE 0)
    /\ nscrambled' = nscrambled + (IF kind = "scrambled" THEN 0 ELSE 1)
    /\ read_decsa_idx' = Advance(read_decsa_idx)
    /\ to_descramble' = to_descramble - 1
    /\ dpc' = IF BatchComplete(scrambled', nscrambled') THEN "decrypt" ELSE "loop"
    /\ UNCHANGED <<now, write_idx, read_send_idx, to_send, mpc, d_wake,
                   sendVars, histVars>>

\* One packet of the batches decrypted in place, the mutex released
D_Decrypt(s) ==
    /\ dpc = "decrypt" /\ s \in batch
    /\ ring' = [ring EXCEPT ![s].kind = "clear"]
    /\ batch' = batch \ {s}
    /\ UNCHANGED <<now, write_idx, read_decsa_idx, read_send_idx, to_descramble,
                   to_send, mpc, dpc, d_wake, scrambled, nscrambled,
                   sendVars, histVars>>

\* Slips of D_HandOver: clear packets not counted, packets handed over
\* before they are decrypted
HandOverScrambledOnly ==
    /\ dpc = "decrypt" /\ batch = {} /\ dpc' = "loop"
    /\ to_send' = to_send + scrambled
    /\ scrambled' = 0 /\ nscrambled' = 0
    /\ UNCHANGED <<now, ring, write_idx, read_decsa_idx, read_send_idx,
                   to_descramble, mpc, d_wake, batch, sendVars, histVars>>

HandOverFirst ==
    /\ dpc = "decrypt"
    /\ dpc' = IF batch = {} THEN "loop" ELSE "decrypt"
    /\ to_send' = to_send + scrambled + nscrambled
    /\ scrambled' = 0 /\ nscrambled' = 0
    /\ UNCHANGED <<now, ring, write_idx, read_decsa_idx, read_send_idx,
                   to_descramble, mpc, d_wake, batch, sendVars, histVars>>

D_HandOver ==
    /\ dpc = "decrypt" /\ batch = {}
    /\ dpc' = "loop"
    /\ to_send' = to_send + scrambled + nscrambled
    /\ scrambled' = 0 /\ nscrambled' = 0
    /\ UNCHANGED <<now, ring, write_idx, read_decsa_idx, read_send_idx,
                   to_descramble, mpc, d_wake, batch, sendVars, histVars>>

-----------------------------------------------------------------------------
(* Send thread: sendthread_func *)

\* Slip of S_Head: the first loop does not look at sendthread_shutdown
HeadDeaf ==
    /\ \/ spc = "poll" /\ spc' = "pollread"
       \/ spc = "loop" /\ spc' = (IF sendthread_shutdown THEN "exited" ELSE "read")
    /\ UNCHANGED <<now, ringVars, mpc, decsaVars, s_time, nb_packets, histVars>>

\* The head of the first loop ("poll") or of the second one ("loop")
S_Head ==
    /\ \/ spc = "poll" /\ spc' = (IF sendthread_shutdown THEN "exited" ELSE "pollread")
       \/ spc = "loop" /\ spc' = (IF sendthread_shutdown THEN "exited" ELSE "read")
    /\ UNCHANGED <<now, ringVars, mpc, decsaVars, s_time, nb_packets, histVars>>

S_PollRead ==
    /\ spc = "pollread" /\ LockFree
    /\ spc' = IF to_send # 0 THEN "loop" ELSE "poll"
    /\ UNCHANGED <<now, ringVars, mpc, decsaVars, s_time, nb_packets, histVars>>

\* Slips of S_Read: the packets to descramble counted as packets to send, no
\* test for a starved thread, the wrong one of the two times
ReadAnyPacket ==
    /\ spc = "read" /\ LockFree
    /\ spc' = IF to_send + to_descramble = 0 THEN "loop" ELSE "delay"
    /\ s_time' = ring[read_send_idx].time_send
    /\ UNCHANGED <<now, ringVars, mpc, decsaVars, nb_packets, histVars>>

ReadUntested ==
    /\ spc = "read" /\ LockFree
    /\ spc' = "delay"
    /\ s_time' = ring[read_send_idx].time_send
    /\ UNCHANGED <<now, ringVars, mpc, decsaVars, nb_packets, histVars>>

ReadWrongTime ==
    /\ spc = "read" /\ LockFree
    /\ spc' = IF to_send = 0 THEN "loop" ELSE "delay"
    /\ s_time' = ring[read_send_idx].time_decsa
    /\ UNCHANGED <<now, ringVars, mpc, decsaVars, nb_packets, histVars>>

S_Read ==
    /\ spc = "read" /\ LockFree
    /\ spc' = IF to_send = 0 THEN "loop" ELSE "delay"
    /\ s_time' = ring[read_send_idx].time_send
    /\ UNCHANGED <<now, ringVars, mpc, decsaVars, nb_packets, histVars>>

(* The delay is over: the packet at read_send_idx is copied into the       *)
(* datagram, unless it is scrambled and such packets are not wanted.       *)
S_Take ==
    /\ spc = "delay" /\ now >= s_time /\ LockFree
    /\ nb_packets' = nb_packets +
          (IF DontSendScrambled /\ ring[read_send_idx].kind # "clear" THEN 0 ELSE 1)
    /\ read_send_idx' = Advance(read_send_idx)
    /\ to_send' = to_send - 1
    /\ spc' = IF nb_packets' + 1 > BufPackets THEN "flush" ELSE "loop"
    /\ sent' = sent + 1
    /\ last_out' = [slot |-> ring[read_send_idx], at |-> now]
    /\ UNCHANGED <<now, ring, write_idx, read_decsa_idx, to_descramble, mpc,
                   decsaVars, s_time, written>>

\* send_func
S_Flush ==
    /\ spc = "flush"
    /\ nb_packets' = 0
    /\ spc' = "loop"
    /\ UNCHANGED <<now, ringVars, mpc, decsaVars, s_time, histVars>>

-----------------------------------------------------------------------------
Main == (\E kind \in Kinds : M_Write(kind)) \/ M_StopSend \/ M_StopDecsa \/ M_Free
Decsa == \/ D_Lock \/ D_Exit \/ D_Starve \/ D_Delay
         \/ \E seen \in {"left", "chosen"} : D_Take(seen)
         \/ \E s \in Slots : D_Decrypt(s)
         \/ D_HandOver
Send == S_Head \/ S_PollRead \/ S_Read \/ S_Take \/ S_Flush

\* After the frees nothing is left to do.
Done == mpc = "freed" /\ UNCHANGED vars

Next == Tick \/ Main \/ Decsa \/ Send \/ Done

Spec == Init /\ [][Next]_vars

(* The threads are runnable whenever they do not sleep.  The send thread   *)
(* contends for a mutex that the decsa thread releases for the length of a *)
(* sleep or of a decryption, again and again: it gets the mutex in time.   *)
(* Nothing is assumed of the stream, nor of when the program is stopped.   *)
Fairness ==
    /\ WF_vars(Tick)
    /\ WF_vars(Decsa)
    /\ SF_vars(Send)
    /\ WF_vars(M_StopDecsa) /\ WF_vars(M_Free)

FairSpec == Spec /\ Fairness

-----------------------------------------------------------------------------
(* PROPERTIES *)

(* Every variable keeps its type; in particular the three indices stay in  *)
(* the ring and the unsigned counters never go below zero.                 *)
TypeOK ==
    /\ now \in Nat
    /\ ring \in [Slots -> Slot]
    /\ write_idx \in Slots /\ read_decsa_idx \in Slots /\ read_send_idx \in Slots
    /\ to_descramble \in Nat /\ to_send \in Nat
    /\ mpc \in {"run", "join_send", "join_decsa", "freed"}
    /\ dpc \in {"relock", "loop", "delay", "decrypt", "exited"}
    /\ d_wake \in Nat
    /\ scrambled \in 0 .. BatchSize /\ nscrambled \in 0 .. BatchSize
    /\ batch \subseteq Slots
    /\ spc \in {"poll", "pollread", "loop", "read", "delay", "flush", "exited"}
    /\ s_time \in Nat
    /\ nb_packets \in 0 .. BufPackets
    /\ written \in Nat /\ sent \in Nat
    /\ last_out \in [slot : Slot, at : Nat]

(* The counters account for every packet between the writer and the send   *)
(* thread, the decsa thread's own two counters included, and each index is *)
(* where its counter says.  True even when the ring overflows.             *)
CountersAgree ==
    /\ InFlight = to_send + InBatch + to_descramble
    /\ write_idx = SlotOf(written + 1)
    /\ read_decsa_idx = SlotOf(written - to_descramble + 1)
    /\ read_send_idx = SlotOf(sent + 1)

(* While the stream fits in the ring (MaxInFlight =< RingSize), the slots   *)
(* between the send thread's index and the writer's hold the packets not   *)
(* sent yet, in order: none was overwritten.                               *)
RingHoldsStream ==
    \A i \in sent + 1 .. written : ring[SlotOf(i)].pkt = i

(* A slot the decsa thread decrypts, without the mutex, is neither the     *)
(* slot the writer stores into next nor one the send thread may take.      *)
DecryptsAlone ==
    /\ \A s \in batch : \E i \in sent + to_send + 1 .. written - to_descramble :
           s = SlotOf(i)
    /\ InFlight < RingSize => write_idx \notin batch

(* The send thread only takes packets that the decsa thread examined, and  *)
(* those put into a batch have been decrypted by then.                     *)
DescrambledWhenOut ==
    sent # 0 => /\ last_out.slot.seen # "no"
                /\ last_out.slot.seen = "chosen" => last_out.slot.kind = "clear"

(* No packet leaves before the channel's delay has passed since it came.   *)
NeverEarly ==
    sent # 0 => last_out.at >= last_out.slot.born + SendDelay

(* Packets leave in the order they came, each one once.                    *)
InOrder == last_out.slot.pkt = sent

(* The ring implements the delay line (when the stream fits in it).        *)
Line == INSTANCE DelayLine WITH
            arrived <- written, released <- sent + to_send,
            out <- last_out.slot.pkt

ImplementsDelayLine == Line!Spec

(* A packet is taken to be sent once 2 * BatchSize - 2 packets have come   *)
(* after it (as many as may wait in an incomplete batch), unless the       *)
(* program is being stopped.                                               *)
EveryPacketLeaves ==
    \A k \in 1 .. MaxWritten :
        (written >= k + 2 * BatchSize - 2) ~> (sent >= k \/ mpc # "run")

(* scam_channel_stop returns: both threads notice they must end.           *)
StopReturns == (mpc = "join_send") ~> (mpc = "freed")

(* What the monitor thread tests, with the mutex, to report an overflow.   *)
MonitorSeesOverflow == to_descramble + to_send >= RingSize

(* README.asciidoc:783: "In debug mode number of packets in the buffer is  *)
(* reported and buffer overflow is detected": when a packet not sent yet   *)
(* has been overwritten, the monitor's test tells.                         *)
OverflowDetected ==
    InFlight > RingSize /\ LockFree => MonitorSeesOverflow
=============================================================================
