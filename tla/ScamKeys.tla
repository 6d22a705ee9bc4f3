------------------------------ MODULE ScamKeys ------------------------------
(* The control words of a descrambled channel: the dialogue with oscam     *)
(* (scam_getcw.c, scam_capmt.c) and the way the decsa thread takes the      *)
(* keys and uses them (scam_decsa.c).  The ring itself is ScamRing's: here  *)
(* it is the sequence of the packets not yet examined, each the number of   *)
(* its crypto period.  Even periods use the even key, odd ones the odd key; *)
(* the key of period k is the number k, and 0 is no key.                    *)
EXTENDS Integers, Sequences

CONSTANTS
    batch_size,    \* dvbcsa_bs_batch_size()
    PeriodLength,  \* packets a crypto period has at least
    RingLength,    \* packets that wait for their delay at most
    MaxPeriod,     \* bound on the periods
    MaxHups,       \* bound on the connections lost
    Streams        \* PIDs oscam asks to descramble, at most

\* The delay before descrambling is shorter than a crypto period.
KeysAssumption ==
    /\ batch_size \in Nat \ {0} /\ PeriodLength \in Nat /\ RingLength \in 0..PeriodLength
    /\ MaxPeriod \in Nat \ {0} /\ MaxHups \in Nat /\ Streams \in Nat

VARIABLES
    period,        \* the crypto period on air
    length,        \* packets of it so far, PeriodLength at most
    waiting,       \* to_descramble: the periods of the packets in the ring
    cw,            \* channel->even_cw, odd_cw
    got_key,       \* channel->got_key_even, got_key_odd
    ca_idx,        \* channel->ca_idx, 0 or not
    ca_idx_refcnt,
    camd,          \* channel->camd_socket
    need_scam_ask,
    thread,        \* the locals of decsathread_func
    given,         \* the last period oscam gave the key of
    hups,
    timely,        \* HISTORY the periods whose key came in time
    misused        \* HISTORY a packet of such a period was not treated with its key

keyVars == <<period, length, waiting, cw, got_key, ca_idx, ca_idx_refcnt, camd,
             need_scam_ask, thread, given, hups, timely, misused>>

Parities == {"even", "odd"}
Parity(k) == IF k % 2 = 0 THEN "even" ELSE "odd"
Other(p) == IF p = "even" THEN "odd" ELSE "even"

TypeOK ==
    /\ period \in 1..MaxPeriod /\ length \in 0..PeriodLength
    /\ waiting \in Seq(1..MaxPeriod) /\ Len(waiting) <= RingLength
    /\ cw \in [Parities -> 0..MaxPeriod] /\ got_key \in [Parities -> BOOLEAN]
    /\ ca_idx \in 0..1 /\ ca_idx_refcnt \in 0..Streams
    /\ camd \in {"closed", "open"} /\ need_scam_ask \in {"need", "asked"}
    /\ thread.batch \in [Parities -> Seq(1..MaxPeriod)]
    /\ thread.key \in [Parities -> 0..MaxPeriod] /\ thread.first \in [Parities -> BOOLEAN]
    /\ thread.scrambled \in 0..batch_size - 1 /\ thread.ca_idx \in 0..1
    /\ timely \subseteq 1..MaxPeriod /\ misused \in BOOLEAN

Init ==
    /\ period = 1 /\ length = 0 /\ waiting = <<>>
    /\ cw = [p \in Parities |-> 0] /\ got_key = [p \in Parities |-> FALSE]
    /\ ca_idx = 0 /\ ca_idx_refcnt = 0
    /\ camd = "closed" /\ need_scam_ask = "need"
    /\ thread = [batch |-> [p \in Parities |-> <<>>], key |-> [p \in Parities |-> 0],
                 first |-> [p \in Parities |-> FALSE], scrambled |-> 0, ca_idx |-> 0]
    /\ given = 0 /\ hups = 0 /\ timely = {} /\ misused = FALSE

-----------------------------------------------------------------------------
(* The stream.  No packet comes in clear.                                   *)
Packet ==
    /\ Len(waiting) < RingLength
    /\ waiting' = Append(waiting, period)
    /\ length' = IF length < PeriodLength THEN length + 1 ELSE length
    /\ UNCHANGED <<period, cw, got_key, ca_idx, ca_idx_refcnt, camd, need_scam_ask, thread,
                   given, hups, timely, misused>>

NextPeriod ==
    /\ length = PeriodLength /\ period < MaxPeriod
    /\ period' = period + 1 /\ length' = 0
    /\ UNCHANGED <<waiting, cw, got_key, ca_idx, ca_idx_refcnt, camd, need_scam_ask, thread,
                   given, hups, timely, misused>>

-----------------------------------------------------------------------------
(* The monitor thread asks: scam_send_capmt.  The connection may fail, and  *)
(* a short write closes it; the channel then still needs to ask.            *)
SendCapmt ==
    /\ need_scam_ask = "need"
    /\ \/ camd' = "closed" /\ need_scam_ask' = "need"
       \/ camd' = "open" /\ need_scam_ask' = "asked"
    /\ UNCHANGED <<period, length, waiting, cw, got_key, ca_idx, ca_idx_refcnt, thread, given,
                   hups, timely, misused>>

-----------------------------------------------------------------------------
(* The getcw thread, one message of oscam at a time.                        *)

\* Whether the key of period k comes in time: the decsa thread is at period k - 1, has two
\* batches of it to go, and either takes them for the other parity or has no key of k's.
InTime(k) ==
    /\ thread.ca_idx = 1
    /\ thread.first[Parity(k - 1)] \/ ~thread.first[Parity(k)]
    /\ Len(waiting) >= 2 * batch_size
    /\ \A i \in 1..2 * batch_size : waiting[i] = k - 1
    /\ thread.batch[Parity(k)] = <<>>

\* CA_SET_DESCR: keys come in the order of the periods, none before the period before its
\* own is on air.
SetDescr(k) ==
    /\ camd = "open" /\ k \in period..period + 1 /\ k > given /\ k <= MaxPeriod
    /\ cw' = [cw EXCEPT ![Parity(k)] = k]
    /\ got_key' = [got_key EXCEPT ![Parity(k)] = TRUE]
    /\ given' = k
    /\ timely' = IF InTime(k) THEN timely \cup {k} ELSE timely
    /\ UNCHANGED <<period, length, waiting, ca_idx, ca_idx_refcnt, camd, need_scam_ask, thread,
                   hups, misused>>

\* CA_SET_PID: the index comes with the first PID.
SetPid ==
    /\ camd = "open" /\ ca_idx_refcnt < Streams
    /\ ca_idx' = IF ca_idx_refcnt = 0 THEN 1 ELSE ca_idx
    /\ ca_idx_refcnt' = ca_idx_refcnt + 1
    /\ UNCHANGED <<period, length, waiting, cw, got_key, camd, need_scam_ask, thread, given,
                   hups, timely, misused>>

\* CA_SET_PID with the index -1.
RemovePid ==
    /\ camd = "open"
    /\ ca_idx_refcnt' = IF ca_idx_refcnt > 0 THEN ca_idx_refcnt - 1 ELSE 0
    /\ ca_idx' = IF ca_idx_refcnt' = 0 THEN 0 ELSE ca_idx
    /\ UNCHANGED <<period, length, waiting, cw, got_key, camd, need_scam_ask, thread, given,
                   hups, timely, misused>>

\* EPOLLHUP: the keys and their flags stay.
Hup ==
    /\ camd = "open" /\ hups < MaxHups
    /\ hups' = hups + 1
    /\ camd' = "closed" /\ need_scam_ask' = "need"
    /\ ca_idx_refcnt' = 0 /\ ca_idx' = 0
    /\ UNCHANGED <<period, length, waiting, cw, got_key, thread, given, timely, misused>>

-----------------------------------------------------------------------------
(* The decsa thread.                                                        *)

\* A key is loaded when the batch used the other one alone, or when it is the first.
Load(p, t) ==
    /\ got_key[p]
    /\ \/ t.batch[Other(p)] # <<>> /\ t.batch[p] = <<>>
       \/ ~t.first[p]

EndBatch(t) ==
    LET new == {p \in Parities : Load(p, t)}
        key == [p \in Parities |-> IF p \in new THEN cw[p] ELSE t.key[p]]
    IN  /\ got_key' = [p \in Parities |-> got_key[p] /\ p \notin new]
        /\ thread' = [batch |-> [p \in Parities |-> <<>>], key |-> key,
                      first |-> [p \in Parities |-> t.first[p] \/ p \in new],
                      scrambled |-> 0, ca_idx |-> ca_idx]
        /\ misused' = (\/ misused
                       \/ \E p \in Parities : \E i \in 1..Len(t.batch[p]) :
                              t.batch[p][i] \in timely /\ t.batch[p][i] # key[p])

\* One packet is examined; it is put in a batch if its key is there.
Examine ==
    /\ waiting # <<>>
    /\ waiting' = Tail(waiting)
    /\ LET k == Head(waiting)
           taken == thread.ca_idx = 1 /\ thread.first[Parity(k)]
           t == [thread EXCEPT !.scrambled = @ + 1,
                               !.batch[Parity(k)] = IF taken THEN Append(@, k) ELSE @]
       IN  IF t.scrambled = batch_size
           THEN EndBatch(t)
           ELSE thread' = t /\ UNCHANGED <<got_key, misused>>
    /\ UNCHANGED <<period, length, cw, ca_idx, ca_idx_refcnt, camd, need_scam_ask, given, hups,
                   timely>>

Next ==
    \/ Packet \/ NextPeriod
    \/ SendCapmt \/ (\E k \in 1..MaxPeriod : SetDescr(k)) \/ SetPid \/ RemovePid \/ Hup
    \/ Examine

Spec == Init /\ [][Next]_keyVars

-----------------------------------------------------------------------------

\* A packet of a period whose key came in time is decrypted with it and with no other, whatever
\* oscam removes, adds or loses meanwhile; and a channel has an index exactly as long as it has
\* PIDs to descramble.
KeysRight ==
    /\ ~misused
    /\ (ca_idx = 1) <=> (ca_idx_refcnt > 0)
=============================================================================
