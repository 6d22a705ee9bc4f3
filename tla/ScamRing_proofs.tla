--------------------------- MODULE ScamRing_proofs ---------------------------
(***************************************************************************)
(* What the ring of a descrambled channel guarantees, for every size of    *)
(* the ring, of the batches and of the delays.                             *)
(***************************************************************************)
EXTENDS ScamRing, TLAPS

-----------------------------------------------------------------------------
(* Lemmas on the slots of the ring *)

(* The slot of a packet is one of the ring's.                              *)
LEMMA SlotOfType ==
    ASSUME NEW i \in Nat, i # 0 PROVE SlotOf(i) \in Slots
BY SizesAssumption DEF SlotOf, Slots

(* Quotients tell apart numbers with the same remainder.                   *)
LEMMA QuotientStep ==
    ASSUME NEW d \in Nat \ {0}, NEW p \in Int, NEW q \in Int, p < q
    PROVE  d * q >= d * p + d
<1>1. q - p - 1 \in Nat OBVIOUS
<1>2. d * (q - p - 1) >= 0 BY <1>1
<1>3. d * (q - p - 1) = d * q - d * p - d OBVIOUS
<1> QED BY <1>2, <1>3

(* The remainder is the only one of its kind.                              *)
LEMMA RemainderUnique ==
    ASSUME NEW d \in Nat \ {0}, NEW x \in Nat, NEW k \in Int, NEW r \in 0 .. d - 1,
           x = d * k + r
    PROVE  x % d = r
<1> DEFINE p == x \div d
           s == x % d
<1>1. x = d * p + s /\ p \in Int /\ s \in 0 .. d - 1 OBVIOUS
<1> HIDE DEF p, s
<1>2. ~ (p < k)
  <2>1. p < k => d * k >= d * p + d BY QuotientStep, <1>1
  <2> QED BY <2>1, <1>1
<1>3. ~ (k < p)
  <2>1. k < p => d * p >= d * k + d BY QuotientStep, <1>1
  <2> QED BY <2>1, <1>1
<1>4. p = k BY <1>1, <1>2, <1>3
<1>5. s = r BY <1>1, <1>4
<1> QED BY <1>5 DEF s

(* Advancing an index by one leads to the slot of the next packet.         *)
LEMMA SlotOfNext ==
    ASSUME NEW i \in Nat, i # 0 PROVE Advance(SlotOf(i)) = SlotOf(i + 1)
<1> DEFINE m == i - 1
           r == m % RingSize
           q == m \div RingSize
<1>1. m \in Nat /\ RingSize \in Nat \ {0} BY SizesAssumption
<1>2. r \in 0 .. RingSize - 1 /\ q \in Int /\ m = RingSize * q + r BY <1>1
<1>3. CASE r + 1 < RingSize
  <2>1. m + 1 = RingSize * q + (r + 1) BY <1>1, <1>2
  <2>2. (m + 1) % RingSize = r + 1 BY <2>1, <1>1, <1>2, <1>3
  <2>3. (r + 1) % RingSize = r + 1 BY <1>1, <1>2, <1>3
  <2> QED BY <2>2, <2>3 DEF Advance, SlotOf
<1>4. CASE r + 1 = RingSize
  <2>1. m + 1 = RingSize * (q + 1) BY <1>1, <1>2, <1>4
  <2>2. (m + 1) % RingSize = 0
    <3>1. m + 1 = RingSize * (q + 1) + 0 BY <2>1, <1>1, <1>2
    <3> QED BY <3>1, <1>1, <1>2, RemainderUnique
  <2>3. (r + 1) % RingSize = 0 BY <1>1, <1>4
  <2> QED BY <2>2, <2>3 DEF Advance, SlotOf
<1> QED BY <1>2, <1>3, <1>4, <1>1

(* Packets less than the size of the ring apart have different slots.      *)
LEMMA SlotOfInjective ==
    ASSUME NEW i \in Nat, NEW j \in Nat, i # 0, i < j, j - i < RingSize
    PROVE  SlotOf(i) # SlotOf(j)
<1>1. RingSize \in Nat \ {0} BY SizesAssumption
<1> DEFINE p == (i - 1) \div RingSize
           q == (j - 1) \div RingSize
<1>2. i - 1 = RingSize * p + SlotOf(i) /\ p \in Int BY <1>1 DEF SlotOf
<1>3. j - 1 = RingSize * q + SlotOf(j) /\ q \in Int BY <1>1 DEF SlotOf
<1>4. SlotOf(i) \in Nat /\ SlotOf(j) \in Nat BY SlotOfType DEF Slots
<1>5. SUFFICES ASSUME SlotOf(i) = SlotOf(j) PROVE FALSE OBVIOUS
<1> HIDE DEF p, q
<1>6. RingSize * q - RingSize * p = j - i BY <1>2, <1>3, <1>4, <1>5, <1>1
<1>7. CASE p < q
  <2>1. RingSize * q >= RingSize * p + RingSize BY QuotientStep, <1>1, <1>2, <1>3, <1>7
  <2> QED BY <2>1, <1>6, <1>1, <1>2, <1>3
<1>8. CASE q < p
  <2>1. RingSize * p >= RingSize * q + RingSize BY QuotientStep, <1>1, <1>2, <1>3, <1>8
  <2> QED BY <2>1, <1>6, <1>1, <1>2, <1>3
<1>9. CASE p = q BY <1>9, <1>6, <1>1, <1>2
<1> QED BY <1>7, <1>8, <1>9, <1>2, <1>3

(* The slot next to be stored into is not the slot of a packet in flight.  *)
LEMMA NextSlotFree ==
    ASSUME NEW i \in Nat, NEW w \in Nat, i # 0, i =< w, w + 1 - i < RingSize
    PROVE  SlotOf(i) # SlotOf(w + 1)
<1>1. PICK j \in Nat : j = w + 1 OBVIOUS
<1>2. i < j /\ j - i < RingSize BY <1>1
<1>3. SlotOf(i) # SlotOf(j) BY <1>2, SlotOfInjective
<1> QED BY <1>1, <1>3

-----------------------------------------------------------------------------
(* Types and counters: true of any stream, even one that overflows *)

(* What the threads know at each point of their loops: the decsa thread    *)
(* has room in its batches, a thread that sleeps before a packet still has *)
(* that packet when it wakes up, and the datagram has room.                *)
Control ==
    /\ dpc # "decrypt" => scrambled < BatchSize /\ nscrambled < BatchSize
    /\ dpc = "delay" => to_descramble > 0
    /\ spc = "delay" => to_send > 0
    /\ spc # "flush" => nb_packets < BufPackets

IInv == TypeOK /\ Control /\ CountersAgree

LEMMA InitIInv == Init => IInv
<1> SUFFICES ASSUME Init PROVE IInv OBVIOUS
<1>1. TypeOK
  <2>1. 0 \in Slots BY SizesAssumption DEF Slots
  <2>2. EmptySlot \in Slot BY DEF EmptySlot, Slot, AllKinds
  <2> QED BY <2>1, <2>2, SizesAssumption DEF Init, TypeOK
<1>2. Control BY SizesAssumption DEF Init, Control
<1>3. CountersAgree
  <2>1. 0 % RingSize = 0 BY SizesAssumption
  <2> QED BY <2>1 DEF Init, CountersAgree, InFlight, InBatch, SlotOf
<1> QED BY <1>1, <1>2, <1>3 DEF IInv

LEMMA NextIInv == IInv /\ [Next]_vars => IInv'
<1> SUFFICES ASSUME IInv, [Next]_vars PROVE IInv' OBVIOUS
<1> USE SizesAssumption, StreamAssumption, BoundsAssumption
<1> USE DEF IInv, TypeOK, Control
<1>a. /\ Advance(write_idx) = SlotOf(written + 2)
      /\ Advance(read_send_idx) = SlotOf(sent + 2)
      /\ Advance(read_decsa_idx) = SlotOf(written - to_descramble + 2)
  <2>1. written - to_descramble \in Nat BY DEF CountersAgree, InFlight, InBatch
  <2>2. /\ written + 1 \in Nat \ {0} /\ sent + 1 \in Nat \ {0}
        /\ written - to_descramble + 1 \in Nat \ {0}
    BY <2>1
  <2>3. /\ written + 1 + 1 = written + 2 /\ sent + 1 + 1 = sent + 2
        /\ written - to_descramble + 1 + 1 = written - to_descramble + 2
    BY <2>1
  <2> QED BY <2>2, <2>3, SlotOfNext DEF CountersAgree
<1>b. /\ Advance(write_idx) \in Slots /\ Advance(read_send_idx) \in Slots
      /\ Advance(read_decsa_idx) \in Slots
  BY DEF Advance, Slots
<1>1. CASE Tick
  BY <1>1 DEF Tick, ringVars, decsaVars, sendVars, histVars, CountersAgree, InFlight, InBatch
<1>2. ASSUME NEW kind \in Kinds, M_Write(kind) PROVE IInv'
  <2>1. TypeOK'
    <3>1. ring' \in [Slots -> Slot] BY <1>2 DEF M_Write, Slot
    <3> QED BY <3>1, <1>2, <1>b DEF M_Write, decsaVars, sendVars
  <2>2. Control' BY <1>2 DEF M_Write, decsaVars, sendVars
  <2>3. CountersAgree'
    <3>1. /\ written' + 1 = written + 2
          /\ written' - to_descramble' + 1 = written - to_descramble + 1
      BY <1>2 DEF M_Write
    <3> QED BY <3>1, <1>2, <1>a
            DEF M_Write, decsaVars, sendVars, CountersAgree, InFlight, InBatch
  <2> QED BY <2>1, <2>2, <2>3
<1>3. CASE M_StopSend \/ M_StopDecsa \/ M_Free
  BY <1>3 DEF M_StopSend, M_StopDecsa, M_Free, ringVars, decsaVars, sendVars, histVars,
              CountersAgree, InFlight, InBatch
<1>4. CASE D_Lock \/ D_Exit \/ D_Starve
  BY <1>4 DEF D_Lock, D_Exit, D_Starve, ringVars, sendVars, histVars,
              CountersAgree, InFlight, InBatch
<1>5. CASE D_Delay
  <2>1. ring[read_decsa_idx].time_decsa \in Nat BY DEF Slot
  <2> QED BY <2>1, <1>5 DEF D_Delay, ringVars, sendVars, histVars,
                            CountersAgree, InFlight, InBatch
<1>6. ASSUME NEW seen \in {"left", "chosen"}, D_Take(seen) PROVE IInv'
  <2>1. to_descramble > 0 /\ scrambled < BatchSize /\ nscrambled < BatchSize
    BY <1>6 DEF D_Take, DecsaProceeds
  <2>2. ring' \in [Slots -> Slot] BY <1>6 DEF D_Take, Slot
  <2>3. /\ scrambled' \in 0 .. BatchSize /\ nscrambled' \in 0 .. BatchSize
        /\ scrambled' + nscrambled' = scrambled + nscrambled + 1
    BY <2>1, <1>6 DEF D_Take
  <2>4. dpc' \in {"decrypt", "loop"}
        /\ (dpc' = "loop" => scrambled' < BatchSize /\ nscrambled' < BatchSize)
    BY <2>3, <1>6 DEF D_Take, BatchComplete
  <2>5. batch' \subseteq Slots BY <1>6 DEF D_Take
  <2>6. to_descramble' = to_descramble - 1 /\ to_descramble' \in Nat BY <2>1, <1>6 DEF D_Take
  <2>7. TypeOK' BY <2>2, <2>3, <2>4, <2>5, <2>6, <1>b, <1>6 DEF D_Take, sendVars, histVars
  <2>8. Control' BY <2>4, <1>6 DEF D_Take, sendVars
  <2>9. CountersAgree'
    <3>1. written' - to_descramble' + 1 = written - to_descramble + 2
      BY <2>6, <1>6 DEF D_Take, histVars
    <3> QED BY <3>1, <2>3, <2>6, <1>a, <1>6
            DEF D_Take, histVars, CountersAgree, InFlight, InBatch
  <2> QED BY <2>7, <2>8, <2>9
<1>7. ASSUME NEW s \in Slots, D_Decrypt(s) PROVE IInv'
  <2>1. ring' \in [Slots -> Slot] BY <1>7 DEF D_Decrypt, Slot, AllKinds
  <2> QED BY <2>1, <1>7 DEF D_Decrypt, sendVars, histVars, CountersAgree, InFlight, InBatch
<1>8. CASE D_HandOver
  BY <1>8 DEF D_HandOver, sendVars, histVars, CountersAgree, InFlight, InBatch
<1>9. CASE S_Head \/ S_PollRead
  BY <1>9 DEF S_Head, S_PollRead, ringVars, decsaVars, histVars,
              CountersAgree, InFlight, InBatch
<1>10. CASE S_Read
  <2>1. ring[read_send_idx].time_send \in Nat BY DEF Slot
  <2> QED BY <2>1, <1>10 DEF S_Read, ringVars, decsaVars, histVars,
                             CountersAgree, InFlight, InBatch
<1>11. CASE S_Take
  <2>1. to_send > 0 /\ nb_packets < BufPackets BY <1>11 DEF S_Take
  <2>2. nb_packets' \in {nb_packets, nb_packets + 1} BY <1>11 DEF S_Take
  <2>3. spc' = (IF nb_packets' + 1 > BufPackets THEN "flush" ELSE "loop") BY <1>11 DEF S_Take
  <2>4. last_out' \in [slot : Slot, at : Nat] BY <1>11 DEF S_Take
  <2>5. TypeOK' BY <2>1, <2>2, <2>3, <2>4, <1>b, <1>11 DEF S_Take, decsaVars
  <2>6. Control' BY <2>1, <2>2, <2>3, <1>11 DEF S_Take, decsaVars
  <2>7. CountersAgree'
    BY <2>1, <1>a, <1>11 DEF S_Take, decsaVars, CountersAgree, InFlight, InBatch
  <2> QED BY <2>5, <2>6, <2>7
<1>12. CASE S_Flush
  BY <1>12 DEF S_Flush, ringVars, decsaVars, histVars, CountersAgree, InFlight, InBatch
<1>13. CASE UNCHANGED vars
  BY <1>13 DEF vars, ringVars, decsaVars, sendVars, histVars, CountersAgree, InFlight, InBatch
<1> QED
  BY <1>1, <1>2, <1>3, <1>4, <1>5, <1>6, <1>7, <1>8, <1>9, <1>10, <1>11, <1>12, <1>13
  DEF Next, Main, Decsa, Send, Done

LEMMA SpecIInv == Spec => []IInv
BY InitIInv, NextIInv, PTL DEF Spec

(* The indices of the three threads stay in the ring and none of the       *)
(* counters they share goes below zero.                                    *)
THEOREM TypeCorrect == Spec => []TypeOK
<1>1. IInv => TypeOK BY DEF IInv
<1> QED BY <1>1, SpecIInv, PTL

(* No packet escapes the counters, whatever the interleaving and even when *)
(* the writer laps the send thread.                                        *)
THEOREM Accounted == Spec => []CountersAgree
<1>1. IInv => CountersAgree BY DEF IInv
<1> QED BY <1>1, SpecIInv, PTL

-----------------------------------------------------------------------------
(* The stream: true when it fits in the ring *)

(* The packets a thread has still to handle are the ones it handled in the *)
(* slots left untouched since: their due time, what the decsa thread made  *)
(* of them, and the slots its batches point into.                          *)
DueTimes ==
    \A i \in sent + 1 .. written :
        ring[SlotOf(i)].time_send = ring[SlotOf(i)].born + SendDelay

Examined ==
    \A i \in sent + 1 .. written - to_descramble :
        /\ ring[SlotOf(i)].seen # "no"
        /\ ring[SlotOf(i)].seen = "chosen" =>
              ring[SlotOf(i)].kind = "clear" \/ SlotOf(i) \in batch

BatchInWindow ==
    \A s \in batch : \E i \in sent + to_send + 1 .. written - to_descramble :
        s = SlotOf(i)

SendTimeOfHead == spc = "delay" => s_time = ring[SlotOf(sent + 1)].time_send

StreamInv ==
    /\ InFlight =< MaxInFlight
    /\ RingHoldsStream /\ DueTimes /\ Examined /\ BatchInWindow /\ SendTimeOfHead
    /\ DescrambledWhenOut /\ NeverEarly /\ InOrder

(* The facts about the present state that the steps share.                 *)
LEMMA Window ==
    ASSUME IInv, StreamInv, MaxInFlight =< RingSize
    PROVE  /\ written - to_descramble \in Nat
           /\ sent + to_send =< written - to_descramble
           /\ write_idx = SlotOf(written + 1)
           /\ read_decsa_idx = SlotOf(written - to_descramble + 1)
           /\ read_send_idx = SlotOf(sent + 1)
           /\ \A i \in sent + 1 .. written : SlotOf(i) \in Slots
           /\ \A i, j \in sent + 1 .. written : i # j => SlotOf(i) # SlotOf(j)
<1> USE DEF IInv, TypeOK, CountersAgree, InFlight, InBatch, StreamInv
<1>1. written - to_descramble \in Nat /\ sent + to_send =< written - to_descramble
  OBVIOUS
<1>2. RingSize \in Nat /\ MaxInFlight \in Nat BY SizesAssumption, BoundsAssumption
<1>3. \A i \in sent + 1 .. written : i \in Nat /\ i # 0 OBVIOUS
<1>4. \A i \in sent + 1 .. written : SlotOf(i) \in Slots BY <1>3, SlotOfType
<1>5. ASSUME NEW i \in sent + 1 .. written, NEW j \in sent + 1 .. written, i # j
      PROVE  SlotOf(i) # SlotOf(j)
  <2>1. CASE i < j
    <3>1. j - i < RingSize BY <1>2
    <3> QED BY <3>1, <2>1, <1>3, SlotOfInjective
  <2>2. CASE j < i
    <3>1. i - j < RingSize BY <1>2
    <3> QED BY <3>1, <2>2, <1>3, SlotOfInjective
  <2> QED BY <2>1, <2>2, <1>5, <1>3
<1> QED BY <1>1, <1>4, <1>5

LEMMA InitStreamInv == Init => StreamInv
BY BoundsAssumption
DEF Init, StreamInv, InFlight, RingHoldsStream, DueTimes, Examined, BatchInWindow,
    SendTimeOfHead, DescrambledWhenOut, NeverEarly, InOrder, EmptySlot

(* The writer's slot is none of those in use.                              *)
LEMMA WriteKeepsStream ==
    ASSUME IInv, StreamInv, MaxInFlight =< RingSize, NEW kind \in Kinds, M_Write(kind)
    PROVE  StreamInv'
<1> USE DEF TypeOK
<1>1. /\ TypeOK /\ written' = written + 1 /\ sent' = sent
      /\ to_send' = to_send /\ written' - to_descramble' = written - to_descramble
      /\ UNCHANGED <<now, batch, spc, s_time, last_out>>
  BY DEF M_Write, decsaVars, sendVars, IInv
<1>2. InFlight < MaxInFlight /\ InFlight' = InFlight + 1
  BY <1>1 DEF M_Write, InFlight
<1>3. \A i \in sent + 1 .. written : SlotOf(i) \in Slots /\ SlotOf(i) # write_idx
  <2> TAKE i \in sent + 1 .. written
  <2>1. i \in Nat /\ i # 0 /\ i =< written BY <1>1
  <2>2. written + 1 - i < RingSize
    BY <1>2, <1>1, <2>1, SizesAssumption, BoundsAssumption DEF InFlight
  <2>3. SlotOf(i) # SlotOf(written + 1) BY <1>1, <2>1, <2>2, NextSlotFree
  <2>4. write_idx = SlotOf(written + 1) BY Window
  <2>5. SlotOf(i) \in Slots BY <2>1, SlotOfType
  <2> QED BY <2>3, <2>4, <2>5
<1>4. \A i \in sent + 1 .. written : ring'[SlotOf(i)] = ring[SlotOf(i)]
  BY <1>3, <1>1 DEF M_Write
<1>5. /\ ring'[write_idx].pkt = written + 1
      /\ ring'[write_idx].time_send = ring'[write_idx].born + SendDelay
  BY <1>1, SizesAssumption DEF M_Write
<1>6. write_idx = SlotOf(written + 1) BY Window
<1>7. \A i \in sent + 1 .. written + 1 : i \in sent + 1 .. written \/ i = written + 1
  BY <1>1
<1>8. written - to_descramble \in Nat /\ written - to_descramble =< written
  BY <1>1, Window
<1>9. InFlight' =< MaxInFlight BY <1>1, <1>2, BoundsAssumption DEF InFlight
<1>10. RingHoldsStream' BY <1>1, <1>4, <1>5, <1>6, <1>7 DEF RingHoldsStream, StreamInv
<1>11. DueTimes' BY <1>1, <1>4, <1>5, <1>6, <1>7 DEF DueTimes, StreamInv
<1>12. Examined' BY <1>1, <1>4, <1>8 DEF Examined, StreamInv
<1>13. BatchInWindow' BY <1>1 DEF BatchInWindow, StreamInv
<1>14. SendTimeOfHead'
  <2>1. spc = "delay" => sent + 1 \in sent + 1 .. written
    BY <1>1, Window DEF IInv, Control
  <2> QED BY <2>1, <1>1, <1>4 DEF SendTimeOfHead, StreamInv
<1>15. (DescrambledWhenOut /\ NeverEarly /\ InOrder)'
  BY <1>1 DEF DescrambledWhenOut, NeverEarly, InOrder, StreamInv
<1> QED BY <1>9, <1>10, <1>11, <1>12, <1>13, <1>14, <1>15 DEF StreamInv

(* Examining a packet: the slot at read_decsa_idx joins the window.        *)
LEMMA TakeKeepsStream ==
    ASSUME IInv, StreamInv, MaxInFlight =< RingSize,
           NEW seen \in {"left", "chosen"}, D_Take(seen)
    PROVE  StreamInv'
<1> DEFINE n == written - to_descramble + 1
<1>1. /\ TypeOK /\ to_descramble > 0
      /\ written' = written /\ sent' = sent /\ to_send' = to_send
      /\ written' - to_descramble' = n
      /\ UNCHANGED <<now, spc, s_time, last_out, read_send_idx>>
  BY DEF D_Take, DecsaProceeds, IInv, TypeOK, Control, sendVars, histVars
<1>2. n \in sent + 1 .. written /\ sent + to_send + 1 \in Nat /\ sent + to_send + 1 =< n
  BY <1>1, Window DEF TypeOK
<1>3. read_decsa_idx = SlotOf(n) /\ read_decsa_idx \in Slots BY <1>1, Window DEF TypeOK
<1>4. ring' = [ring EXCEPT ![read_decsa_idx].seen = seen] BY DEF D_Take
<1>5. \A i \in sent + 1 .. written :
         /\ SlotOf(i) \in Slots
         /\ i # n => SlotOf(i) # read_decsa_idx
  BY <1>2, <1>3, Window
<1>6. \A i \in sent + 1 .. written :
         /\ ring'[SlotOf(i)].pkt = ring[SlotOf(i)].pkt
         /\ ring'[SlotOf(i)].born = ring[SlotOf(i)].born
         /\ ring'[SlotOf(i)].kind = ring[SlotOf(i)].kind
         /\ ring'[SlotOf(i)].time_send = ring[SlotOf(i)].time_send
         /\ ring'[SlotOf(i)].seen = IF i = n THEN seen ELSE ring[SlotOf(i)].seen
  BY <1>1, <1>3, <1>4, <1>5 DEF TypeOK, Slot
<1>7. batch' = batch \cup (IF seen = "chosen" THEN {SlotOf(n)} ELSE {})
  BY <1>3 DEF D_Take
<1>8. InFlight' =< MaxInFlight BY <1>1 DEF InFlight, StreamInv
<1>9. RingHoldsStream' BY <1>1, <1>6 DEF RingHoldsStream, StreamInv
<1>10. DueTimes' BY <1>1, <1>6 DEF DueTimes, StreamInv
<1>11. Examined'
  <2> SUFFICES ASSUME NEW i \in sent + 1 .. n
               PROVE  /\ ring'[SlotOf(i)].seen # "no"
                      /\ ring'[SlotOf(i)].seen = "chosen" =>
                            ring'[SlotOf(i)].kind = "clear" \/ SlotOf(i) \in batch'
    BY <1>1 DEF Examined
  <2>1. i \in sent + 1 .. written BY <1>1, <1>2 DEF TypeOK
  <2>2. CASE i = n BY <2>1, <2>2, <1>6, <1>7
  <2>3. CASE i # n
    <3>1. i \in sent + 1 .. written - to_descramble BY <2>3, <1>1 DEF TypeOK
    <3> QED BY <3>1, <2>1, <2>3, <1>6, <1>7 DEF Examined, StreamInv
  <2> QED BY <2>2, <2>3
<1>12. BatchInWindow'
  <2> SUFFICES ASSUME NEW s \in batch'
               PROVE  \E i \in sent + to_send + 1 .. n : s = SlotOf(i)
    BY <1>1 DEF BatchInWindow
  <2>1. CASE s \in batch
    <3>1. PICK i \in sent + to_send + 1 .. written - to_descramble : s = SlotOf(i)
      BY <2>1 DEF BatchInWindow, StreamInv
    <3> QED BY <3>1, <1>1 DEF TypeOK
  <2>2. CASE s = SlotOf(n) BY <2>2, <1>1, <1>2 DEF TypeOK
  <2> QED BY <2>1, <2>2, <1>7
<1>13. SendTimeOfHead'
  <2>1. spc = "delay" => sent + 1 \in sent + 1 .. written
    BY <1>1, <1>2 DEF TypeOK
  <2> QED BY <2>1, <1>1, <1>6 DEF SendTimeOfHead, StreamInv
<1>14. (DescrambledWhenOut /\ NeverEarly /\ InOrder)'
  BY <1>1 DEF DescrambledWhenOut, NeverEarly, InOrder, StreamInv
<1> QED BY <1>8, <1>9, <1>10, <1>11, <1>12, <1>13, <1>14 DEF StreamInv

(* Decrypting in place touches nothing but the packet itself.              *)
LEMMA DecryptKeepsStream ==
    ASSUME IInv, StreamInv, MaxInFlight =< RingSize, NEW s \in Slots, D_Decrypt(s)
    PROVE  StreamInv'
<1>1. /\ TypeOK
      /\ UNCHANGED <<now, written, sent, to_send, to_descramble, spc, s_time, last_out>>
  BY DEF D_Decrypt, IInv, sendVars, histVars
<1>2. ring' = [ring EXCEPT ![s].kind = "clear"] /\ batch' = batch \ {s} BY DEF D_Decrypt
<1>3. \A i \in sent + 1 .. written :
         /\ ring'[SlotOf(i)].pkt = ring[SlotOf(i)].pkt
         /\ ring'[SlotOf(i)].born = ring[SlotOf(i)].born
         /\ ring'[SlotOf(i)].seen = ring[SlotOf(i)].seen
         /\ ring'[SlotOf(i)].time_send = ring[SlotOf(i)].time_send
         /\ ring'[SlotOf(i)].kind =
               IF SlotOf(i) = s THEN "clear" ELSE ring[SlotOf(i)].kind
  <2>1. \A i \in sent + 1 .. written : SlotOf(i) \in Slots BY Window
  <2> QED BY <2>1, <1>1, <1>2 DEF TypeOK, Slot
<1>4. InFlight' =< MaxInFlight BY <1>1 DEF InFlight, StreamInv
<1>5. RingHoldsStream' BY <1>1, <1>3 DEF RingHoldsStream, StreamInv
<1>6. DueTimes' BY <1>1, <1>3 DEF DueTimes, StreamInv
<1>7. Examined'
  <2>1. \A i \in sent + 1 .. written - to_descramble : i \in sent + 1 .. written
    BY <1>1, Window DEF TypeOK
  <2> QED BY <2>1, <1>1, <1>2, <1>3 DEF Examined, StreamInv
<1>8. BatchInWindow' BY <1>1, <1>2 DEF BatchInWindow, StreamInv
<1>9. SendTimeOfHead'
  <2>1. spc = "delay" => sent + 1 \in sent + 1 .. written
    BY <1>1, Window DEF IInv, Control, TypeOK
  <2> QED BY <2>1, <1>1, <1>3 DEF SendTimeOfHead, StreamInv
<1>10. (DescrambledWhenOut /\ NeverEarly /\ InOrder)'
  BY <1>1 DEF DescrambledWhenOut, NeverEarly, InOrder, StreamInv
<1> QED BY <1>4, <1>5, <1>6, <1>7, <1>8, <1>9, <1>10 DEF StreamInv

(* A complete batch is handed over once nothing is left to decrypt in it.  *)
LEMMA HandOverKeepsStream ==
    ASSUME IInv, StreamInv, MaxInFlight =< RingSize, D_HandOver
    PROVE  StreamInv'
<1>1. /\ TypeOK /\ batch = {}
      /\ UNCHANGED <<now, ring, written, sent, to_descramble, batch, spc, s_time, last_out>>
  BY DEF D_HandOver, IInv, sendVars, histVars
<1> QED
  BY <1>1 DEF StreamInv, InFlight, RingHoldsStream, DueTimes, Examined, BatchInWindow,
              SendTimeOfHead, DescrambledWhenOut, NeverEarly, InOrder

(* The send thread reads the due time of the packet it takes next.         *)
LEMMA ReadKeepsStream ==
    ASSUME IInv, StreamInv, MaxInFlight =< RingSize, S_Read
    PROVE  StreamInv'
<1>1. /\ UNCHANGED <<now, ring, written, sent, to_send, to_descramble, batch, last_out>>
      /\ s_time' = ring[SlotOf(sent + 1)].time_send
  BY Window DEF S_Read, ringVars, decsaVars, histVars
<1> QED
  BY <1>1 DEF StreamInv, InFlight, RingHoldsStream, DueTimes, Examined, BatchInWindow,
              SendTimeOfHead, DescrambledWhenOut, NeverEarly, InOrder

(* The packet taken to be sent was handed over: it is the oldest one, due, *)
(* examined, and in no batch any more.                                     *)
LEMMA SendKeepsStream ==
    ASSUME IInv, StreamInv, MaxInFlight =< RingSize, S_Take
    PROVE  StreamInv'
<1> DEFINE h == ring[SlotOf(sent + 1)]
<1>1. /\ TypeOK /\ to_send > 0
      /\ sent' = sent + 1 /\ to_send' = to_send - 1
      /\ spc' # "delay"
      /\ UNCHANGED <<now, ring, written, to_descramble, batch>>
  BY DEF S_Take, IInv, Control, decsaVars
<1>2. last_out' = [slot |-> h, at |-> now] /\ now >= s_time /\ spc = "delay"
  BY Window DEF S_Take
<1>3. /\ sent + 1 \in sent + 1 .. written
      /\ sent + 1 \in sent + 1 .. written - to_descramble
  BY <1>1, Window DEF TypeOK
<1>4. SlotOf(sent + 1) \notin batch
  <2> SUFFICES ASSUME SlotOf(sent + 1) \in batch PROVE FALSE OBVIOUS
  <2>1. PICK i \in sent + to_send + 1 .. written - to_descramble :
            SlotOf(sent + 1) = SlotOf(i)
    BY DEF BatchInWindow, StreamInv
  <2>2. i \in sent + 1 .. written /\ i # sent + 1 BY <1>1, Window DEF TypeOK
  <2> QED BY <2>1, <2>2, <1>3, Window
<1>5. InFlight' =< MaxInFlight BY <1>1, BoundsAssumption DEF InFlight, StreamInv, TypeOK
<1>6. \A i \in sent' + 1 .. written : i \in sent + 1 .. written BY <1>1 DEF TypeOK
<1>7. (RingHoldsStream /\ DueTimes)'
  BY <1>1, <1>6 DEF RingHoldsStream, DueTimes, StreamInv
<1>8. Examined' BY <1>1 DEF Examined, StreamInv, TypeOK
<1>9. BatchInWindow'
  <2>1. sent' + to_send' = sent + to_send BY <1>1 DEF TypeOK
  <2> QED BY <2>1, <1>1 DEF BatchInWindow, StreamInv
<1>10. SendTimeOfHead' BY <1>1 DEF SendTimeOfHead
<1>11. DescrambledWhenOut'
  BY <1>2, <1>3, <1>4 DEF DescrambledWhenOut, Examined, StreamInv
<1>12. NeverEarly'
  <2>1. s_time = h.born + SendDelay
    BY <1>2, <1>3 DEF SendTimeOfHead, DueTimes, StreamInv
  <2> QED BY <2>1, <1>2 DEF NeverEarly
<1>13. InOrder'
  <2>1. h.pkt = sent + 1 BY <1>3 DEF RingHoldsStream, StreamInv
  <2> QED BY <2>1, <1>1, <1>2 DEF InOrder
<1> QED BY <1>5, <1>7, <1>8, <1>9, <1>10, <1>11, <1>12, <1>13 DEF StreamInv

LEMMA NextStreamInv ==
    ASSUME MaxInFlight =< RingSize
    PROVE  IInv /\ StreamInv /\ [Next]_vars => StreamInv'
<1> SUFFICES ASSUME IInv, StreamInv, [Next]_vars PROVE StreamInv' OBVIOUS
<1>1. CASE Tick
  <2>1. /\ TypeOK /\ now' = now + 1
        /\ UNCHANGED <<ring, written, sent, to_send, to_descramble, batch, spc, s_time,
                       last_out>>
    BY <1>1 DEF Tick, IInv, ringVars, decsaVars, sendVars, histVars
  <2> QED
    BY <2>1 DEF StreamInv, InFlight, RingHoldsStream, DueTimes, Examined, BatchInWindow,
                SendTimeOfHead, DescrambledWhenOut, NeverEarly, InOrder
<1>2. ASSUME NEW kind \in Kinds, M_Write(kind) PROVE StreamInv'
  BY <1>2, WriteKeepsStream
<1>3. ASSUME NEW seen \in {"left", "chosen"}, D_Take(seen) PROVE StreamInv'
  BY <1>3, TakeKeepsStream
<1>4. ASSUME NEW s \in Slots, D_Decrypt(s) PROVE StreamInv'
  BY <1>4, DecryptKeepsStream
<1>5. CASE D_HandOver BY <1>5, HandOverKeepsStream
<1>6. CASE S_Read BY <1>6, ReadKeepsStream
<1>7. CASE S_Take BY <1>7, SendKeepsStream
<1>8. CASE \/ M_StopSend \/ M_StopDecsa \/ M_Free
           \/ D_Lock \/ D_Exit \/ D_Starve \/ D_Delay
           \/ S_Head \/ S_PollRead \/ S_Flush \/ UNCHANGED vars
  <2>1. /\ UNCHANGED <<now, ring, written, sent, to_send, to_descramble, batch, s_time,
                       last_out>>
        /\ spc' = "delay" => spc = "delay"
    BY <1>8 DEF M_StopSend, M_StopDecsa, M_Free, D_Lock, D_Exit, D_Starve, D_Delay,
                S_Head, S_PollRead, S_Flush, vars, ringVars, decsaVars, sendVars, histVars
  <2> QED
    BY <2>1 DEF StreamInv, InFlight, RingHoldsStream, DueTimes, Examined, BatchInWindow,
                SendTimeOfHead, DescrambledWhenOut, NeverEarly, InOrder
<1> QED
  BY <1>1, <1>2, <1>3, <1>4, <1>5, <1>6, <1>7, <1>8
  DEF Next, Main, Decsa, Send, Done

LEMMA SpecStreamInv ==
    ASSUME MaxInFlight =< RingSize PROVE Spec => [](IInv /\ StreamInv)
BY InitIInv, NextIInv, InitStreamInv, NextStreamInv, PTL DEF Spec

(* No packet is overwritten before it is sent, as long as the ring has     *)
(* room for the packets in flight.                                         *)
THEOREM NothingOverwritten ==
    ASSUME MaxInFlight =< RingSize PROVE Spec => []RingHoldsStream
<1>1. StreamInv => RingHoldsStream BY DEF StreamInv
<1> QED BY <1>1, SpecStreamInv, PTL

(* The decryption done without the mutex races with no other thread.       *)
THEOREM DecryptionUndisturbed ==
    ASSUME MaxInFlight =< RingSize PROVE Spec => []DecryptsAlone
<1>1. IInv /\ StreamInv => DecryptsAlone
  <2> SUFFICES ASSUME IInv, StreamInv, InFlight < RingSize PROVE write_idx \notin batch
    BY DEF DecryptsAlone, StreamInv, BatchInWindow
  <2> SUFFICES ASSUME write_idx \in batch PROVE FALSE OBVIOUS
  <2>1. PICK i \in sent + to_send + 1 .. written - to_descramble : write_idx = SlotOf(i)
    BY DEF BatchInWindow, StreamInv
  <2>2. TypeOK BY DEF IInv
  <2>3. i \in Nat /\ i # 0 /\ i =< written /\ written + 1 - i < RingSize
    BY <2>2, Window, SizesAssumption DEF TypeOK, InFlight
  <2>4. SlotOf(i) # SlotOf(written + 1) BY <2>2, <2>3, NextSlotFree DEF TypeOK
  <2>5. write_idx = SlotOf(written + 1) BY Window
  <2> QED BY <2>1, <2>3, <2>4, <2>5
<1> QED BY <1>1, SpecStreamInv, PTL

(* What leaves has been examined, and decrypted when it was put in a batch.*)
THEOREM OutIsDescrambled ==
    ASSUME MaxInFlight =< RingSize PROVE Spec => []DescrambledWhenOut
<1>1. StreamInv => DescrambledWhenOut BY DEF StreamInv
<1> QED BY <1>1, SpecStreamInv, PTL

(* No packet leaves before its delay is over.                              *)
THEOREM DelayKept ==
    ASSUME MaxInFlight =< RingSize PROVE Spec => []NeverEarly
<1>1. StreamInv => NeverEarly BY DEF StreamInv
<1> QED BY <1>1, SpecStreamInv, PTL

(* Packets leave in the order they came, each one once.                    *)
THEOREM OrderKept ==
    ASSUME MaxInFlight =< RingSize PROVE Spec => []InOrder
<1>1. StreamInv => InOrder BY DEF StreamInv
<1> QED BY <1>1, SpecStreamInv, PTL

(* Every step of the ring is a step of the delay line, or none.            *)
LEMMA StepSimulation ==
    ASSUME MaxInFlight =< RingSize
    PROVE  IInv /\ StreamInv /\ StreamInv' /\ [Next]_vars => [Line!Next]_(Line!vars)
<1> SUFFICES ASSUME IInv, StreamInv, StreamInv', [Next]_vars
             PROVE  [Line!Next]_(Line!vars)
  OBVIOUS
<1> USE DEF Line!Next, Line!vars
<1>1. TypeOK /\ last_out.slot.pkt = sent /\ last_out'.slot.pkt = sent'
  BY DEF IInv, StreamInv, InOrder
<1>2. ASSUME NEW kind \in Kinds, M_Write(kind) PROVE Line!Arrive
  BY <1>2, <1>1 DEF M_Write, Line!Arrive
<1>3. CASE D_HandOver
  <2>1. to_send' = to_send + scrambled + nscrambled /\ UNCHANGED <<written, sent, last_out>>
    BY <1>3 DEF D_HandOver, histVars
  <2>2. sent + to_send + scrambled + nscrambled =< written
    BY <1>1 DEF IInv, TypeOK, CountersAgree, InFlight, InBatch
  <2>3. CASE scrambled + nscrambled = 0
    BY <2>1, <2>3, <1>1 DEF TypeOK
  <2>4. CASE scrambled + nscrambled > 0
    <3>1. sent' + to_send' \in sent + to_send + 1 .. written
      BY <2>1, <2>2, <2>4, <1>1 DEF TypeOK
    <3>2. Line!Release BY <3>1, <2>1 DEF Line!Release
    <3> QED BY <3>2
  <2> QED BY <2>3, <2>4, <1>1 DEF TypeOK
<1>4. CASE S_Take
  <2>1. /\ to_send > 0 /\ sent' = sent + 1 /\ to_send' = to_send - 1
        /\ UNCHANGED written
    BY <1>4 DEF S_Take, IInv, Control
  <2>2. sent' + to_send' = sent + to_send BY <2>1, <1>1 DEF TypeOK
  <2>3. sent < sent + to_send BY <2>1, <1>1 DEF TypeOK
  <2>4. Line!Emit BY <2>1, <2>2, <2>3, <1>1 DEF Line!Emit
  <2> QED BY <2>4
<1>5. CASE ~ (\E kind \in Kinds : M_Write(kind)) /\ ~ D_HandOver /\ ~ S_Take
  <2>1. UNCHANGED <<written, sent, to_send, last_out>>
    BY <1>5 DEF Next, Main, Decsa, Send, Done, Tick, M_StopSend, M_StopDecsa, M_Free,
                D_Lock, D_Exit, D_Starve, D_Delay, D_Take, D_Decrypt, S_Head, S_PollRead,
                S_Read, S_Flush, vars, ringVars, decsaVars, sendVars, histVars
  <2> QED BY <2>1
<1> QED BY <1>2, <1>3, <1>4, <1>5

(* The ring implements the delay line.                                     *)
THEOREM Refinement ==
    ASSUME MaxInFlight =< RingSize PROVE Spec => ImplementsDelayLine
<1>1. Init => Line!Init BY DEF Init, Line!Init, EmptySlot
<1>2. IInv /\ StreamInv /\ (IInv /\ StreamInv)' /\ [Next]_vars => [Line!Next]_(Line!vars)
  BY StepSimulation
<1> QED BY <1>1, <1>2, SpecStreamInv, PTL DEF Spec, ImplementsDelayLine, Line!Spec
=============================================================================
