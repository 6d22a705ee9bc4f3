-------------------------- MODULE CardThread_proofs --------------------------
(***************************************************************************)
(* What the two buffers between the card thread and the main loop          *)
(* guarantee, for every size of the reads and of the buffers.              *)
(***************************************************************************)
EXTENDS CardThread, TLAPS

(* What the card thread knows: the test for room, made without the mutex,  *)
(* still holds when it has the mutex, for only the main thread makes       *)
(* bytes_in_write_buffer smaller; and the buffers are empty when it starts.*)
CardKnows ==
    /\ cpc = "lock" => HasRoom
    /\ cpc = "start" => bytes_in_write_buffer = 0

\* The packets read from the card before those of the writing buffer
Unswapped == delivered - bytes_in_write_buffer

(* How far the main loop is: it has handled every packet swapped so far,   *)
(* or it is in the middle of the reading buffer, for the first or for a    *)
(* second time.                                                            *)
Progress ==
    /\ mpc # "process" => handled = Unswapped
    /\ mpc = "process" /\ read_buff_pos # 0 =>
          handled = Unswapped - bytes_read + read_buff_pos
    /\ mpc = "process" /\ read_buff_pos = 0 =>
          handled \in {Unswapped - bytes_read, Unswapped}

IInv == TypeOK /\ CardKnows /\ BuffersHoldStream /\ Progress

LEMMA InitIInv == Init => IInv
<1> SUFFICES ASSUME Init PROVE IInv OBVIOUS
<1> USE CardAssumption DEF Init
<1>1. TypeOK
  <2>1. main_waiting \in BOOLEAN /\ interrupted \in BOOLEAN /\ repeated \in BOOLEAN
    OBVIOUS
  <2>2. buffer \in [{1, 2} -> [Positions -> 0 .. MaxPackets]] OBVIOUS
  <2> QED BY <2>1, <2>2 DEF TypeOK, MainSteps, CardSteps
<1>2. CardKnows BY DEF CardKnows
<1>3. BuffersHoldStream BY DEF BuffersHoldStream
<1>4. Progress BY DEF Progress, Unswapped
<1> QED BY <1>1, <1>2, <1>3, <1>4 DEF IInv

-----------------------------------------------------------------------------
(* The steps that touch the buffers, the others leave them as they are *)

LEMMA SwapIInv == IInv /\ M_Swap => IInv'
<1> SUFFICES ASSUME IInv, M_Swap PROVE IInv' OBVIOUS
<1> USE CardAssumption DEF IInv
<1>1. main_waiting' \in BOOLEAN BY DEF TypeOK, M_Swap
<1>2. WritingBuffer \in {1, 2} /\ 3 - WritingBuffer = actual_read_buffer
  BY DEF TypeOK, WritingBuffer
<1>3. /\ read_buff_pos' = 0 /\ mpc # "process" /\ mpc' = "process"
      /\ UNCHANGED <<buffer, interrupted, cpc, handler, histVars>>
  BY DEF M_Swap
<1>4. CASE bytes_in_write_buffer # 0
  <2>1. /\ actual_read_buffer' = WritingBuffer
        /\ bytes_read' = bytes_in_write_buffer /\ bytes_in_write_buffer' = 0
    BY <1>4 DEF M_Swap
  <2>2. TypeOK' BY <1>1, <1>2, <1>3, <2>1 DEF TypeOK, histVars, MainSteps
  <2>3. CardKnows' BY <1>3, <2>1 DEF TypeOK, CardKnows, HasRoom
  <2>4. BuffersHoldStream'
    BY <1>2, <1>3, <2>1 DEF TypeOK, BuffersHoldStream, WritingBuffer, histVars
  <2>5. Progress' BY <1>3, <2>1 DEF TypeOK, Progress, Unswapped, histVars
  <2> QED BY <2>2, <2>3, <2>4, <2>5
<1>5. CASE bytes_in_write_buffer = 0
  <2>1. UNCHANGED <<actual_read_buffer, bytes_read, bytes_in_write_buffer>>
    BY <1>5 DEF M_Swap
  <2>2. TypeOK' BY <1>1, <1>3, <2>1 DEF TypeOK, histVars, MainSteps
  <2>3. CardKnows' BY <1>3, <2>1 DEF CardKnows, HasRoom
  <2>4. BuffersHoldStream' BY <1>3, <2>1 DEF BuffersHoldStream, WritingBuffer, histVars
  <2>5. Progress' BY <1>3, <1>5, <2>1 DEF TypeOK, Progress, Unswapped, histVars
  <2> QED BY <2>2, <2>3, <2>4, <2>5
<1> QED BY <1>4, <1>5

LEMMA PacketIInv == IInv /\ M_Packet => IInv' /\ handled' = Unswapped - bytes_read + read_buff_pos + 1
<1> SUFFICES ASSUME IInv, M_Packet
             PROVE  IInv' /\ handled' = Unswapped - bytes_read + read_buff_pos + 1
  OBVIOUS
<1> USE CardAssumption DEF IInv
<1>1. read_buff_pos + 1 \in 1 .. bytes_read /\ read_buff_pos + 1 \in Positions
  BY DEF TypeOK, Positions, M_Packet
<1>2. handled' = Unswapped - bytes_read + (read_buff_pos + 1)
  BY <1>1 DEF BuffersHoldStream, Unswapped, M_Packet
<1>3. handled' \in 0 .. MaxPackets BY <1>1 DEF TypeOK, M_Packet
<1>4. TypeOK'
  <2>1. repeated' \in BOOLEAN BY DEF TypeOK, M_Packet
  <2>2. read_buff_pos' \in 0 .. bytes_read' BY <1>1 DEF TypeOK, bufVars, M_Packet
  <2> QED BY <2>1, <2>2, <1>3 DEF TypeOK, bufVars, M_Packet
<1>5. CardKnows' BY DEF CardKnows, HasRoom, bufVars, M_Packet
<1>6. BuffersHoldStream' BY DEF BuffersHoldStream, WritingBuffer, bufVars, M_Packet
<1>7. Progress' BY <1>1, <1>2 DEF TypeOK, Progress, Unswapped, bufVars, M_Packet
<1> QED BY <1>2, <1>4, <1>5, <1>6, <1>7 DEF TypeOK, Unswapped

LEMMA ReadIInv == ASSUME NEW n \in 0 .. ChunkSize PROVE IInv /\ C_Read(n) => IInv'
<1> SUFFICES ASSUME IInv, C_Read(n) PROVE IInv' OBVIOUS
<1> USE CardAssumption DEF IInv
<1>1. WritingBuffer \in {1, 2} /\ WritingBuffer # actual_read_buffer
  BY DEF TypeOK, WritingBuffer
<1>2. bytes_in_write_buffer + n =< WriteSize
  BY DEF TypeOK, CardKnows, HasRoom, C_Read
<1>3. /\ buffer'[actual_read_buffer] = buffer[actual_read_buffer]
      /\ \A p \in Positions : buffer'[WritingBuffer][p] =
            IF p \in bytes_in_write_buffer + 1 .. bytes_in_write_buffer + n
            THEN delivered + p - bytes_in_write_buffer
            ELSE buffer[WritingBuffer][p]
  BY <1>1 DEF TypeOK, C_Read
<1>4. TypeOK'
  <2>1. buffer' \in [{1, 2} -> [Positions -> 0 .. MaxPackets]]
    <3>1. \A p \in Positions :
             p \in bytes_in_write_buffer + 1 .. bytes_in_write_buffer + n =>
                delivered + p - bytes_in_write_buffer \in 0 .. MaxPackets
      BY DEF TypeOK, Positions, C_Read
    <3> QED BY <1>1, <3>1 DEF TypeOK, C_Read
  <2>2. mpc' \in {mpc, "woken"} BY DEF C_Read, Wakened
  <2> QED BY <2>1, <2>2, <1>2 DEF TypeOK, C_Read, MainSteps, CardSteps
<1>5. CardKnows' BY DEF CardKnows, C_Read
<1>6. BuffersHoldStream'
  <2>1. \A p \in 1 .. bytes_in_write_buffer' :
           buffer'[WritingBuffer'][p] = delivered' - bytes_in_write_buffer' + p
    <3> SUFFICES ASSUME NEW p \in 1 .. bytes_in_write_buffer'
                 PROVE  buffer'[WritingBuffer'][p] = delivered' - bytes_in_write_buffer' + p
      OBVIOUS
    <3>1. p \in Positions /\ WritingBuffer' = WritingBuffer
      BY <1>2 DEF TypeOK, Positions, WritingBuffer, C_Read
    <3>2. CASE p =< bytes_in_write_buffer
      BY <3>1, <3>2, <1>3 DEF TypeOK, BuffersHoldStream, C_Read
    <3>3. CASE p > bytes_in_write_buffer
      BY <3>1, <3>3, <1>3 DEF TypeOK, C_Read
    <3> QED BY <3>2, <3>3 DEF TypeOK, C_Read
  <2>2. delivered' - bytes_in_write_buffer' = delivered - bytes_in_write_buffer
    BY DEF TypeOK, C_Read
  <2> QED BY <2>1, <2>2, <1>3 DEF BuffersHoldStream, C_Read
<1>7. Progress'
  <2>1. Unswapped' = Unswapped BY DEF TypeOK, Unswapped, C_Read
  <2>2. mpc' = mpc \/ (mpc = "waiting" /\ mpc' = "woken")
    <3>1. mpc' = mpc \/ mpc' = Wakened BY Zenon DEF C_Read
    <3> QED BY <3>1 DEF Wakened
  <2>3. UNCHANGED <<handled, bytes_read, read_buff_pos>> BY DEF C_Read
  <2> QED BY <2>1, <2>2, <2>3 DEF Progress
<1> QED BY <1>4, <1>5, <1>6, <1>7

(* The other steps move the threads, and set or reset flags.               *)
LEMMA MoveIInv ==
    ASSUME IInv,
           UNCHANGED <<bufVars, read_buff_pos, histVars>>,
           main_waiting' \in BOOLEAN, interrupted' \in BOOLEAN,
           mpc' \in MainSteps, cpc' \in CardSteps,
           handler' \in {"none", "main", "card", "other", "done"},
           cpc' = "lock" => HasRoom, cpc' = "start" => cpc = "start",
           \/ mpc' = mpc
           \/ mpc # "process" /\ mpc' # "process"
           \/ mpc = "process" /\ read_buff_pos = bytes_read /\ mpc' # "process"
    PROVE  IInv'
<1> USE DEF IInv, bufVars, histVars
<1>1. TypeOK' BY DEF TypeOK
<1>2. CardKnows' BY DEF CardKnows, HasRoom
<1>3. BuffersHoldStream' BY DEF BuffersHoldStream, WritingBuffer
<1>4. Progress'
  <2>1. Unswapped' = Unswapped BY DEF Unswapped
  <2>2. CASE mpc' = mpc BY <2>1, <2>2 DEF Progress
  <2>3. CASE mpc # "process" /\ mpc' # "process" BY <2>1, <2>3 DEF Progress
  <2>4. CASE mpc = "process" /\ read_buff_pos = bytes_read /\ mpc' # "process"
    <3>1. handled = Unswapped
      BY <2>4, CardAssumption DEF TypeOK, Progress, Unswapped
    <3> QED BY <2>1, <2>4, <3>1 DEF Progress
  <2> QED BY <2>2, <2>3, <2>4
<1> QED BY <1>1, <1>2, <1>3, <1>4

-----------------------------------------------------------------------------
LEMMA NextIInv == IInv /\ [Next]_vars => IInv'
<1> SUFFICES ASSUME IInv, [Next]_vars PROVE IInv' OBVIOUS
<1> DEFINE Typed == /\ mpc \in MainSteps /\ cpc \in CardSteps
                    /\ handler \in {"none", "main", "card", "other", "done"}
                    /\ main_waiting \in BOOLEAN /\ interrupted \in BOOLEAN
<1>0. Typed BY DEF IInv, TypeOK
<1>1. CASE M_Swap BY <1>1, SwapIInv
<1>2. CASE M_Packet BY <1>2, PacketIInv
<1>3. CASE \E n \in 0 .. ChunkSize : C_Read(n) BY <1>3, ReadIInv
<1>4. CASE \/ M_HeadLock \/ M_HeadRead \/ M_Test \/ M_LockToWait \/ M_CondWait
           \/ M_SpuriousWakeup \/ M_EndOfBuffer
  <2>1. /\ UNCHANGED <<bufVars, read_buff_pos, histVars, interrupted, cpc, handler>>
        /\ main_waiting' \in {main_waiting, TRUE}
    BY <1>4, Zenon DEF M_HeadLock, M_HeadRead, M_Test, M_LockToWait, M_CondWait,
                       M_SpuriousWakeup, M_EndOfBuffer
  <2>2. /\ mpc' \in MainSteps
        /\ \/ mpc # "process" /\ mpc' # "process"
           \/ mpc = "process" /\ read_buff_pos = bytes_read /\ mpc' # "process"
    BY <1>4 DEF MainSteps, M_HeadLock, M_HeadRead, M_Test, M_LockToWait, M_CondWait,
                M_SpuriousWakeup, M_EndOfBuffer
  <2> QED BY <1>0, <2>1, <2>2, MoveIInv DEF IInv, CardKnows
<1>5. CASE C_Start
  <2>1. /\ UNCHANGED <<bufVars, read_buff_pos, histVars, main_waiting, interrupted,
                       mpc, handler>>
        /\ cpc' = "head"
    BY <1>5 DEF IInv, CardKnows, bufVars, histVars, C_Start
  <2> QED BY <1>0, <2>1, MoveIInv DEF CardSteps
<1>6. CASE \/ C_HeadLock \/ C_HeadRead \/ C_PollError \/ C_Room \/ C_TestWaiting
           \/ C_Signal \/ \E outcome \in {"nodata", "data", "error"} : C_Poll(outcome)
  <2>1. /\ UNCHANGED <<bufVars, read_buff_pos, histVars, main_waiting, handler>>
        /\ interrupted' \in {interrupted, TRUE}
        /\ mpc' \in {mpc, Wakened}
    BY <1>6, Zenon DEF C_HeadLock, C_HeadRead, C_PollError, C_Room, C_TestWaiting,
                       C_Signal, C_Poll
  <2>2. /\ cpc' \in {"head", "head_in", "exited", "poll", "nodata", "data", "error",
                      "lock", "signal"}
        /\ cpc' = "lock" => HasRoom
    BY <1>6 DEF C_HeadLock, C_HeadRead, C_PollError, C_Room, C_TestWaiting,
                C_Signal, C_Poll
  <2>3. mpc' = mpc \/ (mpc = "waiting" /\ mpc' = "woken") BY <2>1 DEF Wakened
  <2> QED BY <1>0, <2>1, <2>2, <2>3, MoveIInv DEF MainSteps, CardSteps
<1>7. CASE Handler \/ Done \/ UNCHANGED vars
  <2>1. /\ UNCHANGED <<bufVars, read_buff_pos, histVars, main_waiting, mpc, cpc>>
        /\ interrupted' \in {interrupted, TRUE}
    BY <1>7, Zenon DEF vars, Handler, H_Arrive, H_SetInterrupted, Done
  <2>2. handler' \in {handler, "main", "card", "other", "done"}
    BY <1>7, CardAssumption DEF vars, Handler, H_Arrive, H_SetInterrupted, Done
  <2> QED BY <1>0, <2>1, <2>2, MoveIInv DEF IInv, CardKnows
<1> QED BY <1>1, <1>2, <1>3, <1>4, <1>5, <1>6, <1>7 DEF Next, Main, Card

LEMMA SpecIInv == Spec => []IInv
BY InitIInv, NextIInv, PTL DEF Spec

-----------------------------------------------------------------------------
(* Every variable keeps its type: the card thread never writes past the    *)
(* end of its buffer, although it looks for room without the mutex.        *)
THEOREM TypeCorrect == Spec => []TypeOK
<1>1. IInv => TypeOK BY DEF IInv
<1> QED BY <1>1, SpecIInv, PTL

(* The two buffers hold the end of what the card delivered: the buffer the *)
(* main loop reads is not written to, and nothing is lost between them.    *)
THEOREM StreamKept == Spec => []BuffersHoldStream
<1>1. IInv => BuffersHoldStream BY DEF IInv
<1> QED BY <1>1, SpecIInv, PTL

(* The main loop handles the packets one after the other and leaves none   *)
(* out; all it may do wrong is to handle the reading buffer again.         *)
THEOREM NoPacketSkipped == Spec => NothingSkipped
<1> DEFINE Step == \/ handled' = handled + 1
                   \/ read_buff_pos = 0 /\ handled' = handled - bytes_read + 1
<1>1. IInv /\ [Next]_vars => [Step]_handled
  <2> SUFFICES ASSUME IInv, [Next]_vars, handled' # handled PROVE Step OBVIOUS
  <2>1. M_Packet
    BY DEF Next, Main, Card, Handler, Done, vars, histVars, M_HeadLock, M_HeadRead,
           M_Test, M_LockToWait, M_CondWait, M_SpuriousWakeup, M_Swap, M_EndOfBuffer,
           C_Start, C_HeadLock, C_HeadRead, C_PollError, C_Room, C_TestWaiting,
           C_Signal, C_Poll, C_Read, H_Arrive, H_SetInterrupted
  <2>2. handled' = Unswapped - bytes_read + read_buff_pos + 1 BY <2>1, PacketIInv
  <2>3. mpc = "process" BY <2>1 DEF M_Packet
  <2> QED BY <2>2, <2>3, CardAssumption DEF IInv, TypeOK, Progress, Unswapped
<1> QED BY <1>1, SpecIInv, PTL DEF Spec, NothingSkipped
=============================================================================
