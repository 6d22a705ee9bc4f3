------------------------------ MODULE TsPacket ------------------------------
(***************************************************************************)
(* Getting the sections of a table out of the TS packets of its PID        *)
(* (get_ts_packet in ts.c).  A section may spread over several packets, a  *)
(* packet may hold the end of a section and the beginning of others; what  *)
(* is complete waits in a buffer of full sections until the caller, one of *)
(* the handlers of the main loop, takes it.                                *)
(*                                                                         *)
(* The stream is made of numbered sections; a byte is <<k, i>>, the i-th   *)
(* one of section k.  Packets may be lost (the handlers do not pass on the *)
(* ones they do not want), come twice, have their payload damaged, or be   *)
(* such that get_ts_packet returns before it looks at their payload.       *)
(*                                                                         *)
(* Left out: the test of the PID (a mumudvb_ts_packet_t is given one PID), *)
(* the mutex (held from end to end, by one thread), stuffing tables, which *)
(* have no CRC, and damages a CRC does not see.                            *)
(***************************************************************************)
EXTENDS Integers, FiniteSets, SequencesExt

CONSTANTS
    PayloadSize,        \* bytes of a TS packet after its header
    HeaderLen,          \* BYTES_BFR_SEC_LEN: the length is known after as many
    MAX_TS_SIZE,
    MAX_FULL_PACKETS,
    CounterSize,        \* the continuity counter counts modulo that
    SectionLens,        \* lengths of the sections of the stream
    MaxSections,        \* bound: sections in the stream
    MaxFaults           \* bound: packets lost, repeated, damaged or refused

ASSUME SizesAssumption ==
    /\ HeaderLen \in Nat \ {0, 1} /\ PayloadSize \in Nat /\ PayloadSize > HeaderLen
    /\ MAX_TS_SIZE \in Nat
    /\ MAX_FULL_PACKETS \in Nat \ {0} /\ CounterSize \in Nat \ {0, 1}
    /\ MAX_TS_SIZE > MAX_FULL_PACKETS * PayloadSize
ASSUME StreamAssumption ==
    /\ SectionLens \subseteq HeaderLen .. MAX_TS_SIZE
    /\ MaxSections \in Nat /\ MaxFaults \in Nat

\* The length field can say more than MAX_TS_SIZE.
MaxLength == MAX_TS_SIZE + 2

\* Slip of FULL_BUFFER_SIZE: room for one section
FullBufferOne == MAX_TS_SIZE + 1
FULL_BUFFER_SIZE == 2 * MAX_TS_SIZE

VARIABLES
    (* the sender *)
    lens,           \* the lengths of the sections sent so far
    rest,           \* what is left to send of the last one
    counter,        \* its continuity counter
    last,           \* the packet sent last
    faults,
    (* mumudvb_ts_packet_t *)
    data_full,
    full_lengths,   \* of full_number elements
    buffer_full,    \* of full_buffer_len bytes
    data_partial,   \* of len_partial bytes
    expected_len_partial, status_partial, cc,
    (* get_ts_packet and its caller *)
    pc,             \* "idle", "add" (data left to add), "got" (1 was returned)
    packet_avail,
    packet_cc,      \* the argument cc of add_ts_packet_data
    todo,           \* calls of add_ts_packet_data left to do for the packet
    (* history *)
    delivered,      \* the sections the caller was given
    spoiled,        \* sections some packet of which did not arrive intact
    repeated,       \* whether a packet came twice
    unreported,     \* sections taken out by a call that returned 0
    skipped,        \* sections for which there were too many full ones
    dropped,        \* sections dropped with the whole buffer
    waited,         \* sections that were full when the last packet came
    left_behind     \* whether the caller left sections in the buffer

sender  == <<lens, rest, counter, last, faults>>
full    == <<data_full, full_lengths, buffer_full>>
partial == <<data_partial, expected_len_partial, status_partial, cc>>
call    == <<pc, packet_avail, packet_cc, todo>>
losses  == <<unreported, skipped, dropped>>
vars == <<sender, full, partial, call, delivered, spoiled, repeated, losses, waited, left_behind>>

-----------------------------------------------------------------------------
(* Sections and packets *)

Stuffing == <<0, 0>>
Noise == <<0, 1>>

Section(k, len) == [i \in 1 .. len |-> <<k, i>>]

\* The CRC is right
IsSection(bytes) == bytes # <<>> /\ bytes[1][1] # 0 /\ bytes = Section(bytes[1][1], lens[bytes[1][1]])

\* The sections that have bytes there
SectionsOf(bytes) == {bytes[i][1] : i \in DOMAIN bytes} \ {0}

Padded(bytes, size) == [i \in 1 .. size |-> IF i =< Len(bytes) THEN bytes[i] ELSE Stuffing]
Remaining(bytes, size) == SubSeq(bytes, size + 1, Len(bytes))
First(bytes, size) == SubSeq(bytes, 1, IF size < Len(bytes) THEN size ELSE Len(bytes))

Packet(pusi, pointer, payload) ==
    [kind |-> "payload", pusi |-> pusi, pointer |-> pointer, payload |-> payload, cc |-> counter]
NoPacket == [kind |-> "none"]
\* A packet get_ts_packet does not look into
Refused(kind) == [kind |-> kind]

Init ==
    /\ lens = <<>> /\ rest = <<>> /\ counter = 0 /\ faults = 0 /\ last = NoPacket
    /\ data_full = <<>> /\ full_lengths = <<>> /\ buffer_full = <<>>
    /\ data_partial = <<>> /\ expected_len_partial = 0
    /\ status_partial = "EMPTY" /\ cc = 0
    /\ pc = "idle" /\ packet_avail = FALSE /\ packet_cc = 0 /\ todo = <<>>
    /\ delivered = <<>> /\ spoiled = {} /\ repeated = FALSE
    /\ unreported = {} /\ skipped = {} /\ dropped = {}
    /\ waited = {} /\ left_behind = FALSE

-----------------------------------------------------------------------------
(* get_ts_packet: the call with a packet *)

\* Slip of PopFull: the buffer is not shifted
PopUnshifted ==
    /\ data_full' = SubSeq(buffer_full, 1, Head(full_lengths))
    /\ full_lengths' = Tail(full_lengths)
    /\ buffer_full' = SubSeq(buffer_full, 1, Len(buffer_full) - Head(full_lengths))

\* The first of the full sections is taken out for the caller.
PopFull ==
    /\ data_full' = SubSeq(buffer_full, 1, Head(full_lengths))
    /\ full_lengths' = Tail(full_lengths)
    /\ buffer_full' = Remaining(buffer_full, Head(full_lengths))

\* Slip of TakeOut: the last one is left
TakeOutAllButOne == IF Len(full_lengths) > 1 THEN PopFull ELSE UNCHANGED full

TakeOut == IF full_lengths # <<>> THEN PopFull ELSE UNCHANGED full

\* A call of add_ts_packet_data to come
Piece(start_flag, bytes) == [start_flag |-> start_flag, bytes |-> bytes]

Pieces(packet) ==
    LET ending == Piece("NO_START", SubSeq(packet.payload, 1, packet.pointer))
        beginning == Piece("START_TS", Remaining(packet.payload, packet.pointer))
    IN IF ~ packet.pusi THEN <<Piece("NO_START", packet.payload)>>
       ELSE IF packet.pointer = 0 THEN <<beginning>> ELSE <<ending, beginning>>

(* A packet with a payload: a full section is taken out, then the payload  *)
(* is gone through.                                                        *)
GetPayload(packet) ==
    /\ TakeOut
    /\ packet_avail' = (full_lengths # <<>>)
    /\ packet_cc' = packet.cc
    /\ todo' = Pieces(packet) /\ pc' = "add"
    /\ UNCHANGED <<partial, unreported>>

(* The early returns: no payload, a field too big, what looks like a PES.  *)
(* The result is 1 if there are full sections left.                        *)
GetRefused(packet) ==
    /\ TakeOut
    /\ pc' = IF Len(full_lengths) > 1 THEN "got" ELSE "idle"
    /\ unreported' = IF Len(full_lengths) = 1 THEN unreported \cup SectionsOf(buffer_full)
                                              ELSE unreported
    /\ status_partial' = IF packet.kind = "bad_pointer" THEN "EMPTY" ELSE status_partial
    /\ UNCHANGED <<data_partial, expected_len_partial, cc, packet_avail, packet_cc, todo>>

Receive(packet) ==
    /\ IF packet.kind = "payload" THEN GetPayload(packet) ELSE GetRefused(packet)
    /\ waited' = SectionsOf(buffer_full)
    /\ UNCHANGED <<delivered, skipped, dropped, left_behind>>

-----------------------------------------------------------------------------
(* The packets that come *)

(* The end of a section only. *)
Continuation ==
    { [packet |-> Packet(FALSE, 0, Padded(r, PayloadSize)), new |-> <<>>,
       left |-> Remaining(r, PayloadSize)] : r \in {rest} \ {<<>>} }

(* The end of a section, if any, and the beginning of others, all of them  *)
(* whole but perhaps the last one.  The pointer field takes one byte.      *)
Beginnings ==
    LET Bytes(new) == rest \o FlattenSeq([j \in DOMAIN new |-> Section(Len(lens) + j, new[j])])
        Fits(new) == new # <<>> /\ Len(Bytes(new)) - Last(new) < PayloadSize - 1
    IN { [packet |-> Packet(TRUE, Len(rest), Padded(Bytes(new), PayloadSize - 1)), new |-> new,
          left |-> Remaining(Bytes(new), PayloadSize - 1)] :
         new \in {n \in BoundedSeq(SectionLens, MaxSections - Len(lens)) : Fits(n)} }

Transmit(t) ==
    /\ lens' = lens \o t.new
    /\ rest' = t.left
    /\ counter' = (counter + 1) % CounterSize
    /\ last' = t.packet

Fault == faults < MaxFaults /\ faults' = faults + 1
Spoil(packet) == spoiled' = spoiled \cup SectionsOf(packet.payload)

(* What may become of a packet: it comes, *)
Arrive(t) ==
    /\ pc = "idle" /\ Transmit(t) /\ Receive(t.packet)
    /\ UNCHANGED <<faults, spoiled, repeated>>

(* it does not, or is not passed on, *)
Miss(t) ==
    /\ pc = "idle" /\ Transmit(t) /\ Fault /\ Spoil(t.packet)
    /\ UNCHANGED <<full, partial, call, delivered, repeated, losses, waited, left_behind>>

(* its payload is damaged, the pointer field too, *)
Damage(t) ==
    /\ pc = "idle" /\ Transmit(t) /\ Fault /\ Spoil(t.packet)
    /\ \E pointer \in IF t.packet.pusi THEN 0 .. PayloadSize - 1 ELSE {0} :
          Receive([t.packet EXCEPT !.pointer = pointer,
                                   !.payload = [i \in DOMAIN t.packet.payload |-> Noise]])
    /\ UNCHANGED repeated

(* or it is refused for what its header or its first bytes say. *)
Refuse(t) ==
    /\ pc = "idle" /\ Transmit(t) /\ Fault /\ Spoil(t.packet)
    /\ \E kind \in {"ignored"} \cup (IF t.packet.pusi THEN {"bad_pointer"} ELSE {}) :
          Receive(Refused(kind))
    /\ UNCHANGED repeated

(* The last packet comes once more. *)
Repeat ==
    /\ pc = "idle" /\ last # NoPacket /\ Fault /\ Receive(last)
    /\ repeated' = TRUE
    /\ UNCHANGED <<lens, rest, counter, last, spoiled>>

(* A packet comes that has no payload. *)
NoPayload ==
    /\ pc = "idle" /\ Receive(Refused("ignored"))
    /\ UNCHANGED <<sender, spoiled, repeated>>

-----------------------------------------------------------------------------
(* add_ts_packet_data *)

(* One call is done.  After the last one get_ts_packet returns what it     *)
(* found before the packet was added.                                      *)
Finish(more) ==
    /\ todo' = more
    /\ pc' = IF more # <<>> THEN "add" ELSE IF packet_avail THEN "got" ELSE "idle"
    /\ UNCHANGED <<packet_avail, packet_cc>>

\* Slip of MoveToFull: the section is copied to the beginning of the buffer
MoveToFront(section) ==
    /\ buffer_full' = section \o buffer_full
    /\ full_lengths' = <<Len(section)>> \o full_lengths
    /\ status_partial' = "EMPTY" /\ data_partial' = <<>>
    /\ UNCHANGED <<data_full, skipped, dropped>>

(* ts_move_part_to_full *)
MoveToFull(section) ==
    \/ /\ Len(full_lengths) >= MAX_FULL_PACKETS
       /\ status_partial' = "VALID" /\ data_partial' = section
       /\ skipped' = skipped \cup SectionsOf(section)
       /\ UNCHANGED <<full, dropped>>
    \/ /\ Len(full_lengths) < MAX_FULL_PACKETS
       /\ Len(buffer_full) + Len(section) >= FULL_BUFFER_SIZE
       /\ buffer_full' = <<>> /\ full_lengths' = <<>>
       /\ status_partial' = "EMPTY" /\ data_partial' = <<>>
       /\ dropped' = dropped \cup SectionsOf(buffer_full \o section)
       /\ UNCHANGED <<data_full, skipped>>
    \/ /\ Len(full_lengths) < MAX_FULL_PACKETS
       /\ Len(buffer_full) + Len(section) < FULL_BUFFER_SIZE
       /\ buffer_full' = buffer_full \o section
       /\ full_lengths' = Append(full_lengths, Len(section))
       /\ status_partial' = "EMPTY" /\ data_partial' = <<>>
       /\ UNCHANGED <<data_full, skipped, dropped>>

(* The bytes are in the partial section: if that is all of it, its CRC is  *)
(* checked and it becomes a full one.                                      *)
Assemble(bytes, expected) ==
    IF Len(bytes) < expected
    THEN /\ status_partial' = "STARTED" /\ data_partial' = bytes
         /\ UNCHANGED <<full, skipped, dropped>>
    ELSE IF IsSection(SubSeq(bytes, 1, expected)) THEN MoveToFull(SubSeq(bytes, 1, expected))
    ELSE /\ status_partial' = "EMPTY" /\ data_partial' = <<>>
         /\ UNCHANGED <<full, skipped, dropped>>

(* The lengths that HeaderLen bytes may say *)
LengthsIn(bytes) ==
    LET k == bytes[1][1]
        header == SubSeq(bytes, 1, HeaderLen)
    IN IF k # 0 /\ header = Section(k, HeaderLen) THEN {lens[k]} ELSE HeaderLen .. MaxLength

(* What follows a section in its packet is stuffing. *)
AddStuffing ==
    /\ pc = "add" /\ Head(todo).start_flag = "START_SECTION"
    /\ Head(Head(todo).bytes) \in {Stuffing, Noise}
    /\ Finish(Tail(todo))
    /\ UNCHANGED <<full, partial, skipped, dropped>>

(* Another section begins, whatever was there; less than HeaderLen bytes   *)
(* of it are in the packet, *)
AddShortStart ==
    LET bytes == Head(todo).bytes
    IN /\ pc = "add" /\ Head(todo).start_flag # "NO_START"
       /\ ~ (Head(todo).start_flag = "START_SECTION" /\ Head(bytes) = Stuffing)
       /\ Len(bytes) < HeaderLen
       /\ status_partial' = "PARTIAL_HEADER" /\ data_partial' = bytes
       /\ expected_len_partial' = 0 /\ cc' = packet_cc
       /\ Finish(Tail(todo))
       /\ UNCHANGED <<full, skipped, dropped>>

(* or its length is known; what is left after it is looked at in turn.     *)
AddStart ==
    LET bytes == Head(todo).bytes
    IN /\ pc = "add" /\ Head(todo).start_flag # "NO_START"
       /\ ~ (Head(todo).start_flag = "START_SECTION" /\ Head(bytes) = Stuffing)
       /\ Len(bytes) >= HeaderLen
       /\ cc' = packet_cc
       /\ \E expected \in LengthsIn(bytes) :
             LET left == Remaining(bytes, expected)
             IN /\ expected_len_partial' = expected
                /\ Assemble(First(bytes, expected), expected)
                /\ Finish(IF left # <<>> THEN <<Piece("START_SECTION", left)>> \o Tail(todo)
                                         ELSE Tail(todo))

Unfinished == status_partial \in {"STARTED", "PARTIAL_HEADER"}

(* The continuation of nothing, or not of what is there: the section is    *)
(* given up, as when two packets are not enough for its length field.      *)
AddStray ==
    /\ pc = "add" /\ Head(todo).start_flag = "NO_START"
    /\ \/ ~ Unfinished
       \/ packet_cc \notin {cc, (cc + 1) % CounterSize}
       \/ /\ packet_cc # cc /\ status_partial = "PARTIAL_HEADER"
          /\ Len(data_partial) + Len(Head(todo).bytes) < HeaderLen
    /\ status_partial' = "EMPTY"
    /\ Finish(Tail(todo))
    /\ UNCHANGED <<full, data_partial, expected_len_partial, cc, skipped, dropped>>

\* Slip of AddDuplicate: the section is given up
AddDuplicateStray ==
    /\ pc = "add" /\ Head(todo).start_flag = "NO_START" /\ Unfinished /\ packet_cc = cc
    /\ status_partial' = "EMPTY"
    /\ Finish(Tail(todo))
    /\ UNCHANGED <<full, data_partial, expected_len_partial, cc, skipped, dropped>>

(* The packet has come already. *)
AddDuplicate ==
    /\ pc = "add" /\ Head(todo).start_flag = "NO_START" /\ Unfinished /\ packet_cc = cc
    /\ Finish(Tail(todo))
    /\ UNCHANGED <<full, partial, skipped, dropped>>

\* Slip of Extended: what does not fit is copied too
ExtendedTooLong(bytes, expected) == First(data_partial \o bytes, expected)

\* The partial section with these bytes: no more than it needs, nor than
\* its buffer holds
Extended(bytes, expected) ==
    First(data_partial \o bytes, IF expected > MAX_TS_SIZE THEN MAX_TS_SIZE ELSE expected)

(* The section goes on; what follows its end in the packet is not looked   *)
(* at.                                                                     *)
AddContinue ==
    LET bytes == Head(todo).bytes
        lengths == IF status_partial = "STARTED" THEN {expected_len_partial}
                   ELSE LengthsIn(data_partial \o bytes)
    IN /\ pc = "add" /\ Head(todo).start_flag = "NO_START" /\ Unfinished
       /\ packet_cc # cc /\ packet_cc = (cc + 1) % CounterSize
       /\ status_partial = "STARTED" \/ Len(data_partial) + Len(bytes) >= HeaderLen
       /\ cc' = packet_cc
       /\ \E expected \in lengths :
             /\ expected_len_partial' = expected
             /\ Assemble(Extended(bytes, expected), expected)
       /\ Finish(Tail(todo))

Add ==
    /\ AddStuffing \/ AddShortStart \/ AddStart \/ AddStray \/ AddDuplicate \/ AddContinue
    /\ UNCHANGED <<sender, delivered, spoiled, repeated, unreported, waited, left_behind>>

-----------------------------------------------------------------------------
(* The caller: while (need_update && get_ts_packet(packet)) packet = NULL  *)

Take == delivered' = Append(delivered, data_full[1][1])

(* It reads the section and calls again, without a packet. *)
CallAgain ==
    /\ pc = "got" /\ Take
    /\ TakeOut
    /\ pc' = IF full_lengths # <<>> THEN "got" ELSE "idle"
    /\ left_behind' = FALSE
    /\ UNCHANGED <<sender, partial, packet_avail, packet_cc, todo, spoiled, repeated, losses, waited>>

(* It has what it needs. *)
StopCalling ==
    /\ pc = "got" /\ Take
    /\ pc' = "idle"
    /\ left_behind' = (full_lengths # <<>>)
    /\ UNCHANGED <<sender, full, partial, packet_avail, packet_cc, todo, spoiled, repeated, losses, waited>>

Next ==
    \/ \E t \in Continuation \cup Beginnings : Arrive(t) \/ Miss(t) \/ Damage(t) \/ Refuse(t)
    \/ Repeat
    \/ NoPayload
    \/ Add
    \/ CallAgain
    \/ StopCalling

Spec == Init /\ [][Next]_vars

-----------------------------------------------------------------------------
(* Properties *)

\* Where sections of these lengths end, one after the other
Ends(lengths) ==
    LET end[i \in 0 .. Len(lengths)] == IF i = 0 THEN 0 ELSE end[i - 1] + lengths[i] IN end
FullSection(i) ==
    SubSeq(buffer_full, Ends(full_lengths)[i - 1] + 1, Ends(full_lengths)[i])
NumFull == Len(full_lengths)
Waiting == SectionsOf(buffer_full)

(* Nothing is ever written past the end of data_partial, buffer_full or    *)
(* full_lengths, whatever the length fields say (ts.c:341, :397, :402),    *)
(* and full_buffer_len is the sum of the lengths.                          *)
TypeOK ==
    /\ data_partial \in Seq(Nat \X Nat) /\ Len(data_partial) =< MAX_TS_SIZE
    /\ full_lengths \in Seq(HeaderLen .. MAX_TS_SIZE) /\ NumFull =< MAX_FULL_PACKETS
    /\ Len(buffer_full) = Ends(full_lengths)[NumFull] /\ Len(buffer_full) < FULL_BUFFER_SIZE
    /\ expected_len_partial \in {0} \cup HeaderLen .. MaxLength
    /\ status_partial \in {"EMPTY", "PARTIAL_HEADER", "STARTED", "VALID"}
    /\ cc \in 0 .. CounterSize - 1 /\ packet_cc \in 0 .. CounterSize - 1
    /\ pc \in {"idle", "add", "got"} /\ (pc = "add" <=> todo # <<>>)
    /\ packet_avail \in BOOLEAN /\ Len(todo) =< 2 /\ faults =< MaxFaults

(* What the caller gets, and what waits for it, is always one whole        *)
(* section, though sections are cut out of a buffer that is shifted at     *)
(* each call (ts.c:77-93) and put together from packets that may be lost,  *)
(* repeated or damaged.                                                    *)
WholeSections ==
    /\ \A i \in 1 .. NumFull : IsSection(FullSection(i))
    /\ pc = "got" => IsSection(data_full)

(* The caller gets the sections in the order they were sent, none of them  *)
(* twice, if no packet comes twice (ts.c:281 ignores repeated packets only *)
(* while a section goes on: one that holds whole sections gives them       *)
(* again).                                                                 *)
InOrder ==
    LET coming == delivered \o [i \in 1 .. NumFull |-> FullSection(i)[1][1]]
    IN repeated \/ \A i \in 2 .. Len(coming) : coming[i - 1] < coming[i]

(* No section is lost but for the reasons the code knows: a section all    *)
(* the packets of which came as they were sent is given to the caller, or  *)
(* waits for it, unless there were too many of them (ts.c:397) or a call   *)
(* that took it out returned 0 (ts.c:134, :145, :152, :179).  Losses,      *)
(* repetitions and damages of the packets of other sections, before it,    *)
(* after it or in the same section's packets, cost it nothing.             *)
AllAccountedFor ==
    pc = "idle" =>
       \A k \in 1 .. Len(lens) \ spoiled :
          \/ k = Len(lens) /\ rest # <<>>
          \/ k \in Range(delivered) \cup Waiting \cup unreported \cup skipped

(* A full section waits for one packet and no longer (ts.c:417: "This      *)
(* delays of one TS packet the moment this one will be available to the    *)
(* client"), with a caller that calls until there are none left.           *)
Prompt == pc = "idle" /\ ~ left_behind => Waiting \cap waited = {}

(* The case ts_move_part_to_full calls an unrecoverable error (ts.c:405),  *)
(* the whole buffer dropped for want of room, does not happen, even with a *)
(* caller that leaves sections in the buffer: each packet takes one out,   *)
(* and a long section takes many packets.                                  *)
NeverDropped == dropped = {}
=============================================================================
