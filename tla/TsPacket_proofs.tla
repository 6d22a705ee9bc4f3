-------------------------- MODULE TsPacket_proofs --------------------------
(***************************************************************************)
(* What get_ts_packet guarantees for every size of the packets, of the     *)
(* sections and of the buffers, whatever packets are lost, repeated,       *)
(* damaged or refused.  First the bytes, the sections and the packets: what *)
(* the parts of a sequence are, what a run of sections and the end of one  *)
(* look like, what is in the buffer of full sections when one is put in or *)
(* taken out, and what the packets of the sender are made of.              *)
(***************************************************************************)
EXTENDS TsPacket, SequenceTheorems, WellFoundedInduction, TLAPS

-----------------------------------------------------------------------------
(* Bytes.  `ls' are the lengths of the sections of the stream and `n' the  *)
(* bytes of the last one that are left to send.                            *)

Byte == Nat \X Nat
SentOf(ls, n, k) == IF k = Len(ls) THEN ls[k] - n ELSE ls[k]
SentBytes(ls, n) ==
    {b \in Byte : b[1] = 0 \/ (b[1] \in 1 .. Len(ls) /\ b[2] \in 1 .. SentOf(ls, n, b[1]))}

IsWhole(ls, s) ==
    /\ s # <<>> /\ s[1][1] \in 1 .. Len(ls)
    /\ s = Section(s[1][1], ls[s[1][1]])

AllNull(s) == \A i \in 1 .. Len(s) : s[i][1] = 0

\* The end of a section, then stuffing
IsEnding(ls, s) ==
    \/ AllNull(s)
    \/ /\ s # <<>> /\ s[1][1] # 0 /\ s[1][2] > 1
       /\ \A i \in 1 .. Len(s) :
             s[i] = IF s[1][2] + i - 1 =< ls[s[1][1]] THEN <<s[1][1], s[1][2] + i - 1>>
                    ELSE Stuffing

Follows(ls, b, c) ==
    IF b[1] = 0 THEN c[1] = 0
    ELSE IF b[2] < ls[b[1]] THEN c = <<b[1], b[2] + 1>>
    ELSE c[1] = 0 \/ c = <<b[1] + 1, 1>>

\* Sections one after the other, then stuffing
IsRun(ls, s) ==
    \/ AllNull(s)
    \/ /\ s # <<>> /\ s[1][1] # 0 /\ s[1][2] = 1
       /\ \A i \in 1 .. Len(s) - 1 : Follows(ls, s[i], s[i + 1])

\* The last one of them is cut where the rest of it begins.
IsCutAt(ls, n, s) ==
    LET b == s[Len(s)]
    IN s # <<>> /\ b[1] # 0 /\ b[2] < ls[b[1]] => b[1] = Len(ls) /\ b[2] = ls[Len(ls)] - n

-----------------------------------------------------------------------------
(* What is left to send, and the calls that are left to do for a packet    *)

IsRest(ls, r) ==
    \/ r = <<>>
    \/ /\ Len(ls) > 0 /\ Len(r) \in 1 .. ls[Len(ls)] - 1
       /\ r = [i \in 1 .. Len(r) |-> <<Len(ls), ls[Len(ls)] - Len(r) + i>>]

Flags == {"NO_START", "START_TS", "START_SECTION"}

IsPiece(ls, n, p) ==
    /\ p = Piece(p.start_flag, p.bytes) /\ p.start_flag \in Flags
    /\ p.bytes \in Seq(SentBytes(ls, n)) /\ Len(p.bytes) =< PayloadSize
    /\ p.start_flag = "NO_START" => IsEnding(ls, p.bytes)
    /\ p.start_flag # "NO_START" => IsRun(ls, p.bytes) /\ IsCutAt(ls, n, p.bytes)
    /\ p.start_flag = "START_SECTION" => p.bytes # <<>>

\* The beginning follows the end
IsPair(s, t) ==
    s # <<>> /\ t # <<>> /\ s[1][1] # 0 /\ t[1][1] # 0 => s[1][1] < t[1][1]

IsTodo(ls, n, calls) ==
    \/ calls = <<>>
    \/ calls = <<calls[1]>> /\ IsPiece(ls, n, calls[1])
    \/ /\ calls = <<calls[1], calls[2]>> /\ IsPiece(ls, n, calls[1]) /\ IsPiece(ls, n, calls[2])
       /\ calls[1].start_flag = "NO_START" /\ calls[2].start_flag = "START_TS"
       /\ Len(calls[1].bytes) + Len(calls[2].bytes) =< PayloadSize
       /\ IsPair(calls[1].bytes, calls[2].bytes)

\* The bytes left to go through
ToDo(calls) ==
    IF calls = <<>> THEN 0
    ELSE IF Len(calls) = 1 THEN Len(calls[1].bytes) ELSE Len(calls[1].bytes) + Len(calls[2].bytes)

\* The packet sent last
IsLast(ls, n, count, packet) ==
    /\ packet = [kind |-> "payload", pusi |-> packet.pusi, pointer |-> packet.pointer,
                 payload |-> packet.payload, cc |-> packet.cc]
    /\ packet.pusi \in BOOLEAN /\ packet.pointer \in 0 .. Len(packet.payload)
    /\ packet.payload \in Seq(SentBytes(ls, n)) /\ Len(packet.payload) =< PayloadSize
    /\ packet.cc \in 0 .. CounterSize - 1 /\ count = (packet.cc + 1) % CounterSize
    /\ Pieces(packet) # <<>> /\ IsTodo(ls, n, Pieces(packet))
    /\ packet.pusi =>
          \E i \in packet.pointer + 1 .. Len(packet.payload) : packet.payload[i] = <<Len(ls), 1>>

-----------------------------------------------------------------------------
(* The full sections *)

NumsOf(bytes, lengths) ==
    [i \in 1 .. Len(lengths) |-> SubSeq(bytes, Ends(lengths)[i - 1] + 1, Ends(lengths)[i])[1][1]]

\* e tells where the full sections end, k which ones they are.
IsBuffer(ls, n, bytes, lengths, e, k) ==
    /\ bytes \in Seq(SentBytes(ls, n))
    /\ lengths \in Seq(HeaderLen .. MAX_TS_SIZE)
    /\ e \in [0 .. Len(lengths) -> Nat] /\ k \in [1 .. Len(lengths) -> 1 .. Len(ls)]
    /\ e[0] = 0 /\ e[Len(lengths)] = Len(bytes)
    /\ \A i \in 1 .. Len(lengths) :
          /\ e[i] = e[i - 1] + lengths[i] /\ lengths[i] = ls[k[i]]
          /\ \A j \in 1 .. lengths[i] : bytes[e[i - 1] + j] = <<k[i], j>>

-----------------------------------------------------------------------------
(* Induction on a set of naturals, from the least one that is not in it.   *)

LEMMA Induction ==
  ASSUME NEW S, 0 \in S, \A n \in Nat : n \in S => n + 1 \in S
  PROVE  Nat \subseteq S
<1> DEFINE T == Nat \ S
           R == OpToRel(<, Nat)
<1> SUFFICES ASSUME T # {} PROVE FALSE OBVIOUS
<1>1. IsWellFoundedOn(R, Nat) BY NatLessThanWellFounded
<1>2. T \subseteq Nat OBVIOUS
<1>3. \E x \in T : \A y \in T : <<y, x>> \notin R
  <2> HIDE DEF T, R
  <2> QED BY <1>1, <1>2, WFMin
<1>4. PICK x \in T : \A y \in T : <<y, x>> \notin R BY <1>3
<1>5. x \in Nat /\ x # 0 OBVIOUS
<1>6. x - 1 \in Nat /\ x - 1 < x /\ (x - 1) + 1 = x BY <1>5
<1>7. <<x - 1, x>> \in R BY <1>5, <1>6 DEF OpToRel
<1>8. x - 1 \in S BY <1>4, <1>6, <1>7
<1> QED BY <1>6, <1>8

-----------------------------------------------------------------------------
(* Sequences and their parts *)

\* r is what is left of s after n elements.
IsTail(r, s, n) ==
    /\ Len(r) = IF n =< Len(s) THEN Len(s) - n ELSE 0
    /\ \A i \in 1 .. Len(s) - n : r[i] = s[n + i]

LEMMA TailIs ==
  ASSUME NEW S, NEW s \in Seq(S), NEW n \in Nat
  PROVE  Remaining(s, n) \in Seq(S) /\ IsTail(Remaining(s, n), s, n)
<1>1. Len(s) \in Nat /\ \A i \in 1 .. Len(s) : s[i] \in S BY LenProperties, ElementOfSeq
<1>2. \A i \in n + 1 .. Len(s) : s[i] \in S BY <1>1
<1>3. /\ Remaining(s, n) \in Seq(S)
      /\ Len(Remaining(s, n)) = IF n + 1 <= Len(s) THEN Len(s) - (n + 1) + 1 ELSE 0
      /\ \A i \in 1 .. Len(s) - (n + 1) + 1 : Remaining(s, n)[i] = s[(n + 1) + i - 1]
  <2>1. n + 1 \in Int /\ Len(s) \in Int BY <1>1
  <2> QED BY <1>2, <2>1, SubSeqProperties DEF Remaining
<1> DEFINE r == Remaining(s, n)
<1> HIDE DEF r
<1>4. r \in Seq(S) /\ Len(r) = (IF n =< Len(s) THEN Len(s) - n ELSE 0)
  BY <1>1, <1>3 DEF r
<1>5. \A i \in 1 .. Len(s) - n : r[i] = s[n + i]
  <2> TAKE i \in 1 .. Len(s) - n
  <2>1. i \in 1 .. Len(s) - (n + 1) + 1 /\ (n + 1) + i - 1 = n + i BY <1>1
  <2> QED BY <1>3, <2>1 DEF r
<1>6. r \in Seq(S) /\ IsTail(r, s, n) BY <1>4, <1>5 DEF IsTail
<1> QED BY <1>6 DEF r

LEMMA RemainingIs ==
  ASSUME NEW S, NEW s \in Seq(S), NEW n \in Nat
  PROVE  /\ Remaining(s, n) \in Seq(S)
         /\ Len(Remaining(s, n)) = IF n =< Len(s) THEN Len(s) - n ELSE 0
         /\ \A i \in 1 .. Len(s) - n : Remaining(s, n)[i] = s[n + i]
         /\ Remaining(s, n) = <<>> <=> Len(s) =< n
<1> DEFINE r == Remaining(s, n)
<1>1. r \in Seq(S) /\ IsTail(r, s, n) BY TailIs
<1> HIDE DEF r
<1>2. Len(s) \in Nat BY LenProperties
<1>3. Len(r) = (IF n =< Len(s) THEN Len(s) - n ELSE 0) BY <1>1 DEF IsTail
<1>4. \A i \in 1 .. Len(s) - n : r[i] = s[n + i] BY <1>1 DEF IsTail
<1>5. r = <<>> <=> Len(r) = 0 BY <1>1, EmptySeq
<1> QED BY <1>1, <1>2, <1>3, <1>4, <1>5 DEF r

LEMMA PrefixIs ==
  ASSUME NEW S, NEW s \in Seq(S), NEW n \in 0 .. Len(s)
  PROVE  /\ SubSeq(s, 1, n) \in Seq(S) /\ Len(SubSeq(s, 1, n)) = n
         /\ \A i \in 1 .. n : SubSeq(s, 1, n)[i] = s[i]
         /\ SubSeq(s, 1, n) = <<>> <=> n = 0
<1>1. Len(s) \in Nat /\ \A i \in 1 .. n : s[i] \in S BY LenProperties, ElementOfSeq
<1> DEFINE r == SubSeq(s, 1, n)
<1>2. /\ r \in Seq(S) /\ Len(r) = (IF 1 <= n THEN n - 1 + 1 ELSE 0)
      /\ \A i \in 1 .. n - 1 + 1 : r[i] = s[1 + i - 1]
  <2>1. 1 \in Int /\ n \in Int BY <1>1
  <2> QED BY <1>1, <2>1, SubSeqProperties
<1> HIDE DEF r
<1>3. Len(r) = n /\ \A i \in 1 .. n : r[i] = s[i] BY <1>1, <1>2
<1>4. r = <<>> <=> Len(r) = 0 BY <1>2, EmptySeq
<1> QED BY <1>2, <1>3, <1>4 DEF r

LEMMA FirstIs ==
  ASSUME NEW S, NEW s \in Seq(S), NEW n \in Nat
  PROVE  /\ First(s, n) \in Seq(S)
         /\ Len(First(s, n)) = IF n < Len(s) THEN n ELSE Len(s)
         /\ \A i \in 1 .. Len(First(s, n)) : First(s, n)[i] = s[i]
         /\ Len(s) =< n => First(s, n) = s
<1>1. Len(s) \in Nat BY LenProperties
<1> DEFINE m == IF n < Len(s) THEN n ELSE Len(s)
<1>2. m \in 0 .. Len(s) BY <1>1
<1>3. First(s, n) = SubSeq(s, 1, m) BY DEF First
<1>4. Len(s) =< n => m = Len(s) BY <1>1
<1> HIDE DEF m
<1>5. SubSeq(s, 1, Len(s)) = s BY SubSeqFull
<1>6. /\ SubSeq(s, 1, m) \in Seq(S) /\ Len(SubSeq(s, 1, m)) = m
      /\ \A i \in 1 .. m : SubSeq(s, 1, m)[i] = s[i]
  BY <1>2, PrefixIs
<1> QED BY <1>3, <1>4, <1>5, <1>6 DEF m

LEMMA PaddedIs ==
  ASSUME NEW S, NEW s \in Seq(S), NEW n \in Nat, Stuffing \in S
  PROVE  /\ Padded(s, n) \in Seq(S) /\ Len(Padded(s, n)) = n
         /\ \A i \in 1 .. n : Padded(s, n)[i] = IF i =< Len(s) THEN s[i] ELSE Stuffing
<1>1. Len(s) \in Nat /\ \A i \in 1 .. Len(s) : s[i] \in S BY LenProperties, ElementOfSeq
<1>2. \A i \in 1 .. n : (IF i =< Len(s) THEN s[i] ELSE Stuffing) \in S BY <1>1
<1>3. Padded(s, n) \in [1 .. n -> S] BY <1>2 DEF Padded
<1>4. Padded(s, n) \in Seq(S) BY <1>3, SeqDef
<1>5. Len(Padded(s, n)) = n BY <1>3, <1>4, LenProperties
<1> QED BY <1>4, <1>5 DEF Padded

LEMMA MapIs ==
  ASSUME NEW S, NEW n \in Nat, NEW f \in [1 .. n -> S]
  PROVE  f \in Seq(S) /\ Len(f) = n
<1>1. f \in Seq(S) BY SeqDef
<1> QED BY <1>1, LenProperties

LEMMA ConcatIs ==
  ASSUME NEW S, NEW s \in Seq(S), NEW t \in Seq(S)
  PROVE  /\ s \o t \in Seq(S) /\ Len(s \o t) = Len(s) + Len(t)
         /\ Len(s) \in Nat /\ Len(t) \in Nat
         /\ \A i \in 1 .. Len(s) : (s \o t)[i] = s[i]
         /\ \A i \in 1 .. Len(t) : (s \o t)[Len(s) + i] = t[i]
<1> DEFINE w == s \o t
           m == Len(s)
           n == Len(t)
<1>1. m \in Nat /\ n \in Nat BY LenProperties
<1>2. w \in Seq(S) /\ Len(w) = m + n BY ConcatProperties
<1>3. \A i \in 1 .. m + n : w[i] = IF i =< m THEN s[i] ELSE t[i - m]
  BY ConcatProperties
<1> HIDE DEF w, m, n
<1>4. ASSUME NEW i \in 1 .. m PROVE w[i] = s[i] BY <1>1, <1>3
<1>5. ASSUME NEW i \in 1 .. n PROVE w[m + i] = t[i]
  <2>1. m + i \in 1 .. m + n /\ ~ (m + i =< m) /\ (m + i) - m = i BY <1>1
  <2> QED BY <1>3, <2>1
<1> QED BY <1>1, <1>2, <1>4, <1>5 DEF w, m, n

LEMMA SectionIs ==
  ASSUME NEW k \in Nat, NEW n \in Nat
  PROVE  /\ Section(k, n) \in Seq(Byte) /\ Len(Section(k, n)) = n
         /\ \A i \in 1 .. n : Section(k, n)[i] = <<k, i>>
         /\ Section(k, n) = <<>> <=> n = 0
<1>1. Section(k, n) \in [1 .. n -> Byte] BY DEF Section, Byte
<1>2. Section(k, n) \in Seq(Byte) /\ Len(Section(k, n)) = n BY <1>1, MapIs
<1>3. Section(k, n) = <<>> <=> Len(Section(k, n)) = 0 BY <1>2, EmptySeq
<1> QED BY <1>2, <1>3 DEF Section

-----------------------------------------------------------------------------
(* Bytes that were sent, and whole sections *)

LEMMA Sizes ==
  /\ HeaderLen \in Nat /\ HeaderLen >= 2 /\ PayloadSize \in Nat /\ PayloadSize > HeaderLen
  /\ MAX_TS_SIZE \in Nat /\ MAX_TS_SIZE > PayloadSize /\ MaxLength = MAX_TS_SIZE + 2
  /\ MAX_FULL_PACKETS \in Nat /\ MAX_FULL_PACKETS >= 1
  /\ CounterSize \in Nat /\ CounterSize >= 2 /\ MaxFaults \in Nat
<1>1. MAX_FULL_PACKETS * PayloadSize >= PayloadSize
  <2> DEFINE q == MAX_FULL_PACKETS - 1
  <2>1. q \in Nat /\ MAX_FULL_PACKETS = q + 1 /\ PayloadSize \in Nat BY SizesAssumption
  <2> HIDE DEF q
  <2>2. (q + 1) * PayloadSize = q * PayloadSize + PayloadSize /\ q * PayloadSize \in Nat BY <2>1
  <2> QED BY <2>1, <2>2
<1>2. MAX_FULL_PACKETS * PayloadSize \in Nat BY SizesAssumption
<1> QED BY <1>1, <1>2, SizesAssumption, StreamAssumption DEF MaxLength

LEMMA LensIs ==
  ASSUME NEW ls \in Seq(SectionLens)
  PROVE  /\ Len(ls) \in Nat
         /\ \A k \in 1 .. Len(ls) : /\ ls[k] \in Nat /\ ls[k] >= 2
                                    /\ HeaderLen =< ls[k] /\ ls[k] =< MAX_TS_SIZE
<1>1. Len(ls) \in Nat /\ \A k \in 1 .. Len(ls) : ls[k] \in SectionLens
  BY LenProperties, ElementOfSeq
<1>2. \A k \in 1 .. Len(ls) : ls[k] \in HeaderLen .. MAX_TS_SIZE BY <1>1, StreamAssumption
<1> QED BY <1>1, <1>2, Sizes

LEMMA SentIs ==
  ASSUME NEW ls \in Seq(SectionLens), NEW n \in Nat, NEW s \in Seq(SentBytes(ls, n))
  PROVE  /\ Len(s) \in Nat /\ s \in Seq(Byte)
         /\ \A i \in 1 .. Len(s) :
               /\ s[i] = <<s[i][1], s[i][2]>> /\ s[i][1] \in Nat /\ s[i][2] \in Nat
               /\ s[i][1] # 0 => /\ s[i][1] \in 1 .. Len(ls)
                                 /\ s[i][2] >= 1 /\ s[i][2] =< ls[s[i][1]]
                                 /\ s[i][1] = Len(ls) => s[i][2] =< ls[Len(ls)] - n
<1>1. Len(s) \in Nat /\ \A i \in 1 .. Len(s) : s[i] \in SentBytes(ls, n)
  BY LenProperties, ElementOfSeq
<1>2. SentBytes(ls, n) \subseteq Byte BY DEF SentBytes
<1>3. s \in Seq(Byte) BY <1>2, SeqMonotonic
<1>4. ASSUME NEW i \in 1 .. Len(s)
      PROVE  /\ s[i] = <<s[i][1], s[i][2]>> /\ s[i][1] \in Nat /\ s[i][2] \in Nat
             /\ s[i][1] # 0 => /\ s[i][1] \in 1 .. Len(ls)
                               /\ s[i][2] >= 1 /\ s[i][2] =< ls[s[i][1]]
                               /\ s[i][1] = Len(ls) => s[i][2] =< ls[Len(ls)] - n
  <2>1. s[i] \in SentBytes(ls, n) BY <1>1
  <2>2. s[i] \in Nat \X Nat BY <1>2, <2>1 DEF Byte
  <2>3. s[i] = <<s[i][1], s[i][2]>> /\ s[i][1] \in Nat /\ s[i][2] \in Nat BY <2>2
  <2>4. ASSUME s[i][1] # 0
        PROVE  s[i][1] \in 1 .. Len(ls) /\ s[i][2] \in 1 .. SentOf(ls, n, s[i][1])
    BY <2>1, <2>4 DEF SentBytes
  <2>5. ASSUME s[i][1] # 0
        PROVE  s[i][2] =< ls[s[i][1]] /\ (s[i][1] = Len(ls) => s[i][2] =< ls[Len(ls)] - n)
    <3>1. ls[s[i][1]] \in Nat BY <2>4, <2>5, LensIs
    <3>2. CASE s[i][1] = Len(ls) BY <2>3, <2>4, <2>5, <3>1, <3>2 DEF SentOf
    <3>3. CASE s[i][1] # Len(ls) BY <2>3, <2>4, <2>5, <3>1, <3>3 DEF SentOf
    <3> QED BY <3>2, <3>3
  <2> QED BY <2>3, <2>4, <2>5
<1> QED BY <1>1, <1>3, <1>4

LEMMA ByteIs ==
  ASSUME NEW b \in Byte
  PROVE  b = <<b[1], b[2]>> /\ b[1] \in Nat /\ b[2] \in Nat
BY DEF Byte

\* A byte of the stream that was sent
LEMMA IsSent ==
  ASSUME NEW ls \in Seq(SectionLens), NEW n \in Nat, NEW k \in Nat, NEW i \in Nat,
         k # 0 => /\ k \in 1 .. Len(ls) /\ i >= 1 /\ i =< ls[k]
                  /\ k = Len(ls) => i =< ls[k] - n
  PROVE  <<k, i>> \in SentBytes(ls, n)
<1>1. <<k, i>> \in Byte /\ <<k, i>>[1] = k /\ <<k, i>>[2] = i BY DEF Byte
<1>2. CASE k = 0 BY <1>1, <1>2 DEF SentBytes
<1>3. CASE k # 0
  <2>1. ls[k] \in Nat BY <1>3, LensIs
  <2>2. i \in 1 .. SentOf(ls, n, k) BY <1>3, <2>1 DEF SentOf
  <2> QED BY <1>1, <1>3, <2>2 DEF SentBytes
<1> QED BY <1>2, <1>3

LEMMA NullSent ==
  ASSUME NEW ls, NEW n
  PROVE  Stuffing \in SentBytes(ls, n) /\ Noise \in SentBytes(ls, n)
         /\ Stuffing[1] = 0 /\ Noise[1] = 0
BY DEF SentBytes, Stuffing, Noise, Byte

\* The stream goes on
Extends(ls, n, more, left) ==
    /\ Len(ls) =< Len(more) /\ \A k \in 1 .. Len(ls) : more[k] = ls[k]
    /\ Len(ls) = Len(more) => left =< n

LEMMA SentExtends ==
  ASSUME NEW ls \in Seq(SectionLens), NEW more \in Seq(SectionLens), NEW n \in Nat,
         NEW left \in Nat, Extends(ls, n, more, left)
  PROVE  /\ SentBytes(ls, n) \subseteq SentBytes(more, left)
         /\ \A s \in Seq(SentBytes(ls, n)) : s \in Seq(SentBytes(more, left))
<1>1. ASSUME NEW b \in SentBytes(ls, n) PROVE b \in SentBytes(more, left)
  <2>1. b \in Byte BY DEF SentBytes
  <2>2. CASE b[1] = 0 BY <2>1, <2>2 DEF SentBytes
  <2>3. CASE b[1] # 0
    <3>1. b[1] \in 1 .. Len(ls) /\ b[2] \in 1 .. SentOf(ls, n, b[1]) BY <2>3 DEF SentBytes
    <3>2. Len(ls) \in Nat /\ Len(more) \in Nat /\ Len(ls) =< Len(more) BY LensIs DEF Extends
    <3>3. b[1] \in 1 .. Len(more) BY <3>1, <3>2
    <3>4. ls[b[1]] \in Nat /\ more[b[1]] = ls[b[1]] BY <3>1, LensIs DEF Extends
    <3>5. b[2] \in 1 .. SentOf(more, left, b[1])
      <4>1. CASE b[1] = Len(more)
        <5>1. Len(ls) = Len(more) /\ left =< n BY <3>1, <3>2, <4>1 DEF Extends
        <5> QED BY <3>1, <3>4, <4>1, <5>1 DEF SentOf
      <4>2. CASE b[1] # Len(more) BY <3>1, <3>4, <4>2 DEF SentOf
      <4> QED BY <4>1, <4>2
    <3> QED BY <2>1, <3>3, <3>5 DEF SentBytes
  <2> QED BY <2>2, <2>3
<1>2. \A s \in Seq(SentBytes(ls, n)) : s \in Seq(SentBytes(more, left)) BY <1>1, SeqMonotonic
<1> QED BY <1>1, <1>2

LEMMA WholeIs ==
  ASSUME NEW ls \in Seq(SectionLens), NEW s, IsWhole(ls, s)
  PROVE  /\ s[1][1] \in 1 .. Len(ls) /\ s \in Seq(Byte) /\ Len(s) = ls[s[1][1]]
         /\ Len(s) \in Nat /\ Len(s) >= 2
         /\ \A i \in 1 .. Len(s) : s[i] = <<s[1][1], i>>
         /\ SectionsOf(s) = {s[1][1]}
<1> DEFINE k == s[1][1]
<1>1. k \in 1 .. Len(ls) /\ k \in Nat /\ s = Section(k, ls[k]) BY LensIs DEF IsWhole
<1>2. ls[k] \in Nat /\ ls[k] >= 2 BY <1>1, LensIs
<1> HIDE DEF k
<1>3. s \in Seq(Byte) /\ Len(s) = ls[k] /\ \A i \in 1 .. ls[k] : s[i] = <<k, i>>
  <2> DEFINE m == ls[k]
  <2> HIDE DEF m
  <2>1. m \in Nat /\ s = Section(k, m) BY <1>1, <1>2 DEF m
  <2>2. /\ Section(k, m) \in Seq(Byte) /\ Len(Section(k, m)) = m
        /\ \A i \in 1 .. m : Section(k, m)[i] = <<k, i>>
    BY <1>1, <2>1, SectionIs
  <2>3. s \in Seq(Byte) /\ Len(s) = m /\ \A i \in 1 .. m : s[i] = <<k, i>>
    BY <2>1, <2>2
  <2> QED BY <2>3 DEF m
<1>4. DOMAIN s = 1 .. Len(s) BY <1>3, LenProperties
<1>5. \A i \in DOMAIN s : s[i][1] = k BY <1>3, <1>4
<1>6. SectionsOf(s) = {k}
  <2>1. 1 \in DOMAIN s /\ k # 0 BY <1>1, <1>2, <1>3, <1>4
  <2> QED BY <1>5, <2>1 DEF SectionsOf
<1> QED BY <1>1, <1>2, <1>3, <1>6 DEF k

LEMMA WholeExtends ==
  ASSUME NEW ls \in Seq(SectionLens), NEW more \in Seq(SectionLens), NEW n, NEW left,
         Extends(ls, n, more, left), NEW s, IsWhole(ls, s)
  PROVE  IsWhole(more, s)
<1>1. s[1][1] \in 1 .. Len(ls) /\ s # <<>> /\ s = Section(s[1][1], ls[s[1][1]]) BY DEF IsWhole
<1>2. Len(ls) \in Nat /\ Len(more) \in Nat BY LensIs
<1>3. more[s[1][1]] = ls[s[1][1]] /\ s[1][1] \in 1 .. Len(more) BY <1>1, <1>2 DEF Extends
<1> QED BY <1>1, <1>3 DEF IsWhole

\* A whole section was sent to its last byte.
LEMMA WholeSent ==
  ASSUME NEW ls \in Seq(SectionLens), NEW n \in Nat, n # 0, NEW s, IsWhole(ls, s),
         s \in Seq(SentBytes(ls, n))
  PROVE  s[1][1] # Len(ls)
<1>1. /\ s[1][1] \in 1 .. Len(ls) /\ Len(s) = ls[s[1][1]] /\ Len(s) \in Nat /\ Len(s) >= 2
      /\ \A i \in 1 .. Len(s) : s[i] = <<s[1][1], i>>
  BY WholeIs
<1>2. s[Len(s)] = <<s[1][1], Len(s)>> /\ Len(s) \in 1 .. Len(s) BY <1>1
<1>3. s[Len(s)][1] = s[1][1] /\ s[Len(s)][2] = Len(s) BY <1>2
<1>4. s[1][1] # 0 BY <1>1
<1>5. s[1][1] = Len(ls) => Len(s) =< ls[Len(ls)] - n BY <1>2, <1>3, <1>4, SentIs
<1> QED BY <1>1, <1>5

LEMMA SectionWhole ==
  ASSUME NEW n \in Nat, lens \in Seq(SectionLens), NEW s \in Seq(SentBytes(lens, n))
  PROVE  IsSection(s) <=> IsWhole(lens, s)
<1>1. Len(s) \in Nat /\ (s # <<>> => Len(s) >= 1) BY EmptySeq
<1>2. ASSUME s # <<>>, s[1][1] # 0 PROVE s[1][1] \in 1 .. Len(lens)
  BY <1>1, <1>2, SentIs
<1>3. \A k \in 1 .. Len(lens) : k # 0 BY LensIs
<1> QED BY <1>2, <1>3 DEF IsSection, IsWhole

-----------------------------------------------------------------------------
(* Runs of sections *)

LEMMA NullRemaining ==
  ASSUME NEW S, NEW s \in Seq(S), NEW n \in Nat, AllNull(s)
  PROVE  AllNull(Remaining(s, n))
<1> DEFINE r == Remaining(s, n)
<1>0. Len(s) \in Nat BY LenProperties
<1>1. Len(r) = (IF n =< Len(s) THEN Len(s) - n ELSE 0) BY RemainingIs
<1>3. \A i \in 1 .. Len(s) - n : r[i] = s[n + i] BY RemainingIs
<1> HIDE DEF r
<1>2. \A i \in 1 .. Len(r) : r[i][1] = 0
  <2> TAKE i \in 1 .. Len(r)
  <2>1. i \in 1 .. Len(s) - n /\ n + i \in 1 .. Len(s) BY <1>0, <1>1
  <2> QED BY <1>3, <2>1 DEF AllNull
<1> QED BY <1>2 DEF AllNull, r

\* From its first byte on, a section is there as far as the run goes.
LEMMA RunSection ==
  ASSUME NEW ls \in Seq(SectionLens), NEW n \in Nat, NEW s \in Seq(SentBytes(ls, n)),
         \A i \in 1 .. Len(s) - 1 : Follows(ls, s[i], s[i + 1]),
         NEW k \in 1 .. Len(ls), NEW p \in 1 .. Len(s), s[p] = <<k, 1>>
  PROVE  \A j \in 1 .. ls[k] : p + j - 1 =< Len(s) => s[p + j - 1] = <<k, j>>
<1>1. Len(s) \in Nat /\ Len(ls) \in Nat /\ ls[k] \in Nat /\ k \in Nat /\ k # 0
  BY SentIs, LensIs
<1> DEFINE S == {j \in Nat : j + 1 =< ls[k] /\ p + j =< Len(s) => s[p + j] = <<k, j + 1>>}
<1>2. 0 \in S BY <1>1
<1>3. ASSUME NEW j \in Nat, j \in S PROVE j + 1 \in S
  <2> SUFFICES ASSUME (j + 1) + 1 =< ls[k], p + (j + 1) =< Len(s)
               PROVE  s[p + (j + 1)] = <<k, (j + 1) + 1>>
    OBVIOUS
  <2>1. s[p + j] = <<k, j + 1>> BY <1>1, <1>3
  <2>2. p + j \in 1 .. Len(s) - 1 /\ (p + j) + 1 = p + (j + 1) BY <1>1
  <2>3. Follows(ls, s[p + j], s[p + (j + 1)]) BY <2>2
  <2>4. s[p + j][1] = k /\ s[p + j][2] = j + 1 /\ j + 1 < ls[k] BY <1>1, <2>1
  <2> QED BY <1>1, <2>3, <2>4 DEF Follows
<1>4. Nat \subseteq S
  <2> HIDE DEF S
  <2> QED BY <1>2, <1>3, Induction
<1>5. ASSUME NEW j \in 1 .. ls[k], p + j - 1 =< Len(s) PROVE s[p + j - 1] = <<k, j>>
  <2>1. j - 1 \in Nat /\ (j - 1) + 1 = j /\ p + (j - 1) = p + j - 1 BY <1>1
  <2>2. j - 1 \in S BY <1>4, <2>1
  <2> QED BY <1>1, <1>5, <2>1, <2>2
<1> QED BY <1>5

\* The bytes of a run are in the order of the sections.
LEMMA RunOrdered ==
  ASSUME NEW ls \in Seq(SectionLens), NEW n \in Nat, NEW s \in Seq(SentBytes(ls, n)),
         \A i \in 1 .. Len(s) - 1 : Follows(ls, s[i], s[i + 1]), NEW p \in 1 .. Len(s)
  PROVE  \A j \in p .. Len(s) : s[j][1] # 0 => s[p][1] # 0 /\ s[p][1] =< s[j][1]
<1>1. Len(s) \in Nat /\ \A i \in 1 .. Len(s) : s[i][1] \in Nat /\ s[i][2] \in Nat BY SentIs
<1> DEFINE S == {j \in Nat : p + j =< Len(s) /\ s[p + j][1] # 0 =>
                                s[p][1] # 0 /\ s[p][1] =< s[p + j][1]}
<1>2. 0 \in S
  <2>1. p + 0 = p /\ s[p][1] =< s[p][1] BY <1>1
  <2> QED BY <2>1
<1>3. ASSUME NEW j \in Nat, j \in S PROVE j + 1 \in S
  <2> SUFFICES ASSUME p + (j + 1) =< Len(s), s[p + (j + 1)][1] # 0
               PROVE  s[p][1] # 0 /\ s[p][1] =< s[p + (j + 1)][1]
    OBVIOUS
  <2> DEFINE b == s[p + j]
             c == s[p + (j + 1)]
  <2>1. p + j \in 1 .. Len(s) - 1 /\ (p + j) + 1 = p + (j + 1) BY <1>1
  <2>2. Follows(ls, b, c) BY <2>1
  <2>3. p + j \in 1 .. Len(s) /\ p + (j + 1) \in 1 .. Len(s) BY <1>1, <2>1
  <2>4. b[1] \in Nat /\ c[1] \in Nat /\ s[p][1] \in Nat BY <1>1, <2>3
  <2>5. b[1] # 0 => s[p][1] # 0 /\ s[p][1] =< b[1] BY <1>1, <1>3, <2>3
  <2> HIDE DEF b
  <2>6. c[1] # 0 OBVIOUS
  <2> HIDE DEF c
  <2>7. b[1] # 0 /\ c[1] \in {b[1], b[1] + 1} BY <2>2, <2>6 DEF Follows
  <2>8. s[p][1] # 0 /\ s[p][1] =< c[1] BY <2>4, <2>5, <2>7
  <2> QED BY <2>8 DEF c
<1>4. Nat \subseteq S
  <2> HIDE DEF S
  <2> QED BY <1>2, <1>3, Induction
<1>5. ASSUME NEW j \in p .. Len(s), s[j][1] # 0 PROVE s[p][1] # 0 /\ s[p][1] =< s[j][1]
  <2>1. j - p \in Nat /\ p + (j - p) = j BY <1>1
  <2>2. j - p \in S BY <1>4, <2>1
  <2> QED BY <1>1, <1>5, <2>1, <2>2
<1> QED BY <1>5

\* The first section of a run, and what is left of the run after it
LEMMA RunIs ==
  ASSUME NEW ls \in Seq(SectionLens), NEW n \in Nat, NEW s \in Seq(SentBytes(ls, n)),
         IsRun(ls, s), s # <<>>, s[1][1] # 0
  PROVE  LET k == s[1][1]
             left == Remaining(s, ls[k])
         IN /\ k \in 1 .. Len(ls)
            /\ \A j \in 1 .. Len(s) : j =< ls[k] => s[j] = <<k, j>>
            /\ IsRun(ls, left) /\ (IsCutAt(ls, n, s) => IsCutAt(ls, n, left))
            /\ \A j \in 1 .. Len(left) : left[j][1] # 0 => k < left[j][1]
            /\ \A j \in 1 .. Len(s) : s[j][1] # 0 => k =< s[j][1]
            /\ \A q \in Nat : q # k => \A i \in 1 .. Len(s) : s[i] = <<q, 1>> =>
                  \E j \in 1 .. Len(left) : left[j] = <<q, 1>>
<1> DEFINE k == s[1][1]
           left == Remaining(s, ls[k])
<1>1. /\ Len(s) \in Nat /\ 1 \in 1 .. Len(s) /\ s[1][2] = 1 /\ Len(ls) \in Nat
      /\ \A i \in 1 .. Len(s) - 1 : Follows(ls, s[i], s[i + 1])
      /\ \A i \in 1 .. Len(s) : s[i][1] \in Nat /\ s[i][2] \in Nat
  <2>1. Len(s) \in Nat /\ 1 \in 1 .. Len(s) BY SentIs, EmptySeq
  <2>2. ~ AllNull(s) BY <2>1 DEF AllNull
  <2> QED BY <2>1, <2>2, SentIs, LensIs DEF IsRun
<1>2. k \in 1 .. Len(ls) /\ k \in Nat /\ k # 0 /\ s[1] = <<k, 1>> BY <1>1, SentIs
<1>3. ls[k] \in Nat /\ ls[k] >= 2 BY <1>2, LensIs
<1> HIDE DEF k
<1>4. ASSUME NEW j \in 1 .. Len(s), j =< ls[k] PROVE s[j] = <<k, j>>
  <2>1. j \in 1 .. ls[k] /\ 1 + j - 1 = j BY <1>1, <1>3, <1>4
  <2>2. \A i \in 1 .. ls[k] : 1 + i - 1 =< Len(s) => s[1 + i - 1] = <<k, i>>
    BY <1>1, <1>2, RunSection
  <2>3. 1 + j - 1 =< Len(s) => s[1 + j - 1] = <<k, j>> BY <2>1, <2>2
  <2> QED BY <1>1, <2>1, <2>3
<1>5. \A j \in 1 .. Len(s) : s[j][1] # 0 => k =< s[j][1]
  BY <1>1, <1>2, RunOrdered DEF k
<1>6. /\ left \in Seq(SentBytes(ls, n))
      /\ Len(left) = (IF ls[k] =< Len(s) THEN Len(s) - ls[k] ELSE 0)
      /\ \A i \in 1 .. Len(s) - ls[k] : left[i] = s[ls[k] + i]
      /\ left = <<>> <=> Len(s) =< ls[k]
  BY <1>3, RemainingIs
<1>7. \A j \in 1 .. Len(left) : left[j] = s[ls[k] + j] /\ ls[k] + j \in 1 .. Len(s)
  BY <1>1, <1>3, <1>6
<1> HIDE DEF left
<1>8. ASSUME left # <<>>
      PROVE  /\ s[ls[k]] = <<k, ls[k]>> /\ Follows(ls, s[ls[k]], left[1])
             /\ 1 \in 1 .. Len(left) /\ Len(left) \in Nat
             /\ left[1][1] = 0 \/ left[1] = <<k + 1, 1>>
  <2>1. Len(left) \in Nat /\ Len(left) >= 1 /\ ls[k] < Len(s) BY <1>1, <1>3, <1>6, <1>8
  <2>0. ls[k] \in 1 .. Len(s) /\ ls[k] =< ls[k] BY <1>1, <1>3, <2>1
  <2>2. s[ls[k]] = <<k, ls[k]>> BY <1>4, <2>0
  <2>3. left[1] = s[ls[k] + 1] /\ ls[k] \in 1 .. Len(s) - 1 BY <1>1, <1>3, <1>7, <2>1
  <2>4. Follows(ls, s[ls[k]], left[1]) BY <1>1, <2>3
  <2>5. s[ls[k]][1] = k /\ s[ls[k]][2] = ls[k] BY <2>2
  <2>6. left[1][1] = 0 \/ left[1] = <<k + 1, 1>> BY <1>2, <1>3, <2>4, <2>5 DEF Follows
  <2> QED BY <2>1, <2>2, <2>4, <2>6
<1>9. \A i \in 1 .. Len(left) - 1 : Follows(ls, left[i], left[i + 1])
  <2> TAKE i \in 1 .. Len(left) - 1
  <2>1. Len(left) \in Nat BY <1>1, <1>3, <1>6
  <2>2. i \in 1 .. Len(left) /\ i + 1 \in 1 .. Len(left) BY <2>1
  <2>3. left[i] = s[ls[k] + i] /\ left[i + 1] = s[ls[k] + (i + 1)]
        /\ ls[k] + (i + 1) \in 1 .. Len(s)
    BY <1>7, <2>2
  <2> DEFINE h == ls[k] + i
  <2>4. h \in 1 .. Len(s) - 1 /\ h + 1 = ls[k] + (i + 1)
    <3> DEFINE a == ls[k]
    <3>1. i \in Nat /\ i >= 1 BY <2>1
    <3>2. a \in Nat /\ a >= 2 /\ Len(s) \in Nat BY <1>1, <1>3
    <3> HIDE DEF a
    <3>3. a + (i + 1) \in 1 .. Len(s) BY <2>3 DEF a
    <3>4. a + i \in 1 .. Len(s) - 1 /\ (a + i) + 1 = a + (i + 1) BY <3>1, <3>2, <3>3
    <3> QED BY <3>4 DEF a
  <2>5. left[i] = s[h] BY <2>3
  <2> HIDE DEF h
  <2>6. Follows(ls, s[h], s[h + 1]) BY <1>1, <2>4
  <2> QED BY <2>3, <2>4, <2>5, <2>6
<1>10. IsRun(ls, left)
  <2>1. CASE left = <<>>
    <3>1. Len(left) = 0 BY <1>1, <1>3, <1>6, <2>1
    <3> QED BY <3>1 DEF IsRun, AllNull
  <2>2. CASE left # <<>> /\ left[1][1] = 0
    <3>1. \A j \in 1 .. Len(left) : ~ left[j][1] # 0
      BY <1>6, <1>8, <1>9, <2>2, RunOrdered
    <3> QED BY <3>1 DEF IsRun, AllNull
  <2>3. CASE left # <<>> /\ left[1] = <<k + 1, 1>>
    <3>1. left[1][1] = k + 1 /\ left[1][2] = 1 BY <2>3
    <3> QED BY <1>2, <1>9, <2>3, <3>1 DEF IsRun
  <2> QED BY <1>8, <2>1, <2>2, <2>3
<1>11. ASSUME IsCutAt(ls, n, s) PROVE IsCutAt(ls, n, left)
  <2>1. CASE left = <<>> BY <2>1 DEF IsCutAt
  <2>2. CASE left # <<>>
    <3>1. Len(left) \in 1 .. Len(left) BY <1>8, <2>2
    <3>2. left[Len(left)] = s[ls[k] + Len(left)] BY <1>7, <3>1
    <3>4. ls[k] + Len(left) = Len(s)
      <4> DEFINE a == ls[k]
                 b == Len(left)
                 c == Len(s)
      <4>1. /\ a \in Nat /\ b \in Nat /\ c \in Nat /\ b >= 1
            /\ b = IF a =< c THEN c - a ELSE 0
        BY <1>1, <1>3, <1>6, <1>8, <2>2
      <4> HIDE DEF a, b, c
      <4>2. a + b = c BY <4>1
      <4> QED BY <4>2 DEF a, b, c
    <3>3. left[Len(left)] = s[Len(s)] BY <3>2, <3>4
    <3> QED BY <1>11, <3>3 DEF IsCutAt
  <2> QED BY <2>1, <2>2
<1>12. ASSUME NEW j \in 1 .. Len(left), left[j][1] # 0 PROVE k < left[j][1]
  <2>1. left # <<>> /\ 1 \in 1 .. Len(left) /\ j \in 1 .. Len(left) /\ Len(left) \in Nat
    <3>1. Len(left) \in Nat BY <1>1, <1>3, <1>6
    <3> QED BY <1>6, <3>1, EmptySeq
  <2>2. left[1][1] # 0 /\ left[1][1] =< left[j][1] BY <1>6, <1>9, <1>12, <2>1, RunOrdered
  <2>3. left[1] = <<k + 1, 1>> BY <1>8, <2>1, <2>2
  <2>4. left[1][1] = k + 1 BY <2>3
  <2>5. left[j][1] \in Nat BY <1>6, SentIs
  <2> QED BY <1>2, <2>2, <2>4, <2>5
<1>13. ASSUME NEW q \in Nat, q # k, NEW i \in 1 .. Len(s), s[i] = <<q, 1>>
       PROVE  \E j \in 1 .. Len(left) : left[j] = <<q, 1>>
  <2>1. ~ i =< ls[k]
    <3> SUFFICES ASSUME i =< ls[k] PROVE FALSE OBVIOUS
    <3>1. <<q, 1>> = <<k, i>> BY <1>4, <1>13
    <3> QED BY <1>13, <3>1
  <2>2. i - ls[k] \in 1 .. Len(left) BY <1>1, <1>3, <1>6, <2>1
  <2>3. left[i - ls[k]] = s[ls[k] + (i - ls[k])] /\ ls[k] + (i - ls[k]) = i
    BY <1>1, <1>3, <1>7, <2>2
  <2>4. left[i - ls[k]] = <<q, 1>> BY <1>13, <2>3
  <2> QED BY <2>2, <2>4
<1>14. k \in 1 .. Len(ls) /\ \A j \in 1 .. Len(s) : j =< ls[k] => s[j] = <<k, j>>
  BY <1>2, <1>4
<1> QED BY <1>5, <1>10, <1>11, <1>12, <1>13, <1>14 DEF k, left

LEMMA LengthsAre ==
  ASSUME lens \in Seq(SectionLens), NEW n \in Nat, NEW s \in Seq(SentBytes(lens, n)),
         Len(s) >= HeaderLen
  PROVE  /\ LengthsIn(s) \subseteq HeaderLen .. MaxLength
         /\ s[1][1] # 0 /\ (\A i \in 1 .. HeaderLen : s[i] = <<s[1][1], i>>)
               => LengthsIn(s) = {lens[s[1][1]]}
<1> DEFINE k == s[1][1]
           header == SubSeq(s, 1, HeaderLen)
<1>1. Len(s) \in Nat /\ 1 \in 1 .. Len(s) /\ k \in Nat /\ (k # 0 => k \in 1 .. Len(lens))
  BY Sizes, SentIs
<1>2. HeaderLen \in 0 .. Len(s) BY <1>1, Sizes
<1>3. header \in Seq(Byte) /\ Len(header) = HeaderLen /\ \A i \in 1 .. HeaderLen : header[i] = s[i]
  BY <1>2, SentIs, PrefixIs
<1>4. LengthsIn(s) = IF k # 0 /\ header = Section(k, HeaderLen) THEN {lens[k]}
                     ELSE HeaderLen .. MaxLength
  BY DEF LengthsIn
<1> HIDE DEF k, header
<1>5. ASSUME k # 0 PROVE {lens[k]} \subseteq HeaderLen .. MaxLength
  <2>1. lens[k] \in Nat /\ HeaderLen =< lens[k] /\ lens[k] =< MAX_TS_SIZE BY <1>1, <1>5, LensIs
  <2> QED BY <2>1, Sizes
<1>6. ASSUME k # 0, \A i \in 1 .. HeaderLen : s[i] = <<k, i>> PROVE LengthsIn(s) = {lens[k]}
  <2> DEFINE t == Section(k, HeaderLen)
  <2>1. t \in Seq(Byte) /\ Len(t) = HeaderLen /\ \A i \in 1 .. HeaderLen : t[i] = <<k, i>>
    BY <1>1, Sizes, SectionIs
  <2> HIDE DEF t
  <2>2. \A i \in 1 .. Len(header) : header[i] = t[i] BY <1>3, <1>6, <2>1
  <2>3. header = t BY <1>3, <2>1, <2>2, SeqEqual
  <2> QED BY <1>4, <1>6, <2>3 DEF t
<1> QED BY <1>4, <1>5, <1>6 DEF k

-----------------------------------------------------------------------------
(* The buffer of full sections *)

LEMMA EndsAre ==
  ASSUME NEW lengths, NEW e, Len(lengths) \in Nat, e \in [0 .. Len(lengths) -> Nat], e[0] = 0,
         \A i \in 1 .. Len(lengths) : e[i] = e[i - 1] + lengths[i]
  PROVE  Ends(lengths) = e
<1> DEFINE f == Ends(lengths)
<1>1. e = [i \in 0 .. Len(lengths) |-> IF i = 0 THEN 0 ELSE e[i - 1] + lengths[i]] OBVIOUS
<1>2. f = [i \in 0 .. Len(lengths) |-> IF i = 0 THEN 0 ELSE f[i - 1] + lengths[i]]
  BY <1>1 DEF Ends
<1> HIDE DEF f
<1> DEFINE S == {i \in Nat : i =< Len(lengths) => f[i] = e[i]}
<1>3. 0 \in S BY <1>2
<1>4. ASSUME NEW i \in Nat, i \in S PROVE i + 1 \in S
  <2> SUFFICES ASSUME i + 1 =< Len(lengths) PROVE f[i + 1] = e[i + 1] OBVIOUS
  <2>1. f[i] = e[i] /\ i + 1 \in 1 .. Len(lengths) /\ (i + 1) - 1 = i BY <1>4
  <2>2. f[i + 1] = f[i] + lengths[i + 1] BY <1>2, <2>1
  <2>3. e[i + 1] = e[i] + lengths[i + 1] BY <2>1
  <2> QED BY <2>1, <2>2, <2>3
<1>5. Nat \subseteq S
  <2> HIDE DEF S
  <2> QED BY <1>3, <1>4, Induction
<1>6. \A i \in 0 .. Len(lengths) : f[i] = e[i] BY <1>5
<1>7. f = e BY <1>2, <1>6
<1> QED BY <1>7 DEF f

\* The sections follow one another from the first byte to the last.
LEMMA EndsGrow ==
  ASSUME NEW m \in Nat, NEW e \in [0 .. m -> Nat], NEW lengths, e[0] = 0,
         \A i \in 1 .. m : e[i] = e[i - 1] + lengths[i] /\ lengths[i] \in Nat
  PROVE  /\ \A i \in 0 .. m : e[i] =< e[m]
         /\ \A p \in 1 .. e[m] : \E i \in 1 .. m : e[i - 1] < p /\ p =< e[i]
<1> DEFINE S == {n \in Nat : n =< m =>
                   /\ \A i \in 0 .. n : e[i] =< e[n]
                   /\ \A p \in 1 .. e[n] : \E i \in 1 .. n : e[i - 1] < p /\ p =< e[i]}
<1>1. 0 \in S OBVIOUS
<1>2. ASSUME NEW n \in Nat, n \in S PROVE n + 1 \in S
  <2> SUFFICES ASSUME n + 1 =< m
               PROVE  /\ \A i \in 0 .. n + 1 : e[i] =< e[n + 1]
                      /\ \A p \in 1 .. e[n + 1] :
                            \E i \in 1 .. n + 1 : e[i - 1] < p /\ p =< e[i]
    OBVIOUS
  <2>1. /\ \A i \in 0 .. n : e[i] =< e[n]
        /\ \A p \in 1 .. e[n] : \E i \in 1 .. n : e[i - 1] < p /\ p =< e[i]
    BY <1>2
  <2>2. n + 1 \in 1 .. m /\ (n + 1) - 1 = n /\ n \in 0 .. m OBVIOUS
  <2>3. e[n + 1] = e[n] + lengths[n + 1] /\ lengths[n + 1] \in Nat BY <2>2
  <2>4. e[n] \in Nat /\ e[n + 1] \in Nat /\ e[n] =< e[n + 1] BY <2>2, <2>3
  <2>5. ASSUME NEW i \in 0 .. n + 1 PROVE e[i] =< e[n + 1]
    <3>1. CASE i = n + 1 BY <2>4, <3>1
    <3>2. CASE i # n + 1
      <4>1. i \in 0 .. n /\ e[i] \in Nat BY <3>2
      <4>2. e[i] =< e[n] BY <2>1, <4>1
      <4> QED BY <2>4, <4>1, <4>2
    <3> QED BY <3>1, <3>2
  <2>6. ASSUME NEW p \in 1 .. e[n + 1]
        PROVE  \E i \in 1 .. n + 1 : e[i - 1] < p /\ p =< e[i]
    <3>1. CASE p =< e[n]
      <4>1. p \in 1 .. e[n] BY <2>4, <3>1
      <4> QED BY <2>1, <4>1
    <3>2. CASE ~ p =< e[n]
      <4>1. e[(n + 1) - 1] < p /\ p =< e[n + 1] /\ n + 1 \in 1 .. n + 1 BY <2>2, <2>4, <3>2
      <4> QED BY <4>1
    <3> QED BY <3>1, <3>2
  <2> QED BY <2>5, <2>6
<1>3. Nat \subseteq S
  <2> HIDE DEF S
  <2> QED BY <1>1, <1>2, Induction
<1> QED BY <1>3

\* What IsBuffer says of the lengths and of the bytes
LEMMA BufferHas ==
  ASSUME NEW ls \in Seq(SectionLens), NEW n \in Nat, NEW bytes, NEW lengths, NEW e, NEW k,
         IsBuffer(ls, n, bytes, lengths, e, k)
  PROVE  /\ Len(lengths) \in Nat /\ Len(bytes) \in Nat
         /\ bytes \in Seq(SentBytes(ls, n)) /\ lengths \in Seq(HeaderLen .. MAX_TS_SIZE)
         /\ e \in [0 .. Len(lengths) -> Nat] /\ k \in [1 .. Len(lengths) -> 1 .. Len(ls)]
         /\ e[0] = 0 /\ e[Len(lengths)] = Len(bytes)
         /\ \A i \in 1 .. Len(lengths) :
               /\ e[i] = e[i - 1] + lengths[i] /\ lengths[i] = ls[k[i]]
               /\ lengths[i] \in Nat /\ lengths[i] >= 2 /\ lengths[i] =< MAX_TS_SIZE
               /\ k[i] \in 1 .. Len(ls) /\ k[i] \in Nat /\ e[i] \in Nat /\ e[i - 1] \in Nat
               /\ e[i] =< Len(bytes)
               /\ \A j \in 1 .. lengths[i] : bytes[e[i - 1] + j] = <<k[i], j>>
         /\ \A p \in 1 .. Len(bytes) :
               \E i \in 1 .. Len(lengths) : e[i - 1] < p /\ p =< e[i]
<1> DEFINE m == Len(lengths)
<1>1. /\ bytes \in Seq(SentBytes(ls, n)) /\ lengths \in Seq(HeaderLen .. MAX_TS_SIZE)
      /\ e \in [0 .. m -> Nat] /\ k \in [1 .. m -> 1 .. Len(ls)]
      /\ e[0] = 0 /\ e[m] = Len(bytes)
      /\ \A i \in 1 .. m :
            /\ e[i] = e[i - 1] + lengths[i] /\ lengths[i] = ls[k[i]]
            /\ \A j \in 1 .. lengths[i] : bytes[e[i - 1] + j] = <<k[i], j>>
  BY DEF IsBuffer
<1>2. m \in Nat /\ Len(bytes) \in Nat BY <1>1, LenProperties
<1>3. \A i \in 1 .. m : lengths[i] \in HeaderLen .. MAX_TS_SIZE BY <1>1, ElementOfSeq
<1> HIDE DEF m
<1>4. \A i \in 1 .. m : lengths[i] \in Nat /\ lengths[i] >= 2 /\ lengths[i] =< MAX_TS_SIZE
  BY <1>3, Sizes
<1>5. /\ \A i \in 0 .. m : e[i] =< e[m]
      /\ \A p \in 1 .. e[m] : \E i \in 1 .. m : e[i - 1] < p /\ p =< e[i]
  <2>1. /\ m \in Nat /\ e \in [0 .. m -> Nat] /\ e[0] = 0
        /\ \A i \in 1 .. m : e[i] = e[i - 1] + lengths[i] /\ lengths[i] \in Nat
    BY <1>1, <1>2, <1>4
  <2> QED BY ONLY <2>1, EndsGrow
<1>6. ASSUME NEW i \in 1 .. m
      PROVE  /\ k[i] \in 1 .. Len(ls) /\ k[i] \in Nat /\ e[i] \in Nat /\ e[i - 1] \in Nat
             /\ e[i] =< Len(bytes)
  <2>1. i \in 0 .. m /\ i - 1 \in 0 .. m BY <1>2
  <2>2. e[i] \in Nat /\ e[i - 1] \in Nat BY <1>1, <2>1
  <2>3. k[i] \in 1 .. Len(ls) /\ k[i] \in Nat BY <1>1
  <2>4. e[i] =< Len(bytes) BY <1>1, <1>5, <2>1
  <2> QED BY <2>2, <2>3, <2>4
<1> QED BY <1>1, <1>2, <1>4, <1>5, <1>6 DEF m

LEMMA PartIs ==
  ASSUME NEW S, NEW s \in Seq(S), NEW a \in Nat, NEW b \in Nat, a + b =< Len(s)
  PROVE  /\ SubSeq(s, a + 1, a + b) \in Seq(S) /\ Len(SubSeq(s, a + 1, a + b)) = b
         /\ \A i \in 1 .. b : SubSeq(s, a + 1, a + b)[i] = s[a + i]
<1>0. Len(s) \in Nat BY LenProperties
<1> DEFINE x == a + 1
           y == a + b
           r == SubSeq(s, x, y)
<1>1. x \in Int /\ y \in Int /\ \A i \in x .. y : i \in 1 .. Len(s) BY <1>0
<1>2. \A i \in x .. y : s[i] \in S BY <1>1, ElementOfSeq
<1> HIDE DEF x, y
<1>3. /\ r \in Seq(S) /\ Len(r) = (IF x <= y THEN y - x + 1 ELSE 0)
      /\ \A i \in 1 .. y - x + 1 : r[i] = s[x + i - 1]
  BY <1>1, <1>2, SubSeqProperties
<1> HIDE DEF r
<1>4. Len(r) = b BY <1>3 DEF x, y
<1>5. ASSUME NEW i \in 1 .. b PROVE r[i] = s[a + i]
  <2>1. i \in 1 .. y - x + 1 /\ x + i - 1 = a + i BY DEF x, y
  <2> QED BY <1>3, <2>1
<1> QED BY <1>3, <1>4, <1>5 DEF r, x, y

LEMMA WholeFrom ==
  ASSUME NEW ls \in Seq(SectionLens), NEW S, NEW s \in Seq(S), NEW k \in 1 .. Len(ls),
         Len(s) = ls[k], \A j \in 1 .. ls[k] : s[j] = <<k, j>>
  PROVE  IsWhole(ls, s) /\ s[1][1] = k /\ s[1] = <<k, 1>> /\ s \in Seq(Byte)
<1> DEFINE m == ls[k]
           t == Section(k, m)
<1>1. m \in Nat /\ m >= 2 /\ k \in Nat /\ k # 0 BY LensIs
<1> HIDE DEF m
<1>2. t \in Seq(Byte) /\ Len(t) = m /\ \A j \in 1 .. m : t[j] = <<k, j>> BY <1>1, SectionIs
<1>3. ASSUME NEW j \in 1 .. m PROVE s[j] \in Byte
  <2>1. s[j] = <<k, j>> BY DEF m
  <2>2. j \in Nat /\ k \in Nat BY <1>1
  <2> QED BY <2>1, <2>2 DEF Byte
<1>4. s \in [1 .. m -> S]
  <2>1. s \in [1 .. Len(s) -> S] BY LenProperties
  <2> QED BY <2>1 DEF m
<1>5. s \in [1 .. m -> Byte] BY <1>3, <1>4
<1>6. s \in Seq(Byte) BY <1>1, <1>5, MapIs
<1> HIDE DEF t
<1>7. s = t
  <2>1. \A j \in 1 .. Len(s) : s[j] = t[j] BY <1>2 DEF m
  <2>2. Len(s) = Len(t) BY <1>2 DEF m
  <2> QED BY <1>2, <1>6, <2>1, <2>2, SeqEqual
<1>8. s[1] = <<k, 1>> /\ s[1][1] = k BY <1>1 DEF m
<1>9. s # <<>> BY <1>1, EmptySeq DEF m
<1> QED BY <1>6, <1>7, <1>8, <1>9 DEF IsWhole, t, m

LEMMA BufferIs ==
  ASSUME NEW ls \in Seq(SectionLens), NEW n \in Nat, NEW bytes, NEW lengths, NEW e, NEW k,
         IsBuffer(ls, n, bytes, lengths, e, k)
  PROVE  /\ Ends(lengths) = e /\ NumsOf(bytes, lengths) = k
         /\ \A i \in 1 .. Len(lengths) :
               LET s == SubSeq(bytes, e[i - 1] + 1, e[i])
               IN IsWhole(ls, s) /\ s[1][1] = k[i] /\ s \in Seq(SentBytes(ls, n))
         /\ \A c : c \in SectionsOf(bytes) <=> \E i \in 1 .. Len(lengths) : c = k[i]
<1> DEFINE m == Len(lengths)
           L == Len(bytes)
<1>1. /\ m \in Nat /\ L \in Nat /\ bytes \in Seq(SentBytes(ls, n))
      /\ e \in [0 .. m -> Nat] /\ k \in [1 .. m -> 1 .. Len(ls)] /\ e[0] = 0 /\ e[m] = L
      /\ \A i \in 1 .. m : e[i] = e[i - 1] + lengths[i]
      /\ \A p \in 1 .. L : \E i \in 1 .. m : e[i - 1] < p /\ p =< e[i]
  BY BufferHas
<1>2. \A i \in 1 .. m :
         /\ e[i] = e[i - 1] + lengths[i] /\ lengths[i] = ls[k[i]]
         /\ lengths[i] \in Nat /\ lengths[i] >= 2
         /\ k[i] \in 1 .. Len(ls) /\ k[i] \in Nat /\ e[i] \in Nat /\ e[i - 1] \in Nat
         /\ e[i] =< L
         /\ \A j \in 1 .. lengths[i] : bytes[e[i - 1] + j] = <<k[i], j>>
  BY BufferHas
<1>3. Ends(lengths) = e BY <1>1, EndsAre
<1>4. ASSUME NEW i \in 1 .. m
      PROVE  LET s == SubSeq(bytes, e[i - 1] + 1, e[i])
             IN IsWhole(ls, s) /\ s[1][1] = k[i] /\ s \in Seq(SentBytes(ls, n))
  <2> DEFINE a == e[i - 1]
             b == lengths[i]
             c == k[i]
             s == SubSeq(bytes, a + 1, a + b)
  <2>1. /\ a \in Nat /\ b \in Nat /\ a + b =< L /\ e[i] = a + b /\ b = ls[c]
        /\ c \in 1 .. Len(ls) /\ \A j \in 1 .. b : bytes[a + j] = <<c, j>>
    BY <1>2
  <2> HIDE DEF a, b, c, L
  <2>2. /\ s \in Seq(SentBytes(ls, n)) /\ Len(s) = b
        /\ \A j \in 1 .. b : s[j] = bytes[a + j]
    <3>1. /\ bytes \in Seq(SentBytes(ls, n)) /\ a \in Nat /\ b \in Nat
          /\ a + b =< Len(bytes)
      BY <1>1, <2>1 DEF L
    <3>2. /\ SubSeq(bytes, a + 1, a + b) \in Seq(SentBytes(ls, n))
          /\ Len(SubSeq(bytes, a + 1, a + b)) = b
          /\ \A j \in 1 .. b : SubSeq(bytes, a + 1, a + b)[j] = bytes[a + j]
      BY ONLY <3>1, PartIs
    <3> QED BY <3>2
  <2> HIDE DEF s
  <2>3. \A j \in 1 .. ls[c] : s[j] = <<c, j>> BY <2>1, <2>2
  <2>4. IsWhole(ls, s) /\ s[1][1] = c BY <2>1, <2>2, <2>3, WholeFrom
  <2>5. s = SubSeq(bytes, e[i - 1] + 1, e[i]) BY <2>1 DEF s, a
  <2>6. IsWhole(ls, s) /\ s[1][1] = k[i] /\ s \in Seq(SentBytes(ls, n)) BY <2>2, <2>4 DEF c
  <2> HIDE DEF s
  <2> QED BY <2>5, <2>6
<1> HIDE DEF m, L
<1>5. NumsOf(bytes, lengths) = k
  <2>1. NumsOf(bytes, lengths) =
           [i \in 1 .. m |-> SubSeq(bytes, e[i - 1] + 1, e[i])[1][1]]
    BY <1>3 DEF NumsOf, m
  <2>2. \A i \in 1 .. m : SubSeq(bytes, e[i - 1] + 1, e[i])[1][1] = k[i] BY <1>4
  <2>3. NumsOf(bytes, lengths) = [i \in 1 .. m |-> k[i]] BY <2>1, <2>2
  <2> QED BY <1>1, <2>3
<1>6. \A c : c \in SectionsOf(bytes) <=> \E i \in 1 .. m : c = k[i]
  <2>1. DOMAIN bytes = 1 .. L BY <1>1, LenProperties DEF L
  <2>2. ASSUME NEW p \in 1 .. L PROVE \E i \in 1 .. m : bytes[p][1] = k[i]
    <3>1. PICK i \in 1 .. m : e[i - 1] < p /\ p =< e[i] BY <1>1
    <3>2. p - e[i - 1] \in 1 .. lengths[i] /\ e[i - 1] + (p - e[i - 1]) = p
      <4>1. e[i] = e[i - 1] + lengths[i] /\ e[i - 1] \in Nat /\ lengths[i] \in Nat BY <1>2
      <4>2. p \in Nat BY <1>1
      <4> QED BY <3>1, <4>1, <4>2
    <3>3. bytes[p] = <<k[i], p - e[i - 1]>> BY <1>2, <3>2
    <3> QED BY <3>3
  <2>3. ASSUME NEW i \in 1 .. m PROVE \E p \in 1 .. L : bytes[p][1] = k[i] /\ k[i] # 0
    <3>0. /\ e[i] = e[i - 1] + lengths[i] /\ e[i - 1] \in Nat /\ e[i] =< L
          /\ lengths[i] \in Nat /\ lengths[i] >= 2 /\ L \in Nat
      BY <1>1, <1>2
    <3>1. e[i - 1] + 1 \in 1 .. L /\ 1 \in 1 .. lengths[i] BY <3>0
    <3>2. bytes[e[i - 1] + 1] = <<k[i], 1>> BY <1>2, <3>1
    <3>3. k[i] # 0 BY <1>2
    <3> QED BY <3>1, <3>2, <3>3
  <2>4. ASSUME NEW c \in SectionsOf(bytes) PROVE \E i \in 1 .. m : c = k[i]
    BY <2>1, <2>2 DEF SectionsOf
  <2>5. ASSUME NEW i \in 1 .. m PROVE k[i] \in SectionsOf(bytes)
    BY <2>1, <2>3 DEF SectionsOf
  <2> QED BY <2>4, <2>5
<1> QED BY <1>3, <1>4, <1>5, <1>6 DEF m

LEMMA EmptyBuffer ==
  ASSUME NEW ls, NEW n
  PROVE  IsBuffer(ls, n, <<>>, <<>>, [i \in 0 .. 0 |-> 0], <<>>)
<1>1. Len(<<>>) = 0 /\ <<>> \in Seq(SentBytes(ls, n)) /\ <<>> \in Seq(HeaderLen .. MAX_TS_SIZE)
  BY EmptySeq
<1>2. <<>> \in [1 .. 0 -> 1 .. Len(ls)]
  <2>1. <<>> \in Seq(1 .. Len(ls)) /\ Len(<<>>) = 0 BY EmptySeq
  <2> QED BY <2>1, LenProperties
<1>3. [i \in 0 .. 0 |-> 0] \in [0 .. 0 -> Nat] /\ [i \in 0 .. 0 |-> 0][0] = 0 OBVIOUS
<1> QED BY <1>1, <1>2, <1>3 DEF IsBuffer

LEMMA ExtendsBuffer ==
  ASSUME NEW ls \in Seq(SectionLens), NEW more \in Seq(SectionLens), NEW n \in Nat,
         NEW left \in Nat, Extends(ls, n, more, left),
         NEW bytes, NEW lengths, NEW e, NEW k, IsBuffer(ls, n, bytes, lengths, e, k)
  PROVE  IsBuffer(more, left, bytes, lengths, e, k)
<1> DEFINE m == Len(lengths)
<1>1. /\ bytes \in Seq(SentBytes(ls, n)) /\ lengths \in Seq(HeaderLen .. MAX_TS_SIZE)
      /\ e \in [0 .. m -> Nat] /\ k \in [1 .. m -> 1 .. Len(ls)]
      /\ e[0] = 0 /\ e[m] = Len(bytes)
      /\ \A i \in 1 .. m :
            /\ e[i] = e[i - 1] + lengths[i] /\ lengths[i] = ls[k[i]]
            /\ \A j \in 1 .. lengths[i] : bytes[e[i - 1] + j] = <<k[i], j>>
  BY DEF IsBuffer
<1>2. bytes \in Seq(SentBytes(more, left)) BY <1>1, SentExtends
<1>3. Len(ls) \in Nat /\ Len(more) \in Nat /\ Len(ls) =< Len(more) BY LensIs DEF Extends
<1>4. k \in [1 .. m -> 1 .. Len(more)] BY <1>1, <1>3
<1>5. \A i \in 1 .. m : more[k[i]] = ls[k[i]] BY <1>1 DEF Extends
<1> HIDE DEF m
<1>6. \A i \in 1 .. m :
            /\ e[i] = e[i - 1] + lengths[i] /\ lengths[i] = more[k[i]]
            /\ \A j \in 1 .. lengths[i] : bytes[e[i - 1] + j] = <<k[i], j>>
  BY <1>1, <1>5
<1> QED BY <1>1, <1>2, <1>4, <1>6 DEF IsBuffer, m

\* The first section is taken out.
IsPop(bytes, lengths, taken, left, after) ==
    /\ taken = SubSeq(bytes, 1, Head(lengths)) /\ after = Tail(lengths)
    /\ left = Remaining(bytes, Head(lengths))

LEMMA PopBuffer ==
  ASSUME NEW ls \in Seq(SectionLens), NEW n \in Nat, NEW bytes, NEW lengths, NEW e, NEW k,
         IsBuffer(ls, n, bytes, lengths, e, k), lengths # <<>>,
         NEW d1, NEW b1, NEW t1, IsPop(bytes, lengths, d1, b1, t1)
  PROVE  LET h == Head(lengths)
             m == Len(lengths)
         IN /\ m >= 1 /\ IsWhole(ls, d1) /\ d1[1] = <<k[1], 1>> /\ d1 \in Seq(SentBytes(ls, n))
            /\ Len(t1) = m - 1
            /\ \E ends, nums :
                  /\ IsBuffer(ls, n, b1, t1, ends, nums)
                  /\ \A i \in 0 .. m - 1 : ends[i] = e[i + 1] - h
                  /\ \A i \in 1 .. m - 1 : nums[i] = k[i + 1]
            /\ Len(b1) = Len(bytes) - h
            /\ h \in Nat /\ e[1] = h
<1> DEFINE h == Head(lengths)
           m == Len(lengths)
           L == Len(bytes)
           left == Remaining(bytes, h)
           ends == [i \in 0 .. m - 1 |-> e[i + 1] - h]
           nums == [i \in 1 .. m - 1 |-> k[i + 1]]
           t == Tail(lengths)
           s1 == SubSeq(bytes, 1, h)
<1>17. d1 = s1 /\ b1 = left /\ t1 = t BY DEF IsPop
<1>1. /\ m \in Nat /\ L \in Nat /\ bytes \in Seq(SentBytes(ls, n))
      /\ lengths \in Seq(HeaderLen .. MAX_TS_SIZE)
      /\ e \in [0 .. m -> Nat] /\ k \in [1 .. m -> 1 .. Len(ls)] /\ e[0] = 0 /\ e[m] = L
  BY BufferHas
<1>2. \A i \in 1 .. m :
         /\ e[i] = e[i - 1] + lengths[i] /\ lengths[i] = ls[k[i]]
         /\ lengths[i] \in Nat /\ lengths[i] >= 2
         /\ k[i] \in 1 .. Len(ls) /\ e[i] \in Nat /\ e[i - 1] \in Nat /\ e[i] =< L
         /\ \A j \in 1 .. lengths[i] : bytes[e[i - 1] + j] = <<k[i], j>>
  BY BufferHas
<1>3. /\ m >= 1 /\ h = lengths[1] /\ t \in Seq(HeaderLen .. MAX_TS_SIZE) /\ Len(t) = m - 1
      /\ \A i \in 1 .. m - 1 : t[i] = lengths[i + 1]
  BY <1>1, HeadTailProperties, EmptySeq
<1>4. h \in Nat /\ h =< L /\ e[1] = h
  <2>1. 1 \in 1 .. m /\ 1 - 1 = 0 BY <1>1, <1>3
  <2> QED BY <1>1, <1>2, <1>3, <2>1
<1>5. /\ IsWhole(ls, SubSeq(bytes, 1, h)) /\ SubSeq(bytes, 1, h)[1][1] = k[1]
      /\ SubSeq(bytes, 1, h) \in Seq(SentBytes(ls, n))
  <2>1. \A i \in 1 .. m :
               LET s == SubSeq(bytes, e[i - 1] + 1, e[i])
               IN IsWhole(ls, s) /\ s[1][1] = k[i] /\ s \in Seq(SentBytes(ls, n))
    BY BufferIs
  <2>2. 1 \in 1 .. m /\ e[1 - 1] + 1 = 1 BY <1>1, <1>3
  <2> DEFINE s == SubSeq(bytes, e[1 - 1] + 1, e[1])
  <2>3. IsWhole(ls, s) /\ s[1][1] = k[1] /\ s \in Seq(SentBytes(ls, n)) BY <2>1, <2>2
  <2>4. s = SubSeq(bytes, 1, h) BY <1>4, <2>2
  <2> HIDE DEF h, m, s
  <2> QED BY <2>3, <2>4
<1> HIDE DEF h, m, L, t
<1>6. /\ left \in Seq(SentBytes(ls, n)) /\ Len(left) = L - h
      /\ \A p \in 1 .. L - h : left[p] = bytes[h + p]
  <2>1. /\ left \in Seq(SentBytes(ls, n))
        /\ Len(left) = (IF h =< Len(bytes) THEN Len(bytes) - h ELSE 0)
        /\ \A p \in 1 .. Len(bytes) - h : left[p] = bytes[h + p]
    <3>1. bytes \in Seq(SentBytes(ls, n)) /\ h \in Nat BY <1>1, <1>4
    <3>2. left \in Seq(SentBytes(ls, n)) BY <3>1, RemainingIs
    <3>3. Len(left) = (IF h =< Len(bytes) THEN Len(bytes) - h ELSE 0) BY <3>1, RemainingIs
    <3>4. \A p \in 1 .. Len(bytes) - h : left[p] = bytes[h + p] BY <3>1, RemainingIs
    <3> HIDE DEF left
    <3> QED BY <3>2, <3>3, <3>4, Sizes
  <2> HIDE DEF left
  <2> QED BY <1>4, <2>1 DEF L
<1> HIDE DEF left
<1>7. ASSUME NEW i \in 0 .. m - 1
      PROVE  i + 1 \in 1 .. m /\ e[i + 1] \in Nat /\ e[i + 1] - h \in Nat
  <2>1. i + 1 \in 1 .. m /\ 1 \in 0 .. m /\ i + 1 \in 0 .. m BY <1>1, <1>3
  <2>2. CASE i = 0 BY <1>2, <1>4, <2>1, <2>2
  <2>3. CASE i # 0
    <3>1. \A p \in 1 .. 1 : TRUE OBVIOUS
    <3>2. e[i + 1] \in Nat BY <1>2, <2>1
    <3>3. h =< e[i + 1]
      <4> DEFINE S == {j \in Nat : j =< i => h =< e[j + 1]}
      <4>1. 0 \in S BY <1>4
      <4>2. ASSUME NEW j \in Nat, j \in S PROVE j + 1 \in S
        <5> SUFFICES ASSUME j + 1 =< i PROVE h =< e[(j + 1) + 1] OBVIOUS
        <5>1. (j + 1) + 1 \in 1 .. m /\ j + 1 \in 1 .. m /\ ((j + 1) + 1) - 1 = j + 1
          BY <1>1
        <5>2. h =< e[j + 1] /\ e[(j + 1) + 1] = e[j + 1] + lengths[(j + 1) + 1]
              /\ lengths[(j + 1) + 1] \in Nat /\ e[j + 1] \in Nat
          BY <1>2, <4>2, <5>1
        <5> QED BY <1>4, <5>2
      <4>3. Nat \subseteq S
        <5> HIDE DEF S
        <5> QED BY <4>1, <4>2, Induction
      <4> QED BY <4>3
    <3> QED BY <1>4, <2>1, <3>2, <3>3
  <2> QED BY <2>2, <2>3
<1>8. ends \in [0 .. m - 1 -> Nat] BY <1>7
<1>9. nums \in [1 .. m - 1 -> 1 .. Len(ls)]
  <2>1. \A i \in 1 .. m - 1 : i + 1 \in 1 .. m BY <1>1
  <2> QED BY <1>2, <2>1
<1>10. ends[0] = 0 /\ ends[m - 1] = L - h
  <2>1. 0 \in 0 .. m - 1 /\ m - 1 \in 0 .. m - 1 /\ (m - 1) + 1 = m /\ 0 + 1 = 1 BY <1>1, <1>3
  <2> QED BY <1>1, <1>4, <2>1
<1>11. ASSUME NEW i \in 1 .. m - 1
       PROVE  /\ ends[i] = ends[i - 1] + t[i] /\ t[i] = ls[nums[i]]
              /\ \A j \in 1 .. t[i] : left[ends[i - 1] + j] = <<nums[i], j>>
  <2>1. i + 1 \in 1 .. m /\ (i + 1) - 1 = i /\ i \in 0 .. m - 1 /\ i - 1 \in 0 .. m - 1
        /\ (i - 1) + 1 = i
    BY <1>1
  <2>2. ends[i] = e[i + 1] - h /\ ends[i - 1] = e[i] - h /\ nums[i] = k[i + 1] /\ t[i] = lengths[i + 1]
    BY <1>3, <2>1
  <2>3. /\ e[i + 1] = e[i] + lengths[i + 1] /\ lengths[i + 1] = ls[k[i + 1]]
        /\ lengths[i + 1] \in Nat /\ e[i + 1] \in Nat /\ e[i] \in Nat /\ e[i + 1] =< L
        /\ \A j \in 1 .. lengths[i + 1] : bytes[e[i] + j] = <<k[i + 1], j>>
    BY <1>2, <2>1
  <2>4. e[i] - h \in Nat BY <1>7, <2>1
  <2> HIDE DEF ends, nums
  <2>5. ends[i] = ends[i - 1] + t[i] BY <1>4, <2>2, <2>3
  <2>6. ASSUME NEW j \in 1 .. t[i] PROVE left[ends[i - 1] + j] = <<nums[i], j>>
    <3>1. j \in 1 .. lengths[i + 1] /\ j \in Nat BY <2>2, <2>3
    <3>2. ends[i - 1] + j \in 1 .. L - h /\ h + (ends[i - 1] + j) = e[i] + j
      <4>0. /\ e[i + 1] = e[i] + lengths[i + 1] /\ lengths[i + 1] \in Nat /\ e[i] \in Nat
            /\ e[i + 1] =< L /\ L \in Nat /\ h \in Nat
        BY <1>1, <1>4, <2>3
      <4> DEFINE x == lengths[i + 1]
                 y == e[i]
                 z == e[i + 1]
      <4>a. x \in Nat /\ y \in Nat /\ z = y + x /\ z =< L /\ L \in Nat /\ j \in 1 .. x
        BY <3>1, <4>0
      <4> HIDE DEF x, y, z
      <4>b. y + j =< L BY <4>a
      <4>1. e[i] - h \in Nat /\ j \in Nat /\ j >= 1 /\ e[i] + j =< L
        BY <2>4, <3>1, <4>b DEF y
      <4> DEFINE d == ends[i - 1]
      <4>2. d = y - h /\ d \in Nat BY <2>2, <2>4 DEF y
      <4> HIDE DEF d
      <4>3. d + j \in 1 .. L - h /\ h + (d + j) = y + j
        <5>1. h \in Nat /\ j \in Nat /\ j >= 1 BY <4>0, <4>1
        <5> QED BY <4>a, <4>b, <4>2, <5>1
      <4> QED BY <4>3 DEF d, y
    <3>3. left[ends[i - 1] + j] = bytes[e[i] + j] BY <1>6, <3>2
    <3> QED BY <2>2, <2>3, <3>1, <3>3
  <2> QED BY <2>2, <2>3, <2>5, <2>6
<1>13. /\ \A i \in 0 .. m - 1 : ends[i] = e[i + 1] - h
       /\ \A i \in 1 .. m - 1 : nums[i] = k[i + 1]
  OBVIOUS
<1> HIDE DEF ends, nums
<1>12. IsBuffer(ls, n, left, t, ends, nums)
  BY <1>3, <1>6, <1>8, <1>9, <1>10, <1>11 DEF IsBuffer
<1>14. \E x, y :
          /\ IsBuffer(ls, n, left, t, x, y)
          /\ \A i \in 0 .. m - 1 : x[i] = e[i + 1] - h
          /\ \A i \in 1 .. m - 1 : y[i] = k[i + 1]
  BY <1>12, <1>13
<1> HIDE DEF s1
<1>18. IsWhole(ls, s1) /\ s1[1][1] = k[1] /\ s1 \in Seq(SentBytes(ls, n)) BY <1>5 DEF s1
<1>16. s1[1] = <<k[1], 1>>
  <2>2. Len(s1) >= 2 /\ Len(s1) \in Nat /\ \A i \in 1 .. Len(s1) : s1[i] = <<s1[1][1], i>>
    BY <1>18, WholeIs
  <2>3. 1 \in 1 .. Len(s1) BY <2>2
  <2>4. s1[1] = <<s1[1][1], 1>> BY <2>2, <2>3
  <2> QED BY <1>18, <2>4
<1>15. /\ m >= 1 /\ IsWhole(ls, d1) /\ d1[1] = <<k[1], 1>> /\ d1 \in Seq(SentBytes(ls, n))
       /\ Len(t1) = m - 1 /\ Len(b1) = L - h /\ h \in Nat /\ e[1] = h
  BY <1>3, <1>4, <1>6, <1>16, <1>17, <1>18
<1> QED BY <1>14, <1>15, <1>17 DEF h, m, L

\* A section is put after the others.
IsPush(bytes, lengths, s, after, longer) ==
    after = bytes \o s /\ longer = Append(lengths, Len(s))

LEMMA PushBuffer ==
  ASSUME NEW ls \in Seq(SectionLens), NEW n \in Nat, NEW bytes, NEW lengths, NEW e, NEW k,
         IsBuffer(ls, n, bytes, lengths, e, k),
         NEW s \in Seq(SentBytes(ls, n)), IsWhole(ls, s),
         NEW b1, NEW t1, IsPush(bytes, lengths, s, b1, t1)
  PROVE  LET m == Len(lengths)
         IN /\ \E ends, nums :
                  /\ IsBuffer(ls, n, b1, t1, ends, nums)
                  /\ \A i \in 0 .. m : ends[i] = e[i]
                  /\ \A i \in 1 .. m : nums[i] = k[i]
                  /\ ends[m + 1] = Len(bytes) + Len(s) /\ nums[m + 1] = s[1][1]
            /\ Len(b1) = Len(bytes) + Len(s)
            /\ Len(t1) = m + 1
<1> DEFINE m == Len(lengths)
           L == Len(bytes)
           c == s[1][1]
           d == Len(s)
           all == bytes \o s
           t == Append(lengths, d)
           ends == [i \in 0 .. m + 1 |-> IF i = m + 1 THEN e[m] + d ELSE e[i]]
           nums == [i \in 1 .. m + 1 |-> IF i = m + 1 THEN c ELSE k[i]]
<1>1. /\ m \in Nat /\ L \in Nat /\ bytes \in Seq(SentBytes(ls, n))
      /\ lengths \in Seq(HeaderLen .. MAX_TS_SIZE)
      /\ e \in [0 .. m -> Nat] /\ k \in [1 .. m -> 1 .. Len(ls)] /\ e[0] = 0 /\ e[m] = L
  BY BufferHas
<1>2. \A i \in 1 .. m :
         /\ e[i] = e[i - 1] + lengths[i] /\ lengths[i] = ls[k[i]]
         /\ lengths[i] \in Nat /\ e[i] \in Nat /\ e[i - 1] \in Nat /\ e[i] =< L
         /\ \A j \in 1 .. lengths[i] : bytes[e[i - 1] + j] = <<k[i], j>>
  BY BufferHas
<1>3. /\ c \in 1 .. Len(ls) /\ d = ls[c] /\ d \in Nat
      /\ \A i \in 1 .. d : s[i] = <<c, i>>
  BY WholeIs
<1>4. d \in HeaderLen .. MAX_TS_SIZE
  <2>1. HeaderLen =< ls[c] /\ ls[c] =< MAX_TS_SIZE BY <1>3, LensIs
  <2> QED BY <1>3, <2>1, Sizes
<1> HIDE DEF c
<1>5. /\ all \in Seq(SentBytes(ls, n)) /\ Len(all) = L + d
      /\ \A p \in 1 .. L + d : all[p] = IF p <= L THEN bytes[p] ELSE s[p - L]
  BY <1>1, ConcatProperties
<1> HIDE DEF d, L, m, all
<1>6. /\ t \in Seq(HeaderLen .. MAX_TS_SIZE) /\ Len(t) = m + 1 /\ t[m + 1] = d
      /\ \A i \in 1 .. m : t[i] = lengths[i]
  BY <1>1, <1>4, AppendProperties DEF m
<1> HIDE DEF t
<1>7. ends \in [0 .. m + 1 -> Nat]
  <2>1. \A i \in 0 .. m + 1 : i # m + 1 => e[i] \in Nat BY <1>1
  <2>2. e[m] + d \in Nat BY <1>1, <1>3
  <2> QED BY <2>1, <2>2
<1>8. nums \in [1 .. m + 1 -> 1 .. Len(ls)] BY <1>1, <1>3
<1>9. ends[0] = 0 /\ ends[m + 1] = L + d BY <1>1
<1>10. ASSUME NEW i \in 1 .. m + 1
       PROVE  /\ ends[i] = ends[i - 1] + t[i] /\ t[i] = ls[nums[i]]
              /\ \A j \in 1 .. t[i] : all[ends[i - 1] + j] = <<nums[i], j>>
  <2>1. CASE i = m + 1
    <3>1. /\ ends[i] = e[m] + d /\ ends[i - 1] = e[m] /\ nums[i] = c /\ t[i] = d
      BY <1>1, <1>6, <2>1
    <3> HIDE DEF ends, nums
    <3>2. ends[i] = ends[i - 1] + t[i] /\ t[i] = ls[nums[i]] BY <1>3, <3>1
    <3>3. ASSUME NEW j \in 1 .. t[i] PROVE all[ends[i - 1] + j] = <<nums[i], j>>
      <4>1. ends[i - 1] + j = L + j /\ j \in 1 .. d BY <1>1, <3>1
      <4>2. L + j \in 1 .. L + d /\ ~ (L + j <= L) /\ (L + j) - L = j BY <1>1, <1>3, <4>1
      <4>3. all[L + j] = s[j] BY <1>5, <4>2
      <4> QED BY <1>3, <3>1, <4>1, <4>3
    <3> QED BY <3>2, <3>3
  <2>2. CASE i # m + 1
    <3>1. i \in 1 .. m /\ i - 1 # m + 1 /\ i - 1 \in 0 .. m + 1 BY <1>1, <2>2
    <3>2. ends[i] = e[i] /\ ends[i - 1] = e[i - 1] /\ nums[i] = k[i] /\ t[i] = lengths[i]
      BY <1>6, <2>2, <3>1
    <3> HIDE DEF ends, nums
    <3>3. ends[i] = ends[i - 1] + t[i] /\ t[i] = ls[nums[i]] BY <1>2, <3>1, <3>2
    <3>4. ASSUME NEW j \in 1 .. t[i] PROVE all[ends[i - 1] + j] = <<nums[i], j>>
      <4> DEFINE y == e[i - 1]
                 x == lengths[i]
      <4>1. y \in Nat /\ x \in Nat /\ y + x =< L /\ L \in Nat /\ j \in 1 .. x
        BY <1>1, <1>2, <3>1, <3>2
      <4>2. bytes[y + j] = <<k[i], j>> BY <1>2, <3>1, <3>2
      <4>3. ends[i - 1] = y BY <3>2
      <4> HIDE DEF y, x
      <4>4. y + j \in 1 .. L + d /\ y + j <= L BY <1>3, <4>1
      <4>5. all[y + j] = bytes[y + j] BY <1>5, <4>4
      <4> QED BY <3>2, <4>2, <4>3, <4>5
    <3> QED BY <3>3, <3>4
  <2> QED BY <2>1, <2>2
<1>13. /\ \A i \in 0 .. m : ends[i] = e[i]
       /\ \A i \in 1 .. m : nums[i] = k[i]
       /\ nums[m + 1] = c
  BY <1>1
<1> HIDE DEF ends, nums
<1>11. IsBuffer(ls, n, all, t, ends, nums)
  BY <1>5, <1>6, <1>7, <1>8, <1>9, <1>10 DEF IsBuffer
<1>12. Len(all) = L + d /\ Len(t) = m + 1 BY <1>5, <1>6
<1>14. b1 = all /\ t1 = t BY DEF IsPush, all, t, d
<1>15. IsBuffer(ls, n, b1, t1, ends, nums) /\ Len(b1) = L + d /\ Len(t1) = m + 1
  BY <1>11, <1>12, <1>14
<1> QED BY <1>9, <1>13, <1>15 DEF L, m, c, d

-----------------------------------------------------------------------------
(* The calls of add_ts_packet_data *)

LEMMA OneCall ==
  ASSUME NEW p
  PROVE  /\ Len(<<p>>) = 1 /\ Head(<<p>>) = p /\ Tail(<<p>>) = <<>> /\ <<p>> # <<>>
         /\ ToDo(<<p>>) = Len(p.bytes)
         /\ \A ls, n : IsPiece(ls, n, p) => IsTodo(ls, n, <<p>>)
<1>1. Len(<<p>>) = 1 /\ Head(<<p>>) = p /\ Tail(<<p>>) = <<>> /\ <<p>> # <<>> /\ <<p>>[1] = p
  OBVIOUS
<1>2. ToDo(<<p>>) = Len(p.bytes) BY <1>1 DEF ToDo
<1>3. ASSUME NEW ls, NEW n, IsPiece(ls, n, p) PROVE IsTodo(ls, n, <<p>>)
  <2>1. <<p>> = <<<<p>>[1]>> /\ <<p>>[1] = p BY <1>1
  <2> QED BY <1>3, <2>1 DEF IsTodo
<1> QED BY <1>1, <1>2, <1>3

LEMMA TwoCalls ==
  ASSUME NEW p, NEW q
  PROVE  /\ Len(<<p, q>>) = 2 /\ Head(<<p, q>>) = p /\ Tail(<<p, q>>) = <<q>>
         /\ <<p, q>> # <<>> /\ <<p, q>>[2] = q /\ <<p, q>>[1] = p
         /\ ToDo(<<p, q>>) = Len(p.bytes) + Len(q.bytes)
<1>1. /\ Len(<<p, q>>) = 2 /\ Head(<<p, q>>) = p /\ Tail(<<p, q>>) = <<q>>
      /\ <<p, q>> # <<>> /\ <<p, q>>[2] = q /\ <<p, q>>[1] = p
  OBVIOUS
<1> QED BY <1>1 DEF ToDo

IsBeginning(ls, n, p, q) ==
    /\ IsPiece(ls, n, p) /\ IsPiece(ls, n, q)
    /\ p.start_flag = "NO_START" /\ q.start_flag = "START_TS"
    /\ Len(p.bytes) + Len(q.bytes) =< PayloadSize /\ IsPair(p.bytes, q.bytes)

LEMMA TodoIs ==
  ASSUME NEW ls, NEW n, NEW calls, IsTodo(ls, n, calls), calls # <<>>
  PROVE  \/ \E p : calls = <<p>> /\ IsPiece(ls, n, p)
         \/ \E p, q : calls = <<p, q>> /\ IsBeginning(ls, n, p, q)
<1>1. CASE calls = <<calls[1]>> /\ IsPiece(ls, n, calls[1])
  <2> DEFINE p == calls[1]
  <2>1. calls = <<p>> /\ IsPiece(ls, n, p) BY <1>1
  <2> HIDE DEF p
  <2> QED BY <2>1
<1>2. CASE /\ calls = <<calls[1], calls[2]>>
           /\ IsPiece(ls, n, calls[1]) /\ IsPiece(ls, n, calls[2])
           /\ calls[1].start_flag = "NO_START" /\ calls[2].start_flag = "START_TS"
           /\ Len(calls[1].bytes) + Len(calls[2].bytes) =< PayloadSize
           /\ IsPair(calls[1].bytes, calls[2].bytes)
  <2> DEFINE p == calls[1]
             q == calls[2]
  <2>1. calls = <<p, q>> /\ IsBeginning(ls, n, p, q) BY <1>2 DEF IsBeginning
  <2> HIDE DEF p, q
  <2> QED BY <2>1
<1> QED BY <1>1, <1>2 DEF IsTodo

LEMMA IsTodoTwo ==
  ASSUME NEW ls, NEW n, NEW p, NEW q, IsBeginning(ls, n, p, q)
  PROVE  IsTodo(ls, n, <<p, q>>)
<1>1. <<p, q>>[1] = p /\ <<p, q>>[2] = q OBVIOUS
<1>2. <<p, q>> = <<<<p, q>>[1], <<p, q>>[2]>> BY <1>1
<1> QED BY <1>1, <1>2 DEF IsTodo, IsBeginning

LEMMA PieceIs ==
  ASSUME NEW ls, NEW n, NEW p, IsPiece(ls, n, p)
  PROVE  p.bytes \in Seq(SentBytes(ls, n)) /\ Len(p.bytes) \in Nat /\ Len(p.bytes) =< PayloadSize
<1>1. p.bytes \in Seq(SentBytes(ls, n)) /\ Len(p.bytes) =< PayloadSize BY DEF IsPiece
<1>2. Len(p.bytes) \in Nat BY <1>1, LenProperties
<1> QED BY <1>1, <1>2

LEMMA ToDoIs ==
  ASSUME NEW ls, NEW n, NEW calls, IsTodo(ls, n, calls)
  PROVE  ToDo(calls) \in Nat /\ ToDo(calls) =< PayloadSize
<1>1. CASE calls = <<>> BY <1>1, Sizes DEF ToDo
<1>2. CASE calls # <<>>
  <2>1. CASE \E p : calls = <<p>> /\ IsPiece(ls, n, p)
    <3>1. PICK p : calls = <<p>> /\ IsPiece(ls, n, p) BY <2>1
    <3>2. ToDo(<<p>>) = Len(p.bytes) BY OneCall
    <3> QED BY <3>1, <3>2, PieceIs
  <2>2. CASE \E p, q : calls = <<p, q>> /\ IsBeginning(ls, n, p, q)
    <3>1. PICK p, q : calls = <<p, q>> /\ IsBeginning(ls, n, p, q) BY <2>2
    <3>2. ToDo(<<p, q>>) = Len(p.bytes) + Len(q.bytes) BY TwoCalls
    <3>3. /\ IsPiece(ls, n, p) /\ IsPiece(ls, n, q)
          /\ Len(p.bytes) + Len(q.bytes) =< PayloadSize
      BY <3>1 DEF IsBeginning
    <3>4. Len(p.bytes) \in Nat /\ Len(q.bytes) \in Nat BY <3>3, PieceIs
    <3> DEFINE a == Len(p.bytes)
               b == Len(q.bytes)
    <3>5. a \in Nat /\ b \in Nat /\ a + b =< PayloadSize BY <3>3, <3>4
    <3>6. ToDo(calls) = a + b BY <3>1, <3>2
    <3> HIDE DEF a, b
    <3> QED BY <3>5, <3>6
  <2> QED BY <1>2, <2>1, <2>2, TodoIs
<1> QED BY <1>1, <1>2

-----------------------------------------------------------------------------
(* The sections in the order the caller gets them: those it was given, the *)
(* one in its hands and those in the buffer                                *)

Joined(a, p, k) == a \o p \o k
InHand(pending, x) == IF pending THEN <<x>> ELSE <<>>

HasParts(s, a, p, k, m) ==
    /\ s \in Seq(Nat) /\ Len(s) = Len(a) + Len(p) + m /\ Len(a) \in Nat /\ Len(p) \in Nat
    /\ \A i \in 1 .. Len(a) : s[i] = a[i]
    /\ \A i \in 1 .. Len(p) : s[Len(a) + i] = p[i]
    /\ \A i \in 1 .. m : s[Len(a) + Len(p) + i] = k[i]

LEMMA JoinedIs ==
  ASSUME NEW a \in Seq(Nat), NEW p \in Seq(Nat), NEW m \in Nat, NEW k \in [1 .. m -> Nat]
  PROVE  HasParts(Joined(a, p, k), a, p, k, m)
<1> DEFINE b == a \o p
           s == b \o k
           A == Len(a)
           P == Len(p)
<1>1. A \in Nat /\ P \in Nat BY LenProperties
<1>2. k \in Seq(Nat) /\ Len(k) = m BY MapIs
<1>3. /\ b \in Seq(Nat) /\ Len(b) = A + P
      /\ \A i \in 1 .. A + P : b[i] = IF i <= A THEN a[i] ELSE p[i - A]
  BY ConcatProperties
<1> HIDE DEF b, A, P
<1>4. /\ s \in Seq(Nat) /\ Len(s) = A + P + m
      /\ \A i \in 1 .. A + P + m : s[i] = IF i <= A + P THEN b[i] ELSE k[i - (A + P)]
  <2>1. b \in Seq(Nat) /\ k \in Seq(Nat) BY <1>2, <1>3
  <2>2. s \in Seq(Nat) BY <2>1, ConcatProperties
  <2>3. Len(s) = Len(b) + Len(k) BY <2>1, ConcatProperties
  <2>4. \A i \in 1 .. Len(b) + Len(k) : s[i] = IF i <= Len(b) THEN b[i] ELSE k[i - Len(b)]
    BY <2>1, ConcatProperties
  <2> HIDE DEF s
  <2> QED BY <1>2, <1>3, <2>2, <2>3, <2>4
<1> HIDE DEF s
<1>5. ASSUME NEW i \in 1 .. A PROVE s[i] = a[i]
  <2>1. i \in 1 .. A + P + m /\ i <= A + P /\ i \in 1 .. A + P BY <1>1
  <2> QED BY <1>3, <1>4, <2>1
<1>6. ASSUME NEW i \in 1 .. P PROVE s[A + i] = p[i]
  <2>1. /\ A + i \in 1 .. A + P + m /\ A + i <= A + P /\ A + i \in 1 .. A + P
        /\ ~ (A + i <= A) /\ (A + i) - A = i
    BY <1>1
  <2> QED BY <1>3, <1>4, <2>1
<1>7. ASSUME NEW i \in 1 .. m PROVE s[A + P + i] = k[i]
  <2>1. /\ A + P + i \in 1 .. A + P + m /\ ~ (A + P + i <= A + P)
        /\ (A + P + i) - (A + P) = i
    BY <1>1
  <2> QED BY <1>4, <2>1
<1>8. Joined(a, p, k) = s BY DEF Joined, s, b
<1> QED BY <1>1, <1>4, <1>5, <1>6, <1>7, <1>8 DEF A, P, HasParts

LEMMA InHandIs ==
  ASSUME NEW x \in Nat, NEW pending \in BOOLEAN
  PROVE  /\ InHand(pending, x) \in Seq(Nat)
         /\ pending => Len(InHand(pending, x)) = 1 /\ InHand(pending, x)[1] = x
         /\ ~ pending => InHand(pending, x) = <<>> /\ Len(InHand(pending, x)) = 0
<1>1. <<x>> \in Seq(Nat) /\ Len(<<x>>) = 1 /\ <<x>>[1] = x OBVIOUS
<1>2. <<>> \in Seq(Nat) /\ Len(<<>>) = 0 BY EmptySeq
<1> QED BY <1>1, <1>2 DEF InHand

\* The first one in the buffer is taken out.
LEMMA ShiftJoined ==
  ASSUME NEW a \in Seq(Nat), NEW m \in Nat, m >= 1, NEW k \in [1 .. m -> Nat],
         NEW k1 \in [1 .. m - 1 -> Nat], \A i \in 1 .. m - 1 : k1[i] = k[i + 1],
         NEW x, x = k[1]
  PROVE  Joined(a, InHand(TRUE, x), k1) = Joined(a, <<>>, k)
<1> DEFINE A == Len(a)
           s == Joined(a, InHand(TRUE, x), k1)
           t == Joined(a, <<>>, k)
           p == InHand(TRUE, x)
<1>1. 1 \in 1 .. m /\ m - 1 \in Nat /\ x \in Nat OBVIOUS
<1>2. p \in Seq(Nat) /\ Len(p) = 1 /\ p[1] = x BY <1>1, InHandIs
<1>3. <<>> \in Seq(Nat) /\ Len(<<>>) = 0 BY EmptySeq
<1> HIDE DEF p
<1>4. /\ s \in Seq(Nat) /\ Len(s) = A + 1 + (m - 1) /\ A \in Nat
      /\ \A i \in 1 .. A : s[i] = a[i]
      /\ \A i \in 1 .. 1 : s[A + i] = p[i]
      /\ \A i \in 1 .. m - 1 : s[A + 1 + i] = k1[i]
  <2> DEFINE r == Joined(a, p, k1)
             q == m - 1
  <2>1. q \in Nat /\ k1 \in [1 .. q -> Nat] /\ p \in Seq(Nat) BY <1>1, <1>2
  <2> HIDE DEF q
  <2>2. HasParts(r, a, p, k1, q) BY <2>1, JoinedIs
  <2>6. s = r BY DEF p
  <2> HIDE DEF r, s
  <2> QED BY <1>2, <2>2, <2>6 DEF q, HasParts
<1>5. /\ t \in Seq(Nat) /\ Len(t) = A + m
      /\ \A i \in 1 .. A : t[i] = a[i]
      /\ \A i \in 1 .. m : t[A + i] = k[i]
  <2> DEFINE z == <<>>
             r == Joined(a, z, k)
  <2>1. z \in Seq(Nat) /\ Len(z) = 0 BY <1>3
  <2> HIDE DEF z
  <2>2. HasParts(r, a, z, k, m) BY <2>1, JoinedIs
  <2>5. t = r BY DEF z
  <2> HIDE DEF r, t
  <2> QED BY <1>4, <2>1, <2>2, <2>5 DEF HasParts
<1> HIDE DEF s, t, A
<1>6. ASSUME NEW i \in 1 .. Len(s) PROVE s[i] = t[i]
  <2>1. i \in 1 .. A + m BY <1>1, <1>4
  <2>2. CASE i \in 1 .. A BY <1>4, <1>5, <2>2
  <2>3. CASE i = A + 1
    <3>1. s[i] = p[1] BY <1>4, <2>3
    <3>2. t[i] = k[1] BY <1>1, <1>5, <2>3
    <3> QED BY <1>2, <3>1, <3>2
  <2>4. CASE i > A + 1
    <3> DEFINE j == i - (A + 1)
    <3>1. j \in 1 .. m - 1 /\ i = A + 1 + j /\ j + 1 \in 1 .. m /\ i = A + (j + 1)
      BY <1>4, <2>1, <2>4
    <3> HIDE DEF j
    <3>2. s[i] = k1[j] /\ t[i] = k[j + 1] BY <1>4, <1>5, <3>1
    <3> QED BY <3>1, <3>2
  <2> QED BY <1>4, <2>1, <2>2, <2>3, <2>4
<1>7. s = t
  <2>1. Len(s) = Len(t) BY <1>4, <1>5
  <2> QED BY <1>4, <1>5, <1>6, <2>1, SeqEqual
<1> QED BY <1>7 DEF s, t

\* The one in the caller's hands is given to it.
LEMMA TakeJoined ==
  ASSUME NEW a \in Seq(Nat), NEW x \in Nat, NEW m \in Nat, NEW k \in [1 .. m -> Nat]
  PROVE  Joined(Append(a, x), <<>>, k) = Joined(a, InHand(TRUE, x), k)
<1>1. k \in Seq(Nat) BY MapIs
<1>2. Append(a, x) = a \o <<x>> BY AppendIsConcat
<1>3. Append(a, x) \o <<>> = Append(a, x)
  <2>1. Append(a, x) \in Seq(Nat) BY AppendProperties
  <2> QED BY <2>1, ConcatEmptySeq
<1> QED BY <1>2, <1>3 DEF Joined, InHand

\* Another one is put in the buffer.
Longer(s, t, x) ==
    /\ Len(s) \in Nat /\ Len(t) = Len(s) + 1
    /\ \A i \in 1 .. Len(s) : t[i] = s[i]
    /\ t[Len(s) + 1] = x

LEMMA PushJoined ==
  ASSUME NEW a \in Seq(Nat), NEW p \in Seq(Nat), NEW m \in Nat, NEW k \in [1 .. m -> Nat],
         NEW k1 \in [1 .. m + 1 -> Nat], \A i \in 1 .. m : k1[i] = k[i]
  PROVE  Longer(Joined(a, p, k), Joined(a, p, k1), k1[m + 1])
<1> DEFINE s == Joined(a, p, k)
           t == Joined(a, p, k1)
           q == m + 1
           A == Len(a)
           P == Len(p)
<1>1. q \in Nat /\ k1 \in [1 .. q -> Nat] OBVIOUS
<1> HIDE DEF q
<1>2. HasParts(s, a, p, k, m) /\ HasParts(t, a, p, k1, q) BY <1>1, JoinedIs
<1> HIDE DEF s, t, A, P
<1>3. /\ Len(s) = A + P + m /\ A \in Nat /\ P \in Nat
      /\ \A i \in 1 .. A : s[i] = a[i]
      /\ \A i \in 1 .. P : s[A + i] = p[i]
      /\ \A i \in 1 .. m : s[A + P + i] = k[i]
  BY <1>2 DEF HasParts, A, P
<1>4. /\ Len(t) = A + P + q
      /\ \A i \in 1 .. A : t[i] = a[i]
      /\ \A i \in 1 .. P : t[A + i] = p[i]
      /\ \A i \in 1 .. q : t[A + P + i] = k1[i]
  BY <1>2 DEF HasParts, A, P
<1>5. ASSUME NEW i \in 1 .. Len(s) PROVE t[i] = s[i]
  <2>1. i \in 1 .. A + P + m BY <1>3
  <2>2. CASE i \in 1 .. A BY <1>3, <1>4, <2>2
  <2>3. CASE i > A /\ i =< A + P
    <3> DEFINE j == i - A
    <3>1. j \in 1 .. P /\ i = A + j BY <1>3, <2>1, <2>3
    <3> HIDE DEF j
    <3> QED BY <1>3, <1>4, <3>1
  <2>4. CASE i > A + P
    <3> DEFINE j == i - (A + P)
    <3>1. j \in 1 .. m /\ j \in 1 .. q /\ i = A + P + j BY <1>3, <2>1, <2>4 DEF q
    <3> HIDE DEF j
    <3>2. t[i] = k1[j] /\ s[i] = k[j] BY <1>3, <1>4, <3>1
    <3> QED BY <3>1, <3>2
  <2> QED BY <1>3, <2>1, <2>2, <2>3, <2>4
<1>6. t[Len(s) + 1] = k1[m + 1]
  <2>1. q \in 1 .. q /\ Len(s) + 1 = A + P + q BY <1>1, <1>3 DEF q
  <2>2. t[A + P + q] = k1[q] BY <1>4, <2>1
  <2> QED BY <2>1, <2>2 DEF q
<1>7. Len(s) \in Nat /\ Len(t) = Len(s) + 1 BY <1>3, <1>4 DEF q
<1>8. Longer(s, t, k1[m + 1]) BY <1>5, <1>6, <1>7 DEF Longer
<1> QED BY <1>8 DEF s, t

\* The one that was taken out is lost.
LEMMA DropJoined ==
  ASSUME NEW a \in Seq(Nat), NEW p \in Seq(Nat), NEW m \in Nat, NEW k \in [1 .. m -> Nat],
         NEW k1 \in [1 .. 0 -> Nat]
  PROVE  /\ Len(Joined(a, p, k1)) =< Len(Joined(a, p, k)) /\ Len(Joined(a, p, k)) \in Nat
         /\ Len(Joined(a, p, k1)) \in Nat
         /\ \A i \in 1 .. Len(Joined(a, p, k1)) : Joined(a, p, k1)[i] = Joined(a, p, k)[i]
<1> DEFINE s == Joined(a, p, k)
           t == Joined(a, p, k1)
           q == 0
           A == Len(a)
           P == Len(p)
<1>1. q \in Nat /\ k1 \in [1 .. q -> Nat] /\ q = 0 OBVIOUS
<1> HIDE DEF q
<1>2. HasParts(s, a, p, k, m) /\ HasParts(t, a, p, k1, q) BY <1>1, JoinedIs
<1> HIDE DEF s, t, A, P
<1>3. /\ Len(s) = A + P + m /\ A \in Nat /\ P \in Nat
      /\ \A i \in 1 .. A : s[i] = a[i]
      /\ \A i \in 1 .. P : s[A + i] = p[i]
  BY <1>2 DEF HasParts, A, P
<1>4. /\ Len(t) = A + P + q
      /\ \A i \in 1 .. A : t[i] = a[i]
      /\ \A i \in 1 .. P : t[A + i] = p[i]
  BY <1>2 DEF HasParts, A, P
<1>5. ASSUME NEW i \in 1 .. Len(t) PROVE t[i] = s[i]
  <2>1. i \in 1 .. A + P BY <1>1, <1>3, <1>4
  <2>2. CASE i \in 1 .. A BY <1>3, <1>4, <2>2
  <2>3. CASE i > A /\ i =< A + P
    <3> DEFINE j == i - A
    <3>1. j \in 1 .. P /\ i = A + j BY <1>3, <2>1, <2>3
    <3> HIDE DEF j
    <3> QED BY <1>3, <1>4, <3>1
  <2> QED BY <1>3, <2>1, <2>2, <2>3
<1>6. Len(t) =< Len(s) /\ Len(s) \in Nat /\ Len(t) \in Nat BY <1>1, <1>3, <1>4
<1> QED BY <1>5, <1>6 DEF s, t

-----------------------------------------------------------------------------
(* The sections of a packet.  `base' sections were sent before them.       *)

IsSections(ls, base, m, u) ==
    LET k == base + m
        a == Len(u) - ls[k]
    IN /\ u \in Seq(Byte) /\ a \in Nat /\ Len(u) >= 1 /\ u[1] = <<base + 1, 1>>
       /\ \A p \in 1 .. Len(u) : u[p][1] \in base + 1 .. k /\ u[p][2] \in 1 .. ls[u[p][1]]
       /\ \A p \in 1 .. Len(u) - 1 : Follows(ls, u[p], u[p + 1])
       /\ \A j \in 1 .. ls[k] : u[a + j] = <<k, j>>
       /\ \A c \in base + 1 .. k : \E p \in 1 .. a + 1 : u[p] = <<c, 1>>

LEMMA OneSection ==
  ASSUME NEW ls \in Seq(SectionLens), NEW base \in Nat, base + 1 =< Len(ls)
  PROVE  IsSections(ls, base, 1, Section(base + 1, ls[base + 1]))
<1> DEFINE k == base + 1
           n == ls[k]
           u == Section(k, n)
<1>1. k \in Nat /\ k \in 1 .. Len(ls) /\ n \in Nat /\ n >= 2 BY LensIs
<1>2. u \in Seq(Byte) /\ Len(u) = n /\ \A i \in 1 .. n : u[i] = <<k, i>> BY <1>1, SectionIs
<1> HIDE DEF u, n, k
<1>3. \A i \in 1 .. n : u[i][1] = k /\ u[i][2] = i BY <1>2
<1>4. \A p \in 1 .. n : u[p][1] \in k .. k /\ u[p][2] \in 1 .. ls[u[p][1]]
  BY <1>1, <1>3 DEF n
<1>5. ASSUME NEW p \in 1 .. n - 1 PROVE Follows(ls, u[p], u[p + 1])
  <2>1. p \in 1 .. n /\ p + 1 \in 1 .. n /\ p < n /\ k # 0 BY <1>1
  <2>2. u[p][1] = k /\ u[p][2] = p /\ u[p + 1] = <<k, p + 1>> BY <1>2, <1>3, <2>1
  <2> QED BY <2>1, <2>2 DEF Follows, n
<1>6. u[1] = <<k, 1>> /\ Len(u) - n = 0 /\ 0 + 1 = 1 BY <1>1, <1>2
<1>7. \A j \in 1 .. n : u[0 + j] = <<k, j>> BY <1>1, <1>2
<1>8. \A c \in k .. k : \E p \in 1 .. 0 + 1 : u[p] = <<c, 1>> BY <1>1, <1>6
<1>9. Len(u) >= 1 /\ 0 \in Nat BY <1>1, <1>2
<1> QED BY <1>2, <1>4, <1>5, <1>6, <1>7, <1>8, <1>9 DEF IsSections, u, n, k

LEMMA MoreSections ==
  ASSUME NEW ls \in Seq(SectionLens), NEW base \in Nat, NEW m \in Nat, m >= 1,
         base + m + 1 =< Len(ls), NEW u, IsSections(ls, base, m, u)
  PROVE  IsSections(ls, base, m + 1, u \o Section(base + m + 1, ls[base + m + 1]))
<1> DEFINE k == base + m
           K == k + 1
           n == ls[K]
           v == Section(K, n)
           w == u \o v
           U == Len(u)
           x == ls[k]
           a == U - x
<1>1. /\ k \in Nat /\ K \in Nat /\ k \in 1 .. Len(ls) /\ K \in 1 .. Len(ls)
      /\ n \in Nat /\ n >= 2 /\ x \in Nat /\ x >= 2 /\ K # 0 /\ k # 0
  BY LensIs
<1>2. v \in Seq(Byte) /\ Len(v) = n /\ \A i \in 1 .. n : v[i] = <<K, i>> BY <1>1, SectionIs
<1>3. /\ u \in Seq(Byte) /\ a \in Nat /\ u[1] = <<base + 1, 1>> /\ U \in Nat /\ U >= 1
      /\ \A p \in 1 .. U : u[p][1] \in base + 1 .. k /\ u[p][2] \in 1 .. ls[u[p][1]]
      /\ \A p \in 1 .. U - 1 : Follows(ls, u[p], u[p + 1])
      /\ \A j \in 1 .. x : u[a + j] = <<k, j>>
      /\ \A c \in base + 1 .. k : \E p \in 1 .. a + 1 : u[p] = <<c, 1>>
  BY LenProperties DEF IsSections
<1> HIDE DEF v, n
<1>4. /\ w \in Seq(Byte) /\ Len(w) = U + n
      /\ \A i \in 1 .. U : w[i] = u[i]
      /\ \A i \in 1 .. n : w[U + i] = v[i]
  <2>1. u \in Seq(Byte) /\ v \in Seq(Byte) /\ Len(v) = n BY <1>2, <1>3
  <2>2. w \in Seq(Byte) /\ Len(w) = U + Len(v) BY <2>1, ConcatIs
  <2>3. \A i \in 1 .. U : w[i] = u[i] BY <2>1, ConcatIs
  <2>4. \A i \in 1 .. Len(v) : w[U + i] = v[i] BY <2>1, ConcatIs
  <2> HIDE DEF w, U, n
  <2> QED BY <2>1, <2>2, <2>3, <2>4
<1> HIDE DEF w, K, U, a, k, x
<1>0. x = ls[k] /\ U = a + x BY <1>1, <1>3 DEF a, x
<1>5. ASSUME NEW i \in 1 .. U PROVE w[i] = u[i] BY <1>4
<1>6. ASSUME NEW i \in 1 .. n
      PROVE  w[U + i] = <<K, i>> /\ w[U + i][1] = K /\ w[U + i][2] = i
  BY <1>2, <1>4
<1>7. ASSUME NEW p \in 1 .. U + n
      PROVE  p \in 1 .. U \/ \E i \in 1 .. n : p = U + i
  <2>1. p > U => p - U \in 1 .. n /\ p = U + (p - U) BY <1>1, <1>3
  <2> QED BY <1>3, <2>1
<1>8. \A p \in 1 .. U + n : w[p][1] \in base + 1 .. K /\ w[p][2] \in 1 .. ls[w[p][1]]
  <2> TAKE p \in 1 .. U + n
  <2>1. CASE p \in 1 .. U
    <3>1. w[p] = u[p] /\ u[p][1] \in base + 1 .. k /\ u[p][2] \in 1 .. ls[u[p][1]]
      BY <1>3, <1>5, <2>1
    <3> QED BY <1>1, <3>1 DEF K
  <2>2. CASE \E i \in 1 .. n : p = U + i
    <3>1. PICK i \in 1 .. n : p = U + i BY <2>2
    <3>2. w[p][1] = K /\ w[p][2] = i BY <1>6, <3>1
    <3>3. K \in base + 1 .. K BY <1>1 DEF K, k
    <3> QED BY <3>2, <3>3 DEF n
  <2> QED BY <1>7, <2>1, <2>2
<1>9. \A p \in 1 .. U + n - 1 : Follows(ls, w[p], w[p + 1])
  <2> TAKE p \in 1 .. U + n - 1
  <2>1. CASE p =< U - 1
    <3>1. p \in 1 .. U /\ p + 1 \in 1 .. U /\ p \in 1 .. U - 1 BY <1>3, <2>1
    <3>2. w[p] = u[p] /\ w[p + 1] = u[p + 1] BY <1>5, <3>1
    <3> QED BY <1>3, <3>1, <3>2
  <2>2. CASE p = U
    <3>1. a + x = U /\ x \in 1 .. x BY <1>0, <1>1
    <3>2. u[U] = <<k, x>> /\ w[U] = u[U]
      <4>1. U \in 1 .. U BY <1>3
      <4> QED BY <1>3, <1>5, <3>1, <4>1
    <3>3. w[U + 1] = <<K, 1>>
      <4>1. 1 \in 1 .. n BY <1>1
      <4> QED BY <1>6, <4>1
    <3>4. w[p][1] = k /\ w[p][2] = ls[k] /\ w[p + 1] = <<k + 1, 1>>
      BY <1>0, <2>2, <3>2, <3>3 DEF K
    <3> QED BY <1>0, <1>1, <3>4 DEF Follows
  <2>3. CASE p > U
    <3> DEFINE i == p - U
    <3>1. /\ i \in 1 .. n /\ i + 1 \in 1 .. n /\ p = U + i /\ p + 1 = U + (i + 1)
          /\ i < n /\ i \in Nat
      BY <1>1, <1>3, <2>3
    <3> HIDE DEF i
    <3>2. w[U + i][1] = K /\ w[U + i][2] = i BY <1>6, <3>1
    <3>3. w[U + (i + 1)] = <<K, i + 1>> BY <1>6, <3>1
    <3> QED BY <1>1, <3>1, <3>2, <3>3 DEF Follows, n
  <2> QED BY <1>1, <1>3, <2>1, <2>2, <2>3
<1>10. w[1] = <<base + 1, 1>>
  <2>1. 1 \in 1 .. U BY <1>3
  <2> QED BY <1>3, <1>5, <2>1
<1>11. \A c \in base + 1 .. K : \E p \in 1 .. U + 1 : w[p] = <<c, 1>>
  <2> TAKE c \in base + 1 .. K
  <2>1. CASE c = K
    <3>1. 1 \in 1 .. n /\ U + 1 \in 1 .. U + 1 BY <1>1, <1>3
    <3> QED BY <1>6, <2>1, <3>1
  <2>2. CASE c # K
    <3>1. c \in base + 1 .. k BY <1>1, <2>2 DEF K
    <3>2. PICK p \in 1 .. a + 1 : u[p] = <<c, 1>> BY <1>3, <3>1
    <3>3. a + 1 =< U
      <4>1. U = a + x /\ x \in Nat /\ x >= 2 /\ a \in Nat BY <1>0, <1>1, <1>3
      <4> QED BY <4>1
    <3>4. p \in 1 .. U /\ p \in 1 .. U + 1 BY <1>3, <3>3
    <3> QED BY <1>5, <3>2, <3>4
  <2> QED BY <2>1, <2>2
<1>12. Len(w) - n = U /\ U \in Nat /\ Len(w) >= 1 /\ U + n - 1 = Len(w) - 1 BY <1>1, <1>3, <1>4
<1>13. base + (m + 1) = K /\ base + m + 1 = K BY DEF K, k
<1>14. IsSections(ls, base, m + 1, w)
  BY <1>4, <1>6, <1>8, <1>9, <1>10, <1>11, <1>12, <1>13 DEF IsSections, n
<1> QED BY <1>13, <1>14 DEF w, v, n


\* f is the recursive function of FlattenSeq.
IsFlatten(f, seqs, q) == f = [i \in 1 .. q |-> IF i = 1 THEN seqs[i] ELSE f[i - 1] \o seqs[i]]

Flattens(f, seqs, q) ==
    /\ f = [i \in 1 .. q |-> f[i]] /\ f[1] = seqs[1]
    /\ \A i \in 2 .. q : f[i] = f[i - 1] \o seqs[i]

LEMMA FlattenIs ==
  ASSUME NEW f, NEW seqs, NEW q \in Nat, q >= 1
  PROVE  IsFlatten(f, seqs, q) <=> Flattens(f, seqs, q)
<1>1. ASSUME IsFlatten(f, seqs, q) PROVE Flattens(f, seqs, q)
  <2>1. f = [i \in 1 .. q |-> f[i]] BY <1>1 DEF IsFlatten
  <2>2. ASSUME NEW i \in 1 .. q PROVE f[i] = IF i = 1 THEN seqs[i] ELSE f[i - 1] \o seqs[i]
    BY <1>1 DEF IsFlatten
  <2>3. 1 \in 1 .. q OBVIOUS
  <2>4. f[1] = seqs[1] BY <2>2, <2>3
  <2>5. \A i \in 2 .. q : i \in 1 .. q /\ i # 1 OBVIOUS
  <2>6. \A i \in 2 .. q : f[i] = f[i - 1] \o seqs[i] BY <2>2, <2>5
  <2> QED BY <2>1, <2>4, <2>6 DEF Flattens
<1>2. ASSUME Flattens(f, seqs, q) PROVE IsFlatten(f, seqs, q)
  <2>1. f = [i \in 1 .. q |-> f[i]] BY <1>2 DEF Flattens
  <2>2. ASSUME NEW i \in 1 .. q PROVE f[i] = IF i = 1 THEN seqs[i] ELSE f[i - 1] \o seqs[i]
    <3>1. i = 1 \/ i \in 2 .. q OBVIOUS
    <3>2. f[1] = seqs[1] /\ \A j \in 2 .. q : f[j] = f[j - 1] \o seqs[j] BY <1>2 DEF Flattens
    <3> QED BY <3>1, <3>2
  <2>3. [i \in 1 .. q |-> f[i]]
          = [i \in 1 .. q |-> IF i = 1 THEN seqs[i] ELSE f[i - 1] \o seqs[i]]
    BY <2>2
  <2> QED BY <2>1, <2>3 DEF IsFlatten
<1> QED BY <1>1, <1>2

LEMMA FlattenExists ==
  ASSUME NEW ls \in Seq(SectionLens), NEW base \in Nat, NEW m \in Nat, m >= 1,
         base + m = Len(ls), NEW seqs,
         \A j \in 1 .. m : seqs[j] = Section(base + j, ls[base + j])
  PROVE  \E h : Flattens(h, seqs, m) /\ \A i \in 1 .. m : IsSections(ls, base, i, h[i])
<1> DEFINE Good(q) ==
             \E h : Flattens(h, seqs, q) /\ \A i \in 1 .. q : IsSections(ls, base, i, h[i])
           S == {q \in Nat : q >= 1 /\ q =< m => Good(q)}
<1>1. 0 \in S
  <2> HIDE DEF Good
  <2> QED OBVIOUS
<1>2. ASSUME NEW q \in Nat, q \in S PROVE q + 1 \in S
  <2> SUFFICES ASSUME q + 1 =< m PROVE Good(q + 1)
    <3> HIDE DEF Good
    <3> QED OBVIOUS
  <2>1. CASE q = 0
    <3> DEFINE h == [i \in 1 .. 1 |-> seqs[i]]
    <3>1. h[1] = seqs[1] OBVIOUS
    <3>2. seqs[1] = Section(base + 1, ls[base + 1]) /\ base + 1 =< Len(ls) BY <2>1
    <3>3. IsSections(ls, base, 1, seqs[1]) BY <3>2, OneSection
    <3>4. h = [i \in 1 .. 1 |-> h[i]]
      <4>1. DOMAIN h = 1 .. 1 /\ \A i \in 1 .. 1 : h[i] = seqs[i] OBVIOUS
      <4> QED BY <4>1, Zenon
    <3> HIDE DEF h
    <3>5. Flattens(h, seqs, 1)
      <4>1. 2 .. 1 = {} OBVIOUS
      <4> QED BY <3>1, <3>4, <4>1 DEF Flattens
    <3>6. \A i \in 1 .. 1 : IsSections(ls, base, i, h[i])
      <4>1. \A i \in 1 .. 1 : i = 1 OBVIOUS
      <4> QED BY <3>1, <3>3, <4>1
    <3>7. Good(1) BY <3>5, <3>6
    <3> HIDE DEF Good
    <3> QED BY <2>1, <3>7
  <2>2. CASE q >= 1
    <3>0. Good(q)
      <4> HIDE DEF Good
      <4> QED BY <1>2, <2>2
    <3>1. PICK h : Flattens(h, seqs, q) /\ \A i \in 1 .. q : IsSections(ls, base, i, h[i])
      BY <3>0
    <3> DEFINE g == [i \in 1 .. q + 1 |-> IF i = q + 1 THEN h[q] \o seqs[q + 1] ELSE h[i]]
    <3>2. g = [i \in 1 .. q + 1 |-> g[i]] OBVIOUS
    <3>3. g[q + 1] = h[q] \o seqs[q + 1]
      <4>1. q + 1 \in 1 .. q + 1 OBVIOUS
      <4> QED BY <4>1, Zenon
    <3>4. \A i \in 1 .. q : g[i] = h[i] OBVIOUS
    <3> HIDE DEF g
    <3>5. g[1] = seqs[1]
      <4>1. 1 \in 1 .. q BY <2>2
      <4> QED BY <3>1, <3>4, <4>1 DEF Flattens
    <3>6. ASSUME NEW i \in 2 .. q + 1 PROVE g[i] = g[i - 1] \o seqs[i]
      <4>1. CASE i = q + 1
        <5>1. i - 1 = q /\ q \in 1 .. q BY <2>2, <4>1
        <5> QED BY <3>3, <3>4, <4>1, <5>1
      <4>2. CASE i # q + 1
        <5>1. i \in 1 .. q /\ i - 1 \in 1 .. q /\ i \in 2 .. q BY <4>2
        <5>2. g[i] = h[i] /\ g[i - 1] = h[i - 1] BY <3>4, <5>1
        <5>3. h[i] = h[i - 1] \o seqs[i] BY <3>1, <5>1 DEF Flattens
        <5> QED BY <5>2, <5>3
      <4> QED BY <4>1, <4>2
    <3>7. Flattens(g, seqs, q + 1) BY <3>2, <3>5, <3>6 DEF Flattens
    <3>8. ASSUME NEW i \in 1 .. q + 1 PROVE IsSections(ls, base, i, g[i])
      <4>1. CASE i = q + 1
        <5>1. q \in 1 .. q /\ q + 1 \in 1 .. m /\ base + q + 1 =< Len(ls)
              /\ base + (q + 1) = base + q + 1
          BY <2>2
        <5>2. IsSections(ls, base, q, h[q]) BY <3>1, <5>1
        <5>3. seqs[q + 1] = Section(base + q + 1, ls[base + q + 1]) BY <5>1
        <5>4. IsSections(ls, base, q + 1, h[q] \o Section(base + q + 1, ls[base + q + 1]))
          BY <2>2, <5>1, <5>2, MoreSections
        <5> QED BY <3>3, <4>1, <5>3, <5>4
      <4>2. CASE i # q + 1
        <5>1. i \in 1 .. q BY <4>2
        <5> QED BY <3>1, <3>4, <5>1
      <4> QED BY <4>1, <4>2
    <3> QED BY <3>7, <3>8
  <2> QED BY <2>1, <2>2
<1>3. Nat \subseteq S
  <2> HIDE DEF S
  <2> QED BY <1>1, <1>2, Induction
<1>4. Good(m)
  <2> HIDE DEF Good
  <2> QED BY <1>3
<1> QED BY <1>4

LEMMA SectionsAre ==
  ASSUME NEW ls \in Seq(SectionLens), NEW base \in Nat, NEW m \in Nat, m >= 1,
         base + m = Len(ls), NEW seqs, Len(seqs) = m,
         \A j \in 1 .. m : seqs[j] = Section(base + j, ls[base + j])
  PROVE  IsSections(ls, base, m, FlattenSeq(seqs))
<1>1. PICK h : Flattens(h, seqs, m) /\ \A i \in 1 .. m : IsSections(ls, base, i, h[i])
  BY FlattenExists
<1> DEFINE f == CHOOSE g : IsFlatten(g, seqs, Len(seqs))
<1>2. FlattenSeq(seqs) = f[Len(seqs)] BY DEF FlattenSeq, IsFlatten
<1>3. IsFlatten(h, seqs, m) BY <1>1, FlattenIs
<1>4. IsFlatten(f, seqs, m) BY <1>3
<1>5. Flattens(f, seqs, m) BY <1>4, FlattenIs
<1> HIDE DEF f
<1> DEFINE T == {q \in Nat : q >= 1 /\ q =< m => f[q] = h[q]}
<1>6. 0 \in T OBVIOUS
<1>7. ASSUME NEW q \in Nat, q \in T PROVE q + 1 \in T
  <2> SUFFICES ASSUME q + 1 =< m PROVE f[q + 1] = h[q + 1] OBVIOUS
  <2>1. CASE q = 0 BY <1>1, <1>5, <2>1 DEF Flattens
  <2>2. CASE q # 0
    <3>1. f[q] = h[q] /\ q + 1 \in 2 .. m /\ (q + 1) - 1 = q BY <1>7, <2>2
    <3>2. f[q + 1] = f[(q + 1) - 1] \o seqs[q + 1]
      <4>1. \A i \in 2 .. m : f[i] = f[i - 1] \o seqs[i] BY <1>5 DEF Flattens
      <4> QED BY <3>1, <4>1
    <3>3. h[q + 1] = h[(q + 1) - 1] \o seqs[q + 1]
      <4>1. \A i \in 2 .. m : h[i] = h[i - 1] \o seqs[i] BY <1>1 DEF Flattens
      <4> QED BY <3>1, <4>1
    <3> QED BY <3>1, <3>2, <3>3
  <2> QED BY <2>1, <2>2
<1>8. Nat \subseteq T
  <2> HIDE DEF T
  <2> QED BY <1>6, <1>7, Induction
<1>9. f[m] = h[m] /\ m \in 1 .. m BY <1>8
<1> QED BY <1>1, <1>2, <1>9


\* w is the first q bytes of s, or all of them and then stuffing; left is the others.
IsSplit(s, q, w, left) ==
    /\ w \in Seq(Byte) /\ Len(w) = q
    /\ \A i \in 1 .. q : w[i] = IF i =< Len(s) THEN s[i] ELSE Stuffing
    /\ left \in Seq(Byte) /\ Len(left) = IF q =< Len(s) THEN Len(s) - q ELSE 0
    /\ \A i \in 1 .. Len(left) : left[i] = s[q + i]

\* v is the beginning of a packet of sections, left what does not fit in it.
Opens(more, base, q, v, left) ==
    /\ IsRest(more, left) /\ v \in Seq(SentBytes(more, Len(left)))
    /\ IsRun(more, v) /\ IsCutAt(more, Len(left), v)
    /\ v # <<>> /\ v[1] = <<base + 1, 1>>
    /\ \A i \in 1 .. q : v[i][1] # 0 => base < v[i][1]
    /\ \A c \in base + 1 .. Len(more) : \E i \in 1 .. q : v[i] = <<c, 1>>

LEMMA BeginningIs ==
  ASSUME NEW more \in Seq(SectionLens), NEW base \in Nat, NEW m \in Nat, m >= 1,
         base + m = Len(more), NEW u, IsSections(more, base, m, u),
         NEW q \in Nat, Len(u) - more[Len(more)] < q,
         NEW v, NEW left, IsSplit(u, q, v, left)
  PROVE  Opens(more, base, q, v, left)
<1>0. /\ v \in Seq(Byte) /\ Len(v) = q
      /\ \A i \in 1 .. q : v[i] = IF i =< Len(u) THEN u[i] ELSE Stuffing
      /\ left \in Seq(Byte) /\ Len(left) = IF q =< Len(u) THEN Len(u) - q ELSE 0
      /\ \A i \in 1 .. Len(left) : left[i] = u[q + i]
  BY DEF IsSplit
<1> USE <1>0
<1> DEFINE K == Len(more)
           x == more[K]
           U == Len(u)
           a == U - x
           n == Len(left)
<1>1. /\ K \in Nat /\ K \in 1 .. K /\ K # 0 /\ x \in Nat /\ x >= 2 /\ base + m = K
      /\ U \in Nat /\ U >= 1 /\ n \in Nat
  <2>1. u \in Seq(Byte) /\ U >= 1 BY DEF IsSections
  <2>2. K \in Nat /\ K \in 1 .. K /\ K # 0 BY LensIs
  <2>3. x \in Nat /\ x >= 2 BY <2>2, LensIs
  <2> QED BY <2>1, <2>2, <2>3, LenProperties
<1>2. /\ a \in Nat /\ u[1] = <<base + 1, 1>> /\ u \in Seq(Byte)
      /\ \A p \in 1 .. U : u[p][1] \in base + 1 .. K /\ u[p][2] \in 1 .. more[u[p][1]]
      /\ \A p \in 1 .. U - 1 : Follows(more, u[p], u[p + 1])
      /\ \A j \in 1 .. x : u[a + j] = <<K, j>>
      /\ \A c \in base + 1 .. K : \E p \in 1 .. a + 1 : u[p] = <<c, 1>>
  BY DEF IsSections
<1>3. a < q /\ q >= 1 /\ n = (IF q =< U THEN U - q ELSE 0) /\ (\A i \in 1 .. n : left[i] = u[q + i])
  BY <1>2
<1>4. \A i \in 1 .. q : v[i] = IF i =< U THEN u[i] ELSE Stuffing OBVIOUS
<1>5. U = a + x /\ x = more[K]
  <2>1. \A s, t \in Nat : s = (s - t) + t OBVIOUS
  <2> QED BY <1>1, <2>1
<1>5a. ASSUME NEW p \in 1 .. U PROVE u[p][1] \in base + 1 .. K /\ u[p][2] \in 1 .. more[u[p][1]]
  BY <1>2
<1>5b. ASSUME NEW p \in 1 .. U PROVE u[p] = <<u[p][1], u[p][2]>>
  <2>1. u[p] \in Byte BY <1>1, <1>2, ElementOfSeq
  <2> QED BY <2>1, ByteIs
<1> HIDE DEF K, x, U, a, n
<1>6. ASSUME NEW i \in 1 .. q PROVE (i =< U => v[i] = u[i] /\ i \in 1 .. U) /\ (U < i => v[i] = Stuffing)
  BY <1>1, <1>4
<1>7. n =< x - 1
  <2>1. U = a + x /\ a \in Nat /\ a < q /\ x >= 2 /\ x \in Nat /\ n = (IF q =< U THEN U - q ELSE 0)
    BY <1>1, <1>2, <1>3, <1>5
  <2> QED BY <2>1
<1>8. IsRest(more, left)
  <2>1. CASE n = 0 BY <2>1, EmptySeq DEF n, IsRest
  <2>2. CASE n # 0
    <3>1. n = U - q /\ q =< U BY <1>1, <1>3, <2>2
    <3>2. ASSUME NEW i \in 1 .. n PROVE left[i] = <<K, x - n + i>>
      <4> DEFINE j == x - n + i
      <4>1. j \in 1 .. x /\ a + j = q + i
        <5>1. U = a + x /\ a \in Nat /\ x \in Nat /\ n \in Nat /\ n = U - q /\ n =< x - 1
          BY <1>1, <1>2, <1>5, <1>7, <3>1
        <5> QED BY <5>1
      <4> HIDE DEF j
      <4>2. left[i] = u[q + i] /\ u[a + j] = <<K, j>> BY <1>2, <1>3, <4>1
      <4> QED BY <4>1, <4>2 DEF j
    <3>3. left = [i \in 1 .. n |-> left[i]]
      <4>1. left \in [1 .. n -> Byte] BY <1>1, LenProperties DEF n
      <4> QED BY <4>1
    <3>4. left = [i \in 1 .. n |-> <<K, x - n + i>>]
      <4>1. [i \in 1 .. n |-> left[i]] = [i \in 1 .. n |-> <<K, x - n + i>>] BY <3>2
      <4> QED BY <3>3, <4>1
    <3>5. n \in 1 .. x - 1 /\ K > 0 BY <1>1, <1>7, <2>2
    <3> QED BY <3>4, <3>5 DEF IsRest, n, x, K
  <2> QED BY <2>1, <2>2
<1>9. ASSUME NEW i \in 1 .. q, i =< U, u[i][1] = K PROVE u[i][2] =< x - n
  <2>1. CASE n = 0
    <3>1. i \in 1 .. U BY <1>1, <1>9
    <3>2. u[i][2] \in 1 .. more[u[i][1]] BY <1>5a, <3>1
    <3>3. u[i][2] \in 1 .. x BY <1>5, <1>9, <3>2
    <3> DEFINE w == u[i][2]
    <3>4. w \in 1 .. x BY <3>3
    <3> HIDE DEF w
    <3>5. w =< x - n BY <1>1, <2>1, <3>4
    <3> QED BY <3>5 DEF w
  <2>2. CASE n # 0 /\ i > a
    <3> DEFINE j == i - a
    <3>1. j \in 1 .. x /\ a + j = i /\ j =< x - n
      <4>1. /\ U = a + x /\ a \in Nat /\ x \in Nat /\ n \in Nat /\ n = (IF q =< U THEN U - q ELSE 0)
            /\ i \in Nat /\ i =< q /\ i > a /\ n # 0 /\ i =< U /\ U \in Nat
        BY <1>1, <1>2, <1>3, <1>5, <1>9, <2>2
      <4> QED BY <4>1
    <3> HIDE DEF j
    <3>2. u[a + j] = <<K, j>> BY <1>2, <3>1
    <3> QED BY <3>1, <3>2
  <2>3. CASE n # 0 /\ i =< a
    \* A byte of the last section after the first one of it
    <3>1. U = a + x /\ x >= 2 /\ a \in Nat /\ x \in Nat BY <1>1, <1>2, <1>5
    <3>2. i \in 1 .. U /\ a + 1 \in i .. U /\ a + 1 \in 1 .. U /\ 1 \in 1 .. x BY <1>1, <2>3, <3>1
    <3>3. u[a + 1] = <<K, 1>> BY <1>2, <3>2
    <3>4. FALSE
      <4> DEFINE w == u[i][2]
      <4>1. w \in Nat /\ w >= 1 /\ w =< x
        <5>1. w \in 1 .. more[u[i][1]] BY <1>2, <3>2
        <5>2. w \in 1 .. x BY <1>5, <1>9, <5>1
        <5> HIDE DEF w
        <5> QED BY <1>1, <5>2
      <4>2. ASSUME NEW j \in Nat, i + j =< a + 1 PROVE u[i + j] = <<K, w + j>>
        <5> HIDE DEF w
        <5> DEFINE S == {j1 \in Nat : i + j1 =< a + 1 => u[i + j1] = <<K, w + j1>>}
        <5>1. 0 \in S
          <6>1. u[i] = <<K, w>> BY <1>9, <1>5b, <3>2 DEF w
          <6>2. i + 0 = i /\ w + 0 = w BY <3>2, <4>1
          <6> QED BY <6>1, <6>2
        <5>2. ASSUME NEW j1 \in Nat, j1 \in S PROVE j1 + 1 \in S
          <6> SUFFICES ASSUME i + (j1 + 1) =< a + 1 PROVE u[i + (j1 + 1)] = <<K, w + (j1 + 1)>>
            OBVIOUS
          <6> DEFINE p == i + j1
          <6>1. /\ p =< a + 1 /\ p \in 1 .. U - 1 /\ p + 1 = i + (j1 + 1) /\ p + 1 \in 1 .. U
                /\ p \in 1 .. U
            BY <1>1, <3>1, <3>2
          <6>2. u[p] = <<K, w + j1>> BY <5>2, <6>1
          <6> HIDE DEF p
          <6>3. Follows(more, u[p], u[p + 1]) BY <1>2, <6>1
          <6>4. u[p][1] = K /\ u[p][2] = w + j1 BY <6>2
          <6>5. u[p + 1][1] \in base + 1 .. K BY <1>2, <6>1
          <6>6. u[p + 1] = <<K, (w + j1) + 1>>
            <7>1. CASE w + j1 < x BY <1>1, <1>5, <6>3, <6>4, <7>1 DEF Follows
            <7>2. CASE ~ (w + j1 < x)
              <8>1. u[p + 1][1] = 0 \/ u[p + 1] = <<K + 1, 1>>
                BY <1>1, <1>5, <6>3, <6>4, <7>2 DEF Follows
              <8>2. u[p + 1][1] = 0 \/ u[p + 1][1] = K + 1 BY <8>1
              <8> QED BY <1>1, <6>5, <8>2
            <7> QED BY <7>1, <7>2
          <6>7. (w + j1) + 1 = w + (j1 + 1) BY <4>1
          <6> QED BY <6>1, <6>6, <6>7
        <5>3. Nat \subseteq S
          <6> HIDE DEF S
          <6> QED BY <5>1, <5>2, Induction
        <5> QED BY <4>2, <5>3
      <4> DEFINE j == a + 1 - i
      <4>3. j \in Nat /\ i + j = a + 1 /\ j >= 1 BY <2>3, <3>1, <3>2
      <4> HIDE DEF j
      <4> HIDE DEF w
      <4>4. u[i + j] = <<K, w + j>>
        <5>1. i + j =< a + 1 BY <3>1, <4>3
        <5> QED BY <4>2, <4>3, <5>1
      <4>5. w + j = 1
        <5>1. <<K, w + j>> = <<K, 1>> BY <3>3, <4>3, <4>4
        <5> QED BY <5>1
      <4> QED BY <4>1, <4>3, <4>5
    <3> QED BY <3>4
  <2> QED BY <1>1, <1>2, <2>1, <2>2, <2>3
<1>10. v \in Seq(SentBytes(more, n))
  <2>1. ASSUME NEW i \in 1 .. q PROVE v[i] \in SentBytes(more, n)
    <3>1. CASE i =< U
      <4>1. v[i] = u[i] /\ i \in 1 .. U BY <1>6, <3>1
      <4>2. u[i][1] \in base + 1 .. K /\ u[i][2] \in 1 .. more[u[i][1]] BY <1>5a, <4>1
      <4> DEFINE c == u[i][1]
                 w == u[i][2]
      <4>3. u[i] = <<c, w>> /\ c \in Nat /\ w \in Nat BY <1>5b, <4>1, <4>2
      <4>4. c \in 1 .. K /\ w >= 1 /\ w =< more[c]
        <5>1. c \in 1 .. K BY <1>1, <4>2
        <5>2. more[c] \in Nat BY <5>1, LensIs DEF K
        <5> QED BY <4>2, <5>1, <5>2
      <4>5. c = K => w =< x - n BY <1>9, <3>1
      <4> HIDE DEF c, w
      <4>6. <<c, w>> \in SentBytes(more, n)
        <5>1. c = Len(more) => w =< more[c] - n BY <4>5 DEF K, x
        <5>2. c \in 1 .. Len(more) BY <4>4 DEF K
        <5> QED BY <1>1, <4>3, <4>4, <5>1, <5>2, IsSent
      <4> QED BY <4>1, <4>3, <4>6
    <3>2. CASE U < i BY <1>6, <3>2, NullSent
    <3> QED BY <1>1, <3>1, <3>2
  <2>2. v \in [1 .. q -> Byte] BY LenProperties
  <2>3. v \in [1 .. q -> SentBytes(more, n)] BY <2>1, <2>2
  <2> QED BY <2>3, MapIs
<1>11. v[1] = <<base + 1, 1>> /\ v # <<>>
  <2>1. 1 \in 1 .. q /\ 1 =< U /\ q # 0 BY <1>1, <1>3
  <2>2. v[1] = u[1] BY <1>6, <2>1
  <2> QED BY <1>2, <2>1, <2>2, EmptySeq
<1>12. IsRun(more, v)
  <2>1. v[1][1] # 0 /\ v[1][2] = 1 BY <1>11
  <2>2. ASSUME NEW i \in 1 .. q - 1 PROVE Follows(more, v[i], v[i + 1])
    <3>1. i \in 1 .. q /\ i + 1 \in 1 .. q BY <1>3
    <3>2. CASE i < U
      <4>1. i \in 1 .. U - 1 /\ i =< U /\ i + 1 =< U BY <1>1, <3>2
      <4>2. v[i] = u[i] /\ v[i + 1] = u[i + 1] BY <1>6, <3>1, <4>1
      <4> QED BY <1>2, <4>1, <4>2
    <3>3. CASE i = U
      <4>1. v[i] = u[U] /\ v[i + 1] = Stuffing
        <5>1. i =< U /\ U < i + 1 BY <1>1, <3>3
        <5> QED BY <1>6, <3>1, <3>3, <5>1
      <4>2. u[U] = <<K, x>>
        <5>1. x \in 1 .. x BY <1>1
        <5> QED BY <1>2, <1>5, <5>1
      <4>3. v[i][1] = K /\ v[i][2] = x /\ v[i + 1][1] = 0 BY <4>1, <4>2, NullSent
      <4>4. ~ (x < more[K]) BY <1>1, <1>5
      <4> QED BY <1>1, <4>3, <4>4 DEF Follows
    <3>4. CASE i > U
      <4>1. v[i] = Stuffing /\ v[i + 1] = Stuffing BY <1>1, <1>6, <3>1, <3>4
      <4> QED BY <4>1, NullSent DEF Follows
    <3> QED BY <1>1, <3>2, <3>3, <3>4
  <2> QED BY <1>11, <2>1, <2>2 DEF IsRun
<1>13. IsCutAt(more, n, v)
  <2>1. q \in 1 .. q BY <1>3
  <2>2. CASE q > U
    <3>1. v[q] = Stuffing BY <1>6, <2>1, <2>2
    <3> QED BY <3>1, NullSent DEF IsCutAt
  <2>3. CASE q =< U
    <3> DEFINE j == q - a
    <3>1. j \in 1 .. x /\ a + j = q /\ j = x - n
      <4>1. U = a + x /\ a \in Nat /\ x \in Nat /\ n = U - q /\ a < q BY <1>1, <1>2, <1>3, <1>5, <2>3
      <4> QED BY <2>3, <4>1
    <3> HIDE DEF j
    <3>2. v[q] = <<K, j>>
      <4>1. v[q] = u[q] BY <1>6, <2>1, <2>3
      <4> QED BY <1>2, <3>1, <4>1
    <3>3. v[q][1] = Len(more) /\ v[q][2] = more[Len(more)] - n BY <3>1, <3>2 DEF K, x
    <3> QED BY <3>3 DEF IsCutAt
  <2> QED BY <1>1, <2>2, <2>3
<1>14. \A i \in 1 .. q : v[i][1] # 0 => base < v[i][1]
  <2> TAKE i \in 1 .. q
  <2>1. CASE i =< U
    <3>1. v[i] = u[i] /\ u[i][1] \in base + 1 .. K BY <1>2, <1>6, <2>1
    <3> QED BY <1>1, <3>1
  <2>2. CASE U < i BY <1>6, <2>2, NullSent
  <2> QED BY <1>1, <2>1, <2>2
<1>15. \A c \in base + 1 .. K : \E i \in 1 .. q : v[i] = <<c, 1>>
  <2> TAKE c \in base + 1 .. K
  <2>1. PICK p \in 1 .. a + 1 : u[p] = <<c, 1>> BY <1>2
  <2>2. p \in 1 .. q /\ p =< U
    <3>1. U = a + x /\ x >= 2 /\ a \in Nat /\ x \in Nat /\ a < q BY <1>1, <1>2, <1>3, <1>5
    <3> QED BY <3>1
  <2> QED BY <1>6, <2>1, <2>2
<1> QED BY <1>8, <1>10, <1>11, <1>12, <1>13, <1>14, <1>15 DEF Opens, n, K


\* The end of a section
\* w is the end of a section of which the bytes r were left to send.
EndOf(ls, r, q, w, left) ==
    /\ IsRest(ls, left) /\ IsEnding(ls, w) /\ w \in Seq(SentBytes(ls, Len(left)))
    /\ r # <<>> /\ q >= 1 => w # <<>> /\ w[1] = <<Len(ls), ls[Len(ls)] - Len(r) + 1>>
    /\ \A i \in 1 .. q : w[i][1] # 0 => w[i][1] = Len(ls)

LEMMA EndingIs ==
  ASSUME NEW ls \in Seq(SectionLens), NEW r \in Seq(Byte), IsRest(ls, r), NEW q \in Nat,
         NEW w, NEW left, IsSplit(r, q, w, left)
  PROVE  EndOf(ls, r, q, w, left)
<1>0. /\ w \in Seq(Byte) /\ Len(w) = q
      /\ \A i \in 1 .. q : w[i] = IF i =< Len(r) THEN r[i] ELSE Stuffing
      /\ left \in Seq(Byte) /\ Len(left) = IF q =< Len(r) THEN Len(r) - q ELSE 0
      /\ \A i \in 1 .. Len(left) : left[i] = r[q + i]
  BY DEF IsSplit
<1> USE <1>0
<1> DEFINE K == Len(ls)
           x == ls[K]
           R == Len(r)
           n == Len(left)
<1>1. /\ K \in Nat /\ R \in Nat /\ n \in Nat /\ n = (IF q =< R THEN R - q ELSE 0)
      /\ \A i \in 1 .. n : left[i] = r[q + i]
  BY LenProperties
<1>2. \A i \in 1 .. q : w[i] = IF i =< R THEN r[i] ELSE Stuffing OBVIOUS
<1>3. r = <<>> <=> R = 0 BY EmptySeq
<1>4. r # <<>> => /\ K \in 1 .. K /\ x \in Nat /\ R \in 1 .. x - 1
                  /\ \A i \in 1 .. R : r[i] = <<K, x - R + i>>
  <2> SUFFICES ASSUME r # <<>>
               PROVE  /\ K \in 1 .. K /\ x \in Nat /\ R \in 1 .. x - 1
                      /\ \A i \in 1 .. R : r[i] = <<K, x - R + i>>
    OBVIOUS
  <2>1. K > 0 /\ R \in 1 .. x - 1 BY DEF IsRest
  <2>2. K \in 1 .. K /\ x \in Nat
    <3>1. K \in 1 .. K BY <1>1, <2>1
    <3> QED BY <3>1, LensIs
  <2>3. \A i \in 1 .. R : r[i] = <<K, x - R + i>>
    <3>1. r = [i \in 1 .. R |-> <<K, x - R + i>>] BY DEF IsRest
    <3> HIDE DEF K, x, R
    <3> QED BY <3>1
  <2> QED BY <2>1, <2>2, <2>3
<1>5. left \in [1 .. n -> Byte] /\ w \in [1 .. q -> Byte] BY <1>1, LenProperties
<1>6. n = 0 => left = <<>> BY EmptySeq
<1>7. q = 0 <=> w = <<>> BY EmptySeq
<1> HIDE DEF K, x, R, n
<1>8. IsRest(ls, left)
  <2>1. CASE n = 0 BY <1>6, <2>1 DEF IsRest
  <2>2. CASE n # 0
    <3>1. n = R - q /\ q =< R /\ r # <<>> BY <1>1, <1>3, <2>2
    <3>2. ASSUME NEW i \in 1 .. n PROVE left[i] = <<K, x - n + i>>
      <4>1. q + i \in 1 .. R /\ x - R + (q + i) = x - n + i BY <1>1, <1>4, <3>1
      <4> QED BY <1>1, <1>4, <3>1, <4>1
    <3>3. left = [i \in 1 .. n |-> left[i]] BY <1>5
    <3>4. [i \in 1 .. n |-> left[i]] = [i \in 1 .. n |-> <<K, x - n + i>>] BY <3>2
    <3>5. n \in 1 .. x - 1 /\ K > 0
      <4>1. R \in 1 .. x - 1 /\ x \in Nat /\ K \in 1 .. K BY <1>4, <3>1
      <4> QED BY <1>1, <2>2, <3>1, <4>1
    <3>6. left = [i \in 1 .. n |-> <<K, x - n + i>>] BY <3>3, <3>4
    <3> QED BY <3>5, <3>6 DEF IsRest, n, x, K
  <2> QED BY <2>1, <2>2
<1>9. ASSUME NEW i \in 1 .. q PROVE i > R => w[i] = Stuffing
  BY <1>1, <1>2
<1>10. ASSUME NEW i \in 1 .. q, i =< R
       PROVE  /\ r # <<>> /\ w[i] = <<K, x - R + i>> /\ w[i][1] = K /\ w[i][2] = x - R + i
              /\ K # 0 /\ x - R + i \in Nat
  <2>1. i \in 1 .. R /\ R # 0 BY <1>1, <1>10
  <2>2. r # <<>> BY <1>3, <2>1
  <2>3. w[i] = r[i] BY <1>2, <1>10
  <2>4. r[i] = <<K, x - R + i>> BY <1>4, <2>1, <2>2
  <2>5. R \in 1 .. x - 1 /\ x \in Nat /\ K \in 1 .. K BY <1>4, <2>2
  <2>6. K # 0 /\ x - R + i \in Nat BY <1>1, <2>5
  <2> QED BY <2>2, <2>3, <2>4, <2>6
<1>11. r # <<>> /\ q >= 1 => w # <<>> /\ w[1] = <<K, x - R + 1>>
  <2>1. r # <<>> /\ q >= 1 => 1 \in 1 .. q /\ 1 =< R /\ q # 0 BY <1>1, <1>3
  <2> QED BY <1>7, <1>10, <2>1
<1>12. \A i \in 1 .. q : w[i][1] # 0 => w[i][1] = K
  <2> TAKE i \in 1 .. q
  <2>1. CASE i =< R BY <1>10, <2>1
  <2>2. CASE i > R BY <1>9, <2>2, NullSent
  <2> QED BY <1>1, <2>1, <2>2
<1>13. IsEnding(ls, w)
  <2>1. CASE r = <<>> \/ q = 0
    <3>1. \A i \in 1 .. q : w[i][1] = 0
      <4>1. \A i \in 1 .. q : i > R BY <1>1, <1>3, <2>1
      <4> QED BY <1>9, <4>1, NullSent
    <3> QED BY <3>1 DEF IsEnding, AllNull
  <2>2. CASE r # <<>> /\ q # 0
    <3>1. q >= 1 /\ 1 \in 1 .. q BY <2>2
    <3>2. w # <<>> /\ w[1] = <<K, x - R + 1>> BY <1>11, <2>2, <3>1
    <3>3. w[1][1] = K /\ w[1][2] = x - R + 1 BY <3>2
    <3>4. R \in 1 .. x - 1 /\ x \in Nat /\ K \in 1 .. K BY <1>4, <2>2
    <3> DEFINE h == x - R + 1
    <3>5. h > 1 /\ h \in Nat /\ K # 0 /\ \A i \in 1 .. q : h + i - 1 = x - R + i
      BY <1>1, <3>4
    <3>6. ASSUME NEW i \in 1 .. q
          PROVE  w[i] = IF h + i - 1 =< x THEN <<K, h + i - 1>> ELSE Stuffing
      <4>1. h + i - 1 = x - R + i BY <3>5
      <4>2. CASE i =< R
        <5>1. w[i] = <<K, x - R + i>> BY <1>10, <4>2
        <5>2. x - R + i =< x BY <1>1, <3>4, <4>2
        <5> QED BY <4>1, <5>1, <5>2
      <4>3. CASE i > R
        <5>1. w[i] = Stuffing BY <1>9, <4>3
        <5>2. ~ (x - R + i =< x) BY <1>1, <3>4, <4>3
        <5> QED BY <4>1, <5>1, <5>2
      <4> QED BY <1>1, <4>2, <4>3
    <3>7. w[1][2] = h /\ ls[w[1][1]] = x BY <3>3 DEF x
    <3> HIDE DEF h
    <3>8. \A i \in 1 .. q :
            w[i] = IF w[1][2] + i - 1 =< ls[w[1][1]] THEN <<w[1][1], w[1][2] + i - 1>>
                   ELSE Stuffing
      BY <3>3, <3>6, <3>7
    <3> QED BY <3>2, <3>3, <3>5, <3>7, <3>8 DEF IsEnding
  <2> QED BY <2>1, <2>2
<1>14. w \in Seq(SentBytes(ls, n))
  <2>1. ASSUME NEW i \in 1 .. q PROVE w[i] \in SentBytes(ls, n)
    <3>1. CASE i > R BY <1>9, <3>1, NullSent
    <3>2. CASE i =< R
      <4> DEFINE j == x - R + i
      <4>1. r # <<>> /\ w[i] = <<K, j>> /\ j \in Nat BY <1>10, <3>2
      <4>2. R \in 1 .. x - 1 /\ x \in Nat /\ K \in 1 .. K BY <1>4, <4>1
      <4>3. j >= 1 /\ j =< x /\ j =< x - n BY <1>1, <3>2, <4>2
      <4> HIDE DEF j
      <4>4. K \in 1 .. Len(ls) /\ j =< ls[K] /\ j =< ls[K] - n BY <4>2, <4>3 DEF K, x
      <4>5. <<K, j>> \in SentBytes(ls, n) BY <1>1, <4>1, <4>3, <4>4, IsSent
      <4> QED BY <4>1, <4>5
    <3> QED BY <1>1, <3>1, <3>2
  <2>2. w \in [1 .. q -> SentBytes(ls, n)] BY <1>5, <2>1
  <2> QED BY <2>2, MapIs
<1> QED BY <1>8, <1>11, <1>12, <1>13, <1>14 DEF n, K, x, R, EndOf

LEMMA EndingExtends ==
  ASSUME NEW ls \in Seq(SectionLens), NEW more \in Seq(SectionLens), NEW n \in Nat,
         NEW left \in Nat, Extends(ls, n, more, left), NEW s \in Seq(SentBytes(ls, n)),
         IsEnding(ls, s)
  PROVE  IsEnding(more, s)
<1>1. CASE AllNull(s) BY <1>1 DEF IsEnding
<1>2. CASE ~ AllNull(s)
  <2>1. /\ s # <<>> /\ s[1][1] # 0 /\ s[1][2] > 1
        /\ \A i \in 1 .. Len(s) :
              s[i] = IF s[1][2] + i - 1 =< ls[s[1][1]] THEN <<s[1][1], s[1][2] + i - 1>>
                     ELSE Stuffing
    BY <1>2 DEF IsEnding
  <2>2. 1 \in 1 .. Len(s)
    <3>1. Len(s) # 0 /\ Len(s) \in Nat BY <2>1, EmptySeq, LenProperties
    <3> QED BY <3>1
  <2>3. s[1][1] \in 1 .. Len(ls) BY <2>1, <2>2, SentIs
  <2>4. more[s[1][1]] = ls[s[1][1]] BY <2>3 DEF Extends
  <2>5. \A i \in 1 .. Len(s) :
              s[i] = IF s[1][2] + i - 1 =< more[s[1][1]] THEN <<s[1][1], s[1][2] + i - 1>>
                     ELSE Stuffing
    BY <2>1, <2>4
  <2> QED BY <2>1, <2>5 DEF IsEnding
<1> QED BY <1>1, <1>2


LEMMA NewIs ==
  ASSUME lens \in Seq(SectionLens), NEW r, NEW new \in BoundedSeq(SectionLens, r), new # <<>>
  PROVE  LET base == Len(lens)
             m == Len(new)
             more == lens \o new
         IN /\ m \in Nat /\ m >= 1 /\ base \in Nat /\ more \in Seq(SectionLens)
            /\ Len(more) = base + m /\ more[Len(more)] = Last(new)
            /\ \A k \in 1 .. base : more[k] = lens[k]
            /\ IsSections(more, base, m,
                          FlattenSeq([j \in DOMAIN new |-> Section(base + j, new[j])]))
<1> DEFINE base == Len(lens)
           m == Len(new)
           more == lens \o new
           seqs == [j \in DOMAIN new |-> Section(base + j, new[j])]
<1>1. new \in Seq(SectionLens)
  <2>1. PICK q \in 0 .. r : new \in [1 .. q -> SectionLens] BY DEF BoundedSeq, SeqOf
  <2>2. CASE q \in Nat BY <2>1, <2>2, MapIs
  <2> QED BY <2>2
<1>2. m \in Nat /\ m >= 1 /\ base \in Nat /\ DOMAIN new = 1 .. m
  <2>1. m \in Nat /\ base \in Nat /\ DOMAIN new = 1 .. m BY <1>1, LenProperties
  <2>2. m # 0 BY <1>1, EmptySeq
  <2> QED BY <2>1, <2>2
<1>3. /\ more \in Seq(SectionLens) /\ Len(more) = base + m
      /\ \A k \in 1 .. base : more[k] = lens[k]
      /\ \A j \in 1 .. m : more[base + j] = new[j]
  BY <1>1, ConcatIs
<1>4. m \in 1 .. m BY <1>2
<1>5. more[Len(more)] = Last(new)
  <2>1. more[base + m] = new[m] BY <1>3, <1>4
  <2> QED BY <1>3, <2>1 DEF Last
<1>6. Len(seqs) = m /\ \A j \in 1 .. m : seqs[j] = Section(base + j, more[base + j])
  <2>1. ASSUME NEW j \in 1 .. m PROVE Section(base + j, new[j]) \in Seq(Byte)
    <3>1. more[base + j] = new[j] /\ base + j \in 1 .. Len(more) BY <1>2, <1>3
    <3>2. new[j] \in Nat /\ base + j \in Nat BY <1>2, <1>3, <3>1, LensIs
    <3> QED BY <3>2, SectionIs
  <2>2. seqs \in [1 .. m -> Seq(Byte)] BY <1>2, <2>1
  <2>3. Len(seqs) = m
    <3> HIDE DEF seqs
    <3> QED BY <1>2, <2>2, MapIs
  <2>4. \A j \in 1 .. m : seqs[j] = Section(base + j, more[base + j]) BY <1>2, <1>3
  <2> QED BY <2>3, <2>4
<1> HIDE DEF seqs, more, m, base
<1>7. IsSections(more, base, m, FlattenSeq(seqs)) BY <1>2, <1>3, <1>6, SectionsAre
<1> QED BY <1>2, <1>3, <1>5, <1>7 DEF seqs, more, m, base

-----------------------------------------------------------------------------
(* The inductive invariant *)

Nums == NumsOf(buffer_full, full_lengths)

Pending == pc = "got" \/ (pc = "add" /\ packet_avail)

Stream ==
    /\ lens \in Seq(SectionLens) /\ IsRest(lens, rest)
    /\ counter \in 0 .. CounterSize - 1 /\ faults \in 0 .. MaxFaults
    /\ last = NoPacket \/ IsLast(lens, Len(rest), counter, last)
    /\ last = NoPacket => lens = <<>>
    /\ spoiled \subseteq Nat /\ repeated \in BOOLEAN

Assembled ==
    /\ data_partial \in Seq(SentBytes(lens, Len(rest))) /\ Len(data_partial) =< MAX_TS_SIZE
    /\ expected_len_partial \in {0} \cup HeaderLen .. MaxLength
    /\ status_partial \in {"EMPTY", "PARTIAL_HEADER", "STARTED", "VALID"}
    /\ status_partial = "STARTED" =>
          /\ expected_len_partial >= HeaderLen
          /\ Len(data_partial) < expected_len_partial
    /\ status_partial = "PARTIAL_HEADER" => Len(data_partial) < HeaderLen
    /\ cc \in 0 .. CounterSize - 1

Call ==
    /\ pc \in {"idle", "add", "got"} /\ (pc = "add" <=> todo # <<>>)
    /\ packet_avail \in BOOLEAN /\ packet_cc \in 0 .. CounterSize - 1
    /\ IsTodo(lens, Len(rest), todo)
    /\ pc = "add" => counter = (packet_cc + 1) % CounterSize
    /\ Pending => IsWhole(lens, data_full)

Held ==
    /\ IsBuffer(lens, Len(rest), buffer_full, full_lengths, Ends(full_lengths), Nums)
    /\ NumFull =< MAX_FULL_PACKETS

\* A full section that is not the first waits behind others, and each packet takes one out:
\* what came after it is no more than the packets it may have seen.
Quota(i) == (MAX_FULL_PACKETS - i + 1) * PayloadSize
InProgress(status, bytes) ==
    IF status \in {"STARTED", "PARTIAL_HEADER"} THEN Len(bytes) ELSE 0
IsRoomy(lengths, size, status, bytes, calls) ==
    \A i \in 1 .. Len(lengths) :
        size - Ends(lengths)[i] + InProgress(status, bytes) + ToDo(calls) =< Quota(i)
Room ==
    /\ IsRoomy(full_lengths, Len(buffer_full), status_partial, data_partial, todo)
    /\ dropped = {}

\* What waited has been taken, or is being taken.
Prompted ==
    /\ left_behind \in BOOLEAN
    /\ pc = "idle" /\ ~ left_behind => full_lengths = <<>> \/ waited = {}
    /\ pc = "add" /\ ~ packet_avail => waited = {}

\* The sections in the order the caller gets them
Coming == delivered \o (IF Pending THEN <<data_full[1][1]>> ELSE <<>>) \o Nums
\* They are complete, and older than any byte still to come.
IsOlder(ls, n, calls, k) ==
    /\ k \in 1 .. Len(ls) /\ (n # 0 => k # Len(ls))
    /\ \A i \in 1 .. Len(calls) : \A j \in 1 .. Len(calls[i].bytes) :
          calls[i].bytes[j][1] # 0 => k < calls[i].bytes[j][1]
Ordered ==
    /\ delivered \in Seq(Nat)
    /\ ~ repeated =>
          /\ \A i, j \in 1 .. Len(Coming) : i < j => Coming[i] < Coming[j]
          /\ \A i \in 1 .. Len(Coming) : IsOlder(lens, Len(rest), todo, Coming[i])

\* An intact section is with the caller or waits for it,
Known ==
    Range(delivered) \cup (IF Pending THEN {data_full[1][1]} ELSE {}) \cup Waiting
        \cup unreported \cup skipped
\* or begins in the packet that is gone through,
Begins(calls, k) ==
    LET p == calls[Len(calls)]
    IN /\ calls # <<>> /\ p.start_flag # "NO_START"
       /\ \E i \in 1 .. Len(p.bytes) : p.bytes[i] = <<k, 1>>
\* or goes on in it, or in the next one.
Kept(k) ==
    LET m == Len(data_partial)
    IN /\ data_partial = Section(k, m) /\ m \in 1 .. lens[k] - 1
       /\ IF m < HeaderLen THEN status_partial = "PARTIAL_HEADER"
          ELSE status_partial = "STARTED" /\ expected_len_partial = lens[k]
InThis(k) ==
    LET m == Len(data_partial)
        bytes == Head(todo).bytes
    IN /\ todo # <<>> /\ Head(todo).start_flag = "NO_START"
       /\ packet_cc = (cc + 1) % CounterSize
       /\ bytes # <<>> /\ bytes[1] = <<k, m + 1>>
       /\ \/ m + Len(bytes) >= lens[k]
          \/ /\ k = Len(lens) /\ m + Len(bytes) = lens[k] - Len(rest)
             /\ Len(bytes) = PayloadSize /\ Len(todo) = 1
InNext(k) ==
    /\ k = Len(lens) /\ rest # <<>> /\ Len(data_partial) = lens[k] - Len(rest)
    /\ counter = (cc + 1) % CounterSize
GoesOn(k) ==
    /\ Kept(k)
    /\ \/ InThis(k)
       \/ InNext(k) /\ (todo # <<>> => Len(todo) = 1 /\ Head(todo).start_flag = "NO_START")
Accounted == \A k \in 1 .. Len(lens) \ spoiled : k \in Known \/ Begins(todo, k) \/ GoesOn(k)

IInv == Stream /\ Assembled /\ Call /\ Held /\ Room /\ Prompted /\ Ordered /\ Accounted

-----------------------------------------------------------------------------
(* Taking a section out of the buffer *)

LEMMA StreamIs ==
  ASSUME Stream
  PROVE  lens \in Seq(SectionLens) /\ Len(rest) \in Nat
         /\ (rest = <<>> <=> Len(rest) = 0)
         /\ (rest # <<>> => /\ Len(lens) \in 1 .. Len(lens) /\ lens[Len(lens)] \in Nat
                            /\ Len(rest) \in 1 .. lens[Len(lens)] - 1)
<1>1. lens \in Seq(SectionLens) /\ IsRest(lens, rest) BY DEF Stream
<1>2. Len(lens) \in Nat BY <1>1, LensIs
<1>3. CASE rest = <<>>
  <2>1. Len(<<>>) = 0 BY EmptySeq
  <2> QED BY <1>1, <1>3, <2>1
<1>4. CASE rest # <<>>
  <2>1. Len(lens) > 0 /\ Len(rest) \in 1 .. lens[Len(lens)] - 1 BY <1>1, <1>4 DEF IsRest
  <2>2. Len(lens) \in 1 .. Len(lens) BY <1>2, <2>1
  <2>3. lens[Len(lens)] \in Nat BY <1>1, <2>2, LensIs
  <2> QED BY <1>1, <1>4, <2>1, <2>2, <2>3
<1> QED BY <1>3, <1>4

LEMMA PopIs ==
  ASSUME NEW ls \in Seq(SectionLens), NEW n \in Nat, NEW b, NEW t, NEW e, NEW k,
         IsBuffer(ls, n, b, t, e, k), t # <<>>,
         NEW d1, NEW b1, NEW t1, IsPop(b, t, d1, b1, t1)
  PROVE  /\ IsBuffer(ls, n, b1, t1, Ends(t1), NumsOf(b1, t1))
         /\ IsWhole(ls, d1) /\ d1[1][1] = k[1] /\ Len(t) \in Nat /\ Len(t1) = Len(t) - 1
         /\ \A i \in 1 .. Len(t) - 1 : NumsOf(b1, t1)[i] = k[i + 1]
         /\ \A i \in 1 .. Len(t) - 1 : Len(b1) - Ends(t1)[i] = Len(b) - e[i + 1]
         /\ SectionsOf(b) = {k[1]} \cup SectionsOf(b1)
<1> DEFINE h == Head(t)
<1> DEFINE m == Len(t)
<1>1. /\ m \in Nat /\ Len(b) \in Nat /\ e \in [0 .. m -> Nat]
      /\ \A c : c \in SectionsOf(b) <=> \E i \in 1 .. m : c = k[i]
  BY BufferHas, BufferIs
<1>2. m >= 1 /\ IsWhole(ls, d1) /\ d1[1] = <<k[1], 1>> /\ Len(t1) = m - 1
      /\ Len(b1) = Len(b) - h /\ h \in Nat
  BY PopBuffer
<1>3. \E ends, nums :
         /\ IsBuffer(ls, n, b1, t1, ends, nums)
         /\ \A i \in 0 .. m - 1 : ends[i] = e[i + 1] - h
         /\ \A i \in 1 .. m - 1 : nums[i] = k[i + 1]
  BY PopBuffer
<1>4. PICK e1, k1 :
         /\ IsBuffer(ls, n, b1, t1, e1, k1)
         /\ \A i \in 0 .. m - 1 : e1[i] = e[i + 1] - h
         /\ \A i \in 1 .. m - 1 : k1[i] = k[i + 1]
  BY <1>3
<1>5. /\ Ends(t1) = e1 /\ NumsOf(b1, t1) = k1
      /\ \A c : c \in SectionsOf(b1) <=> \E i \in 1 .. Len(t1) : c = k1[i]
  BY <1>4, BufferIs
<1> HIDE DEF m, h
<1>6. ASSUME NEW i \in 1 .. m - 1 PROVE Len(b1) - e1[i] = Len(b) - e[i + 1]
  <2>1. i + 1 \in 0 .. m /\ i \in 0 .. m - 1 BY <1>1
  <2>2. e1[i] = e[i + 1] - h /\ e[i + 1] \in Nat BY <1>1, <1>4, <2>1
  <2> QED BY <1>1, <1>2, <2>2
<1>7. SectionsOf(b) = {k[1]} \cup SectionsOf(b1)
  <2>1. 1 \in 1 .. m BY <1>1, <1>2
  <2>2. ASSUME NEW c, c \in SectionsOf(b), c # k[1] PROVE c \in SectionsOf(b1)
    <3>1. PICK i \in 1 .. m : c = k[i] BY <1>1, <2>2
    <3>2. i - 1 \in 1 .. m - 1 /\ (i - 1) + 1 = i BY <1>1, <2>2, <3>1
    <3>3. k1[i - 1] = k[i] BY <1>4, <3>2
    <3> QED BY <1>2, <1>5, <3>1, <3>2, <3>3
  <2>3. ASSUME NEW c, c \in SectionsOf(b1) PROVE c \in SectionsOf(b)
    <3>1. PICK i \in 1 .. m - 1 : c = k1[i] BY <1>2, <1>5, <2>3
    <3>2. i + 1 \in 1 .. m /\ k1[i] = k[i + 1] BY <1>1, <1>4
    <3> QED BY <1>1, <3>1, <3>2
  <2> QED BY <1>1, <2>1, <2>2, <2>3
<1>8. d1[1][1] = k[1] BY <1>2
<1> QED BY <1>1, <1>2, <1>4, <1>5, <1>6, <1>7, <1>8 DEF m

LEMMA TakeOutIs ==
  ASSUME Stream, Held, TakeOut
  PROVE  /\ IsBuffer(lens, Len(rest), buffer_full', full_lengths', Ends(full_lengths'), Nums')
         /\ Len(full_lengths) \in Nat /\ Nums \in [1 .. Len(full_lengths) -> Nat]
         /\ Nums' \in [1 .. Len(full_lengths') -> Nat]
         /\ full_lengths = <<>> <=> Len(full_lengths) = 0
         /\ full_lengths = <<>> => UNCHANGED full /\ Waiting = {} /\ Nums' = Nums
         /\ full_lengths # <<>> =>
               /\ IsWhole(lens, data_full') /\ data_full'[1][1] = Nums[1]
               /\ Len(full_lengths') = Len(full_lengths) - 1
               /\ \A i \in 1 .. Len(full_lengths) - 1 : Nums'[i] = Nums[i + 1]
               /\ \A i \in 1 .. Len(full_lengths) - 1 :
                     Len(buffer_full') - Ends(full_lengths')[i] =
                        Len(buffer_full) - Ends(full_lengths)[i + 1]
               /\ Waiting = {Nums[1]} \cup Waiting'
<1> DEFINE n == Len(rest)
           b == buffer_full
           t == full_lengths
           e == Ends(t)
           k == Nums
           m == Len(t)
<1>1. lens \in Seq(SectionLens) /\ n \in Nat /\ IsBuffer(lens, n, b, t, e, k)
  BY StreamIs DEF Held
<1> HIDE DEF n, b, t, e, k
<1>2. /\ m \in Nat /\ Len(b) \in Nat /\ t \in Seq(HeaderLen .. MAX_TS_SIZE)
      /\ e \in [0 .. m -> Nat] /\ k \in [1 .. m -> 1 .. Len(lens)] /\ e[m] = Len(b)
  BY <1>1, BufferHas
<1>3. \A c : c \in SectionsOf(b) <=> \E i \in 1 .. m : c = k[i] BY <1>1, BufferIs
<1>4. t = <<>> <=> m = 0 BY <1>2, EmptySeq
<1>5. k \in [1 .. m -> Nat]
  <2>1. 1 .. Len(lens) \subseteq Nat BY <1>1, LensIs
  <2> QED BY <1>2, <2>1
<1>6. CASE t = <<>>
  <2>1. UNCHANGED full BY <1>6 DEF TakeOut, t
  <2>2. Waiting = {} BY <1>3, <1>4, <1>6 DEF Waiting, b
  <2>3. Nums' = Nums /\ full_lengths' = full_lengths /\ buffer_full' = buffer_full
    BY <2>1 DEF Nums, full
  <2>4. IsBuffer(lens, Len(rest), buffer_full', full_lengths', Ends(full_lengths'), Nums')
    BY <1>1, <2>3 DEF n, b, t, e, k
  <2>5. Nums' \in [1 .. Len(full_lengths') -> Nat] BY <1>5, <2>3 DEF k, m, t
  <2> QED BY <1>2, <1>4, <1>5, <1>6, <2>1, <2>2, <2>3, <2>4, <2>5 DEF t, m, k
<1>7. CASE t # <<>>
  <2>1. IsPop(b, t, data_full', buffer_full', full_lengths')
    BY <1>7 DEF TakeOut, PopFull, IsPop, t, b
  <2>2. /\ IsBuffer(lens, n, buffer_full', full_lengths', Ends(full_lengths'),
                    NumsOf(buffer_full', full_lengths'))
        /\ IsWhole(lens, data_full') /\ data_full'[1][1] = k[1] /\ Len(full_lengths') = m - 1
        /\ \A i \in 1 .. m - 1 : NumsOf(buffer_full', full_lengths')[i] = k[i + 1]
        /\ \A i \in 1 .. m - 1 : Len(buffer_full') - Ends(full_lengths')[i] = Len(b) - e[i + 1]
        /\ SectionsOf(b) = {k[1]} \cup SectionsOf(buffer_full')
    BY <1>1, <1>7, <2>1, PopIs
  <2>3. Nums' = NumsOf(buffer_full', full_lengths') BY DEF Nums
  <2>4. Waiting' = SectionsOf(buffer_full') /\ Waiting = SectionsOf(b)
    BY DEF Waiting, SectionsOf, b
  <2>5. Nums' \in [1 .. Len(full_lengths') -> Nat]
    <3>1. Nums' \in [1 .. Len(full_lengths') -> 1 .. Len(lens)] BY <1>1, <2>2, <2>3, BufferHas
    <3>2. 1 .. Len(lens) \subseteq Nat BY <1>1, LensIs
    <3> QED BY <3>1, <3>2
  <2> QED BY <1>2, <1>4, <1>5, <1>7, <2>2, <2>3, <2>4, <2>5 DEF n, b, t, e, k, m
<1> QED BY <1>6, <1>7

LEMMA ComingIs == Coming = Joined(delivered, InHand(Pending, data_full[1][1]), Nums)
BY DEF Coming, Joined, InHand

-----------------------------------------------------------------------------
(* A packet comes.  It may be a new one, or one that came already.         *)

Comes(packet) ==
    /\ pc = "idle" /\ Receive(packet)
    /\ lens' \in Seq(SectionLens) /\ Len(rest') \in Nat
    /\ Extends(lens, Len(rest), lens', Len(rest'))
    /\ \/ /\ packet.kind = "payload" /\ packet.cc \in 0 .. CounterSize - 1
          /\ counter' = (packet.cc + 1) % CounterSize
          /\ Pieces(packet) # <<>> /\ IsTodo(lens', Len(rest'), Pieces(packet))
       \/ packet.kind \in {"ignored", "bad_pointer"}

LEMMA ComesIs ==
  ASSUME NEW packet, Call, Stream, Held, Comes(packet)
  PROVE  /\ TakeOut /\ ~ Pending /\ todo = <<>>
         /\ waited' = SectionsOf(buffer_full)
         /\ UNCHANGED <<delivered, skipped, dropped, left_behind>>
         /\ \/ /\ packet.kind = "payload" /\ pc' = "add" /\ todo' = Pieces(packet)
               /\ packet_avail' = (full_lengths # <<>>) /\ packet_cc' = packet.cc
               /\ UNCHANGED <<partial, unreported>>
               /\ Pending' <=> full_lengths # <<>>
            \/ /\ packet.kind \in {"ignored", "bad_pointer"}
               /\ pc' = IF Len(full_lengths) > 1 THEN "got" ELSE "idle"
               /\ unreported' = IF Len(full_lengths) = 1
                                THEN unreported \cup SectionsOf(buffer_full) ELSE unreported
               /\ status_partial' \in {status_partial, "EMPTY"}
               /\ packet.kind = "ignored" => status_partial' = status_partial
               /\ UNCHANGED <<data_partial, expected_len_partial, cc, packet_avail, packet_cc,
                              todo>>
               /\ Pending' <=> Len(full_lengths) > 1
<1>1. pc = "idle" /\ Receive(packet) BY DEF Comes
<1>2. todo = <<>> /\ ~ Pending BY <1>1 DEF Call, Pending
<1>3. CASE packet.kind = "payload"
  <2>1. GetPayload(packet) /\ waited' = SectionsOf(buffer_full)
        /\ UNCHANGED <<delivered, skipped, dropped, left_behind>>
    BY <1>1, <1>3 DEF Receive
  <2>2. /\ TakeOut /\ pc' = "add" /\ todo' = Pieces(packet)
        /\ packet_avail' = (full_lengths # <<>>) /\ packet_cc' = packet.cc
        /\ UNCHANGED <<partial, unreported>>
    BY <2>1 DEF GetPayload
  <2>3. Pending' <=> full_lengths # <<>> BY <2>2 DEF Pending
  <2> QED BY <1>2, <1>3, <2>1, <2>2, <2>3
<1>4. CASE packet.kind # "payload"
  <2>1. GetRefused(packet) /\ waited' = SectionsOf(buffer_full)
        /\ UNCHANGED <<delivered, skipped, dropped, left_behind>>
    BY <1>1, <1>4 DEF Receive
  <2>2. /\ TakeOut
        /\ pc' = IF Len(full_lengths) > 1 THEN "got" ELSE "idle"
        /\ unreported' = IF Len(full_lengths) = 1
                         THEN unreported \cup SectionsOf(buffer_full) ELSE unreported
        /\ status_partial' = IF packet.kind = "bad_pointer" THEN "EMPTY" ELSE status_partial
        /\ UNCHANGED <<data_partial, expected_len_partial, cc, packet_avail, packet_cc, todo>>
    BY <2>1 DEF GetRefused
  <2>3. Pending' <=> Len(full_lengths) > 1 BY <2>2 DEF Pending
  <2>4. packet.kind \in {"ignored", "bad_pointer"} BY <1>4 DEF Comes
  <2> QED BY <1>2, <2>1, <2>2, <2>3, <2>4
<1> QED BY <1>3, <1>4

LEMMA ComesHeld ==
  ASSUME NEW packet, Call, Stream, Held, Comes(packet)
  PROVE  Held' /\ (Pending' => IsWhole(lens', data_full'))
<1>1. TakeOut BY ComesIs
<1> DEFINE e == Ends(full_lengths')
           k == Nums'
<1>2. IsBuffer(lens, Len(rest), buffer_full', full_lengths', e, k) BY <1>1, TakeOutIs
<1>3. /\ lens \in Seq(SectionLens) /\ Len(rest) \in Nat
      /\ lens' \in Seq(SectionLens) /\ Len(rest') \in Nat
      /\ Extends(lens, Len(rest), lens', Len(rest'))
  BY StreamIs DEF Comes
<1> HIDE DEF e, k
<1>4. IsBuffer(lens', Len(rest'), buffer_full', full_lengths', e, k)
  BY <1>2, <1>3, ExtendsBuffer
<1>5. Len(full_lengths') =< MAX_FULL_PACKETS
  <2>1. Len(full_lengths) \in Nat /\ Len(full_lengths) =< MAX_FULL_PACKETS
    BY <1>1, TakeOutIs DEF Held, NumFull
  <2>2. CASE full_lengths = <<>> BY <1>1, <2>1, <2>2, TakeOutIs DEF full
  <2>3. CASE full_lengths # <<>>
    <3>1. Len(full_lengths') = Len(full_lengths) - 1 BY <1>1, <2>3, TakeOutIs
    <3> QED BY <2>1, <3>1, Sizes
  <2> QED BY <2>2, <2>3
<1>6. Held' BY <1>4, <1>5 DEF Held, NumFull, e, k
<1>7. ASSUME Pending' PROVE IsWhole(lens', data_full')
  <2>1. full_lengths # <<>>
    <3>1. Pending' => full_lengths # <<>> \/ Len(full_lengths) > 1 BY ComesIs
    <3>2. full_lengths = <<>> <=> Len(full_lengths) = 0 BY <1>1, TakeOutIs
    <3> QED BY <1>7, <3>1, <3>2
  <2>2. IsWhole(lens, data_full') BY <1>1, <2>1, TakeOutIs
  <2> QED BY <1>3, <2>2, WholeExtends
<1> QED BY <1>6, <1>7

LEMMA ComesCall ==
  ASSUME NEW packet, Call, Stream, Held, Comes(packet)
  PROVE  Call'
<1>1. Pending' => IsWhole(lens', data_full') BY ComesHeld
<1>2. CASE packet.kind = "payload"
  <2>1. /\ pc' = "add" /\ todo' = Pieces(packet) /\ packet_avail' = (full_lengths # <<>>)
        /\ packet_cc' = packet.cc
    BY <1>2, ComesIs
  <2>2. /\ packet.cc \in 0 .. CounterSize - 1 /\ counter' = (packet.cc + 1) % CounterSize
        /\ Pieces(packet) # <<>> /\ IsTodo(lens', Len(rest'), Pieces(packet))
    BY <1>2 DEF Comes
  <2> QED BY <1>1, <2>1, <2>2 DEF Call
<1>3. CASE packet.kind # "payload"
  <2>1. pc' \in {"got", "idle"} /\ todo' = <<>> /\ UNCHANGED <<packet_avail, packet_cc>>
    BY <1>3, ComesIs
  <2> QED BY <1>1, <2>1 DEF Call, IsTodo
<1> QED BY <1>2, <1>3

LEMMA ComesAssembled ==
  ASSUME NEW packet, Call, Stream, Held, Assembled, Comes(packet)
  PROVE  Assembled'
<1>1. /\ UNCHANGED <<data_partial, expected_len_partial, cc>>
      /\ status_partial' \in {status_partial, "EMPTY"}
  BY ComesIs DEF partial
<1>2. /\ lens \in Seq(SectionLens) /\ Len(rest) \in Nat
      /\ lens' \in Seq(SectionLens) /\ Len(rest') \in Nat
      /\ Extends(lens, Len(rest), lens', Len(rest'))
  BY StreamIs DEF Comes
<1>3. data_partial' \in Seq(SentBytes(lens', Len(rest')))
  <2>1. data_partial \in Seq(SentBytes(lens, Len(rest))) BY DEF Assembled
  <2> QED BY <1>1, <1>2, <2>1, SentExtends
<1> QED BY <1>1, <1>3 DEF Assembled

LEMMA ComesPrompted ==
  ASSUME NEW packet, Call, Stream, Held, Prompted, Comes(packet)
  PROVE  Prompted'
<1>1. TakeOut /\ waited' = SectionsOf(buffer_full) /\ left_behind' = left_behind BY ComesIs
<1>2. full_lengths = <<>> => waited' = {} BY <1>1, TakeOutIs DEF Waiting
<1>3. CASE packet.kind = "payload"
  <2>1. pc' = "add" /\ packet_avail' = (full_lengths # <<>>) BY <1>3, ComesIs
  <2> QED BY <1>1, <1>2, <2>1 DEF Prompted
<1>4. CASE packet.kind # "payload"
  <2>1. pc' = IF Len(full_lengths) > 1 THEN "got" ELSE "idle" BY <1>4, ComesIs
  <2>2. Len(full_lengths) \in Nat /\ (full_lengths = <<>> <=> Len(full_lengths) = 0)
    BY <1>1, TakeOutIs
  <2>3. ASSUME pc' = "idle" PROVE full_lengths' = <<>>
    <3>1. CASE full_lengths = <<>> BY <1>1, <3>1, TakeOutIs DEF full
    <3>2. CASE full_lengths # <<>>
      <4>1. Len(full_lengths') = Len(full_lengths) - 1 BY <1>1, <3>2, TakeOutIs
      <4>2. Len(full_lengths') = 0 BY <2>1, <2>2, <2>3, <3>2, <4>1
      <4>3. full_lengths' \in Seq(HeaderLen .. MAX_TS_SIZE) BY ComesHeld DEF Held, IsBuffer
      <4> QED BY <4>2, <4>3, EmptySeq
    <3> QED BY <3>1, <3>2
  <2> QED BY <1>1, <2>1, <2>3 DEF Prompted
<1> QED BY <1>3, <1>4

LEMMA QuotaIs ==
  /\ \A i \in 1 .. MAX_FULL_PACKETS :
        /\ Quota(i) \in Int /\ Quota(i + 1) \in Int /\ Quota(i) = Quota(i + 1) + PayloadSize
        /\ Quota(i) >= PayloadSize
  /\ Quota(1) \in Int /\ Quota(1) < MAX_TS_SIZE
<1>1. ASSUME NEW i \in 1 .. MAX_FULL_PACKETS
      PROVE  /\ Quota(i) \in Int /\ Quota(i + 1) \in Int
             /\ Quota(i) = Quota(i + 1) + PayloadSize /\ Quota(i) >= PayloadSize
  <2> DEFINE q == MAX_FULL_PACKETS - i
  <2>1. /\ q \in Nat /\ MAX_FULL_PACKETS - i + 1 = q + 1
        /\ MAX_FULL_PACKETS - (i + 1) + 1 = q /\ PayloadSize \in Nat
    BY Sizes
  <2>2. Quota(i) = (q + 1) * PayloadSize /\ Quota(i + 1) = q * PayloadSize BY <2>1 DEF Quota
  <2> HIDE DEF q
  <2>3. (q + 1) * PayloadSize = q * PayloadSize + PayloadSize /\ q * PayloadSize \in Nat BY <2>1
  <2> DEFINE r == q * PayloadSize
  <2>4. Quota(i) = r + PayloadSize /\ Quota(i + 1) = r /\ r \in Nat BY <2>2, <2>3
  <2> HIDE DEF r
  <2> QED BY <2>1, <2>4
<1>2. Quota(1) \in Int /\ Quota(1) < MAX_TS_SIZE
  <2>1. MAX_FULL_PACKETS - 1 + 1 = MAX_FULL_PACKETS BY Sizes
  <2>2. Quota(1) = MAX_FULL_PACKETS * PayloadSize BY <2>1 DEF Quota
  <2>3. MAX_FULL_PACKETS * PayloadSize \in Nat BY Sizes
  <2>4. MAX_TS_SIZE > MAX_FULL_PACKETS * PayloadSize BY SizesAssumption
  <2> DEFINE r == MAX_FULL_PACKETS * PayloadSize
  <2>5. r \in Nat /\ MAX_TS_SIZE > r /\ Quota(1) = r BY <2>2, <2>3, <2>4
  <2> HIDE DEF r
  <2> QED BY <2>5, Sizes
<1> QED BY <1>1, <1>2

\* The sizes that Room compares are integers.
LEMMA HeldIs ==
  ASSUME Stream, Held
  PROVE  /\ Len(full_lengths) \in Nat /\ Len(full_lengths) =< MAX_FULL_PACKETS
         /\ Len(buffer_full) \in Nat
         /\ \A i \in 0 .. Len(full_lengths) : Ends(full_lengths)[i] \in Nat
         /\ Nums \in [1 .. Len(full_lengths) -> Nat]
         /\ full_lengths = <<>> <=> Len(full_lengths) = 0
         /\ full_lengths \in Seq(HeaderLen .. MAX_TS_SIZE)
<1> DEFINE n == Len(rest)
           e == Ends(full_lengths)
           k == Nums
<1>1. lens \in Seq(SectionLens) /\ n \in Nat BY StreamIs
<1>2. /\ IsBuffer(lens, n, buffer_full, full_lengths, e, k)
      /\ Len(full_lengths) =< MAX_FULL_PACKETS
  BY DEF Held, NumFull
<1> HIDE DEF n, e, k
<1>3. /\ Len(full_lengths) \in Nat /\ Len(buffer_full) \in Nat
      /\ e \in [0 .. Len(full_lengths) -> Nat] /\ k \in [1 .. Len(full_lengths) -> 1 .. Len(lens)]
      /\ full_lengths \in Seq(HeaderLen .. MAX_TS_SIZE)
  BY <1>1, <1>2, BufferHas
<1>4. k \in [1 .. Len(full_lengths) -> Nat]
  <2>1. 1 .. Len(lens) \subseteq Nat BY <1>1, LensIs
  <2> QED BY <1>3, <2>1
<1>5. full_lengths = <<>> <=> Len(full_lengths) = 0 BY <1>3, EmptySeq
<1> QED BY <1>2, <1>3, <1>4, <1>5 DEF e, k

LEMMA ProgressIs ==
  ASSUME Assembled
  PROVE  InProgress(status_partial, data_partial) \in Nat /\ Len(data_partial) \in Nat
<1>1. Len(data_partial) \in Nat BY LenProperties DEF Assembled
<1> QED BY <1>1 DEF InProgress

LEMMA ComesRoom ==
  ASSUME NEW packet, Call, Stream, Held, Assembled, Room, Comes(packet)
  PROVE  Room'
<1> DEFINE m == Len(full_lengths)
           L == Len(buffer_full)
           e == Ends(full_lengths)
           M == Len(full_lengths')
           L1 == Len(buffer_full')
           e1 == Ends(full_lengths')
           g == InProgress(status_partial, data_partial)
           g1 == InProgress(status_partial', data_partial')
           d == ToDo(todo)
           d1 == ToDo(todo')
<1>1. TakeOut /\ dropped' = dropped BY ComesIs
<1>2. Held' /\ Assembled' /\ Call' BY ComesHeld, ComesAssembled, ComesCall
<1>3. m \in Nat /\ m =< MAX_FULL_PACKETS /\ L \in Nat /\ \A i \in 0 .. m : e[i] \in Nat
  BY HeldIs
<1>4. g \in Nat /\ g1 \in Nat /\ g1 =< g
  <2>1. g \in Nat BY ProgressIs
  <2>2. data_partial' = data_partial /\ status_partial' \in {status_partial, "EMPTY"}
    BY ComesIs DEF partial
  <2>3. g1 = g \/ g1 = 0 BY <2>2 DEF InProgress
  <2> QED BY <2>1, <2>3
<1>5. d = 0 /\ d1 \in Nat /\ d1 =< PayloadSize
  <2>1. d = 0 BY ComesIs DEF ToDo
  <2>2. IsTodo(lens', Len(rest'), todo') BY <1>2 DEF Call
  <2> QED BY <2>1, <2>2, ToDoIs
<1>6. ASSUME NEW i \in 1 .. M PROVE L1 - e1[i] + g1 + d1 =< Quota(i)
  <2>1. M = m - 1 /\ i \in 1 .. m - 1 /\ L1 - e1[i] = L - e[i + 1]
    <3>1. CASE full_lengths = <<>>
      <4>1. full_lengths' = full_lengths /\ m = 0 BY <1>1, <3>1, TakeOutIs DEF full
      <4> QED BY <1>6, <4>1
    <3>2. CASE full_lengths # <<>>
      <4>1. M = m - 1 /\ \A j \in 1 .. m - 1 : L1 - e1[j] = L - e[j + 1]
        BY <1>1, <3>2, TakeOutIs
      <4> QED BY <1>6, <4>1
    <3> QED BY <3>1, <3>2
  <2>2. i + 1 \in 1 .. m /\ i + 1 \in 0 .. m /\ i \in 1 .. MAX_FULL_PACKETS
    BY <1>3, <2>1, Sizes
  <2>3. L - e[i + 1] + g + d =< Quota(i + 1) BY <2>2 DEF Room, IsRoomy
  <2>4. Quota(i) \in Int /\ Quota(i + 1) \in Int /\ Quota(i) = Quota(i + 1) + PayloadSize
    BY <2>2, QuotaIs
  <2> DEFINE x == e[i + 1]
             y == L1 - e1[i]
             Q == Quota(i)
             Q1 == Quota(i + 1)
  <2>5. /\ x \in Nat /\ y = L - x /\ L \in Nat /\ Q \in Int /\ Q1 \in Int
        /\ Q = Q1 + PayloadSize /\ L - x + g + d =< Q1 /\ PayloadSize \in Nat
    BY <1>3, <2>1, <2>2, <2>3, <2>4, Sizes
  <2> HIDE DEF x, y, Q, Q1, g, g1, d, d1, L, m, M, L1, e1, e
  <2>6. y + g1 + d1 =< Q BY <1>4, <1>5, <2>5
  <2> QED BY <2>6 DEF y, Q
<1> QED BY <1>1, <1>6 DEF Room, IsRoomy

\* What the caller gets is what waited, in the same order, but for the last one if it is lost.
LEMMA ComesComing ==
  ASSUME NEW packet, Call, Stream, Held, delivered \in Seq(Nat), Comes(packet)
  PROVE  /\ Len(Coming') \in Nat /\ Len(Coming) \in Nat /\ Len(Coming') =< Len(Coming)
         /\ \A i \in 1 .. Len(Coming') : Coming'[i] = Coming[i]
<1> DEFINE m == Len(full_lengths)
           x == data_full'[1][1]
<1>1. TakeOut /\ ~ Pending /\ delivered' = delivered BY ComesIs
<1>2. /\ m \in Nat /\ Nums \in [1 .. m -> Nat] /\ Nums' \in [1 .. Len(full_lengths') -> Nat]
      /\ full_lengths = <<>> <=> m = 0
  BY <1>1, TakeOutIs
<1>3. Coming = Joined(delivered, <<>>, Nums) BY <1>1, ComingIs DEF InHand
<1>4. Coming' = Joined(delivered, InHand(Pending', x), Nums')
  <2>1. Coming' = Joined(delivered', InHand(Pending', data_full'[1][1]), Nums')
    BY DEF Coming, Joined, InHand
  <2> QED BY <1>1, <2>1
<1> HIDE DEF x
<1>5. <<>> \in Seq(Nat) BY EmptySeq
<1>6. Len(Coming) \in Nat
  <2>1. HasParts(Coming, delivered, <<>>, Nums, m) BY <1>2, <1>3, <1>5, JoinedIs
  <2> QED BY <2>1, LenProperties DEF HasParts
<1>7. CASE full_lengths = <<>>
  <2>1. Nums' = Nums BY <1>1, <1>7, TakeOutIs
  <2>2. ~ Pending'
    <3>1. Pending' => full_lengths # <<>> \/ m > 1 BY ComesIs
    <3> QED BY <1>2, <1>7, <3>1
  <2>3. Coming' = Coming BY <1>3, <1>4, <2>1, <2>2 DEF InHand
  <2> QED BY <1>6, <2>3
<1>8. CASE full_lengths # <<>>
  <2>1. /\ x = Nums[1] /\ Len(full_lengths') = m - 1
        /\ \A i \in 1 .. m - 1 : Nums'[i] = Nums[i + 1]
    BY <1>1, <1>8, TakeOutIs DEF x
  <2>2. m >= 1 /\ Nums' \in [1 .. m - 1 -> Nat] BY <1>2, <1>8, <2>1
  <2>3. CASE Pending'
    <3>1. InHand(Pending', x) = InHand(TRUE, x) BY <2>3 DEF InHand
    <3>2. Coming' = Joined(delivered, InHand(TRUE, x), Nums') BY <1>4, <3>1
    <3>3. Coming' = Coming
      <4> DEFINE k == Nums
                 k1 == Nums'
      <4>1. /\ k \in [1 .. m -> Nat] /\ k1 \in [1 .. m - 1 -> Nat] /\ x = k[1]
            /\ \A i \in 1 .. m - 1 : k1[i] = k[i + 1]
        BY <1>2, <2>1, <2>2
      <4> HIDE DEF k, k1, m
      <4>2. Joined(delivered, InHand(TRUE, x), k1) = Joined(delivered, <<>>, k)
        BY <1>2, <2>2, <4>1, ShiftJoined
      <4> QED BY <1>3, <3>2, <4>2 DEF k, k1
    <3> QED BY <1>6, <3>3
  <2>4. CASE ~ Pending'
    <3>1. m =< 1
      <4>1. CASE packet.kind = "payload"
        <5>1. Pending' <=> full_lengths # <<>> BY <4>1, ComesIs
        <5>2. full_lengths = <<>> BY <2>4, <5>1
        <5> QED BY <1>8, <5>2
      <4>2. CASE packet.kind # "payload"
        <5>1. Pending' <=> Len(full_lengths) > 1 BY <4>2, ComesIs
        <5>2. ~ (m > 1) BY <2>4, <5>1
        <5> QED BY <1>2, <5>2
      <4> QED BY <4>1, <4>2
    <3>2. m = 1 /\ Nums' \in [1 .. 0 -> Nat]
      <4>1. m \in Nat /\ m >= 1 /\ m =< 1 BY <1>2, <2>2, <3>1
      <4>2. m = 1 /\ m - 1 = 0
        <5> HIDE DEF m
        <5> QED BY <4>1
      <4>3. Nums' \in [1 .. m - 1 -> Nat] BY <2>2
      <4> QED BY <4>2, <4>3
    <3>3. Coming' = Joined(delivered, <<>>, Nums') BY <1>4, <2>4 DEF InHand
    <3> DEFINE k == Nums
               k1 == Nums'
               z == <<>>
    <3>4. k \in [1 .. m -> Nat] /\ k1 \in [1 .. 0 -> Nat] /\ z \in Seq(Nat)
          /\ Coming = Joined(delivered, z, k) /\ Coming' = Joined(delivered, z, k1)
      BY <1>2, <1>3, <1>5, <3>2, <3>3
    <3> HIDE DEF k, k1, z, m
    <3> QED BY <1>2, <3>4, DropJoined
  <2> QED BY <2>3, <2>4
<1> QED BY <1>7, <1>8


-----------------------------------------------------------------------------
(* The packets of the sender *)


\* The packet the sender sends next, after which `more' sections were sent and `left' is left
IsNext(more, left, packet) ==
    LET calls == Pieces(packet)
        p == Head(calls)
        K == Len(lens)
    IN /\ more \in Seq(SectionLens) /\ Len(left) \in Nat /\ IsRest(more, left)
       /\ Extends(lens, Len(rest), more, Len(left))
       /\ IsLast(more, Len(left), (counter + 1) % CounterSize, packet) /\ packet.cc = counter
       /\ Len(packet.payload) = IF packet.pusi THEN PayloadSize - 1 ELSE PayloadSize
       /\ rest # <<>> =>
             /\ K \in SectionsOf(packet.payload)
             /\ p.start_flag = "NO_START" /\ p.bytes # <<>>
             /\ p.bytes[1] = <<K, lens[K] - Len(rest) + 1>>
             /\ \/ Len(p.bytes) >= Len(rest)
                \/ /\ Len(p.bytes) = PayloadSize /\ Len(calls) = 1 /\ more = lens
                   /\ Len(left) = Len(rest) - PayloadSize
       /\ \A k \in K + 1 .. Len(more) : Begins(calls, k) /\ k \in SectionsOf(packet.payload)
       /\ \A i \in 1 .. Len(calls) : \A j \in 1 .. Len(calls[i].bytes) :
             LET c == calls[i].bytes[j][1] IN c # 0 => K < c \/ (rest # <<>> /\ c = K)

LEMMA SectionsHas ==
  ASSUME NEW s, Len(s) \in Nat, s \in Seq(Byte), NEW i \in 1 .. Len(s), s[i][1] # 0
  PROVE  s[i][1] \in SectionsOf(s)
<1>1. i \in DOMAIN s BY LenProperties
<1> QED BY <1>1 DEF SectionsOf

LEMMA RestIs ==
  ASSUME Stream
  PROVE  rest \in Seq(Byte)
<1>1. CASE rest = <<>> BY <1>1, EmptySeq
<1>2. CASE rest # <<>>
  <2> DEFINE K == Len(lens)
             x == lens[K]
             R == Len(rest)
  <2>1. K \in 1 .. K /\ x \in Nat /\ R \in 1 .. x - 1 BY <1>2, StreamIs
  <2>2. K \in Nat /\ R \in Nat
    <3>1. K \in Nat BY StreamIs, LensIs
    <3> QED BY <3>1, StreamIs
  <2>3. rest = [i \in 1 .. R |-> <<K, x - R + i>>] BY <1>2 DEF Stream, IsRest
  <2> HIDE DEF K, x, R
  <2>4. \A i \in 1 .. R : <<K, x - R + i>> \in Byte BY <2>1, <2>2 DEF Byte
  <2>5. rest \in [1 .. R -> Byte] BY <2>3, <2>4
  <2> QED BY <2>2, <2>5, MapIs
<1> QED BY <1>1, <1>2

LEMMA ContinuationIs ==
  ASSUME Stream, NEW t \in Continuation
  PROVE  IsNext(lens \o t.new, t.left, t.packet)
<1> DEFINE P == PayloadSize
           w == Padded(rest, P)
           left == Remaining(rest, P)
           K == Len(lens)
           x == lens[K]
           R == Len(rest)
           n == Len(left)
           calls == Pieces(t.packet)
<1>1. /\ rest # <<>> /\ t.packet = Packet(FALSE, 0, w) /\ t.new = <<>> /\ t.left = left
  <2>1. PICK r \in {rest} \ {<<>>} :
           t = [packet |-> Packet(FALSE, 0, Padded(r, PayloadSize)), new |-> <<>>,
                left |-> Remaining(r, PayloadSize)]
    BY DEF Continuation
  <2>2. r = rest /\ rest # <<>> BY <2>1
  <2> QED BY <2>1, <2>2
<1>2. /\ lens \in Seq(SectionLens) /\ rest \in Seq(Byte) /\ IsRest(lens, rest)
      /\ P \in Nat /\ P >= 1
  BY StreamIs, RestIs, Sizes DEF Stream
<1>3. /\ w \in Seq(Byte) /\ Len(w) = P
      /\ \A i \in 1 .. P : w[i] = IF i =< R THEN rest[i] ELSE Stuffing
  <2>1. Stuffing \in Byte BY DEF Stuffing, Byte
  <2> QED BY <1>2, <2>1, PaddedIs
<1>4. /\ left \in Seq(Byte) /\ n = (IF P =< R THEN R - P ELSE 0)
      /\ \A i \in 1 .. R - P : left[i] = rest[P + i]
  <2> HIDE DEF P
  <2>1. left \in Seq(Byte) BY <1>2, RemainingIs
  <2>2. n = IF P =< R THEN R - P ELSE 0 BY <1>2, RemainingIs
  <2>3. \A i \in 1 .. R - P : left[i] = rest[P + i] BY <1>2, RemainingIs
  <2> QED BY <2>1, <2>2, <2>3
<1>5. /\ R \in Nat /\ n \in Nat /\ K \in 1 .. K /\ x \in Nat /\ R \in 1 .. x - 1 /\ K \in Nat
  BY <1>1, <1>2, <1>4, StreamIs, LenProperties
<1> HIDE DEF P, w, left, R, n, K, x
<1>6. \A i \in 1 .. n : left[i] = rest[P + i] BY <1>2, <1>4, <1>5
<1>7. /\ IsRest(lens, left) /\ IsEnding(lens, w) /\ w \in Seq(SentBytes(lens, n))
      /\ w # <<>> /\ w[1] = <<K, x - R + 1>>
      /\ \A i \in 1 .. P : w[i][1] # 0 => w[i][1] = K
  <2>1. IsSplit(rest, P, w, left)
    BY <1>3, <1>4, <1>6 DEF R, n, IsSplit
  <2>2. EndOf(lens, rest, P, w, left) BY <1>2, <2>1, EndingIs
  <2>3. IsRest(lens, left) /\ IsEnding(lens, w) /\ w \in Seq(SentBytes(lens, Len(left)))
    BY <2>2 DEF EndOf
  <2>4. w # <<>> /\ w[1] = <<Len(lens), lens[Len(lens)] - Len(rest) + 1>>
    BY <1>1, <1>2, <2>2 DEF EndOf
  <2>5. \A i \in 1 .. P : w[i][1] # 0 => w[i][1] = Len(lens) BY <2>2 DEF EndOf
  <2> QED BY <2>3, <2>4, <2>5 DEF R, n, K, x
<1>8. lens \o t.new = lens BY <1>1, <1>2, ConcatEmptySeq
<1>9. Extends(lens, R, lens, n)
  <2>1. n =< R BY <1>2, <1>4, <1>5
  <2> QED BY <1>5, <2>1 DEF Extends, K
<1>10. /\ t.packet.kind = "payload" /\ t.packet.pusi = FALSE /\ t.packet.pointer = 0
       /\ t.packet.payload = w /\ t.packet.cc = counter
       /\ t.packet = [kind |-> "payload", pusi |-> t.packet.pusi, pointer |-> t.packet.pointer,
                      payload |-> t.packet.payload, cc |-> t.packet.cc]
  BY <1>1 DEF Packet
<1> DEFINE p == Piece("NO_START", w)
<1>11. calls = <<p>> BY <1>10 DEF Pieces
<1>12. p.start_flag = "NO_START" /\ p.bytes = w /\ p = Piece(p.start_flag, p.bytes)
  BY DEF Piece
<1> HIDE DEF p, calls
<1>13. IsPiece(lens, n, p)
  BY <1>3, <1>7, <1>12 DEF IsPiece, Flags, P
<1>14. /\ calls # <<>> /\ IsTodo(lens, n, calls) /\ Len(calls) = 1 /\ Head(calls) = p
       /\ calls[1] = p
  BY <1>11, <1>13, OneCall
<1>15. IsLast(lens, n, (counter + 1) % CounterSize, t.packet)
  <2>1. counter \in 0 .. CounterSize - 1 BY DEF Stream
  <2>2. 0 \in 0 .. Len(w) /\ Len(w) =< PayloadSize BY <1>2, <1>3 DEF P
  <2> QED BY <1>7, <1>10, <1>14, <2>1, <2>2 DEF IsLast, calls
<1>16. K \in SectionsOf(w)
  <2>1. 1 \in 1 .. Len(w) BY <1>2, <1>3
  <2>2. w[1][1] = K /\ K # 0 BY <1>5, <1>7
  <2> QED BY <1>2, <1>3, <2>1, <2>2, SectionsHas
<1>17. \/ Len(w) >= R
       \/ Len(w) = P /\ n = R - P
  BY <1>2, <1>3, <1>4, <1>5
<1>18. \A i \in 1 .. Len(calls) : \A j \in 1 .. Len(calls[i].bytes) :
          calls[i].bytes[j][1] # 0 => K < calls[i].bytes[j][1] \/ (rest # <<>> /\ calls[i].bytes[j][1] = K)
  <2> TAKE i \in 1 .. Len(calls)
  <2>1. calls[i].bytes = w /\ Len(w) = P BY <1>3, <1>12, <1>14
  <2> QED BY <1>1, <1>7, <2>1
<1>19. \A k \in K + 1 .. K : FALSE BY <1>5
<1>20. IsNext(lens, left, t.packet)
  <2>1. Len(t.packet.payload) = IF t.packet.pusi THEN PayloadSize - 1 ELSE PayloadSize
    BY <1>3, <1>10 DEF P
  <2> QED BY <1>1, <1>2, <1>5, <1>7, <1>9, <1>10, <1>12, <1>14, <1>15, <1>16, <1>17, <1>18,
             <1>19, <2>1
          DEF IsNext, calls, R, K, x, n, P
<1> QED BY <1>1, <1>8, <1>20

\* The payload w has room for q bytes v of the sections u, after the end r of another section.
IsPayload(r, u, q, w, left) ==
    LET v == Remaining(w, Len(r))
    IN /\ w \in Seq(Byte) /\ Len(w) = Len(r) + q /\ SubSeq(w, 1, Len(r)) = r
       /\ IsSplit(u, q, v, left)
       /\ \A i \in 1 .. q : w[Len(r) + i] = v[i]
       /\ \A i \in 1 .. Len(r) : w[i] = r[i]

LEMMA PayloadIs ==
  ASSUME NEW r \in Seq(Byte), NEW u \in Seq(Byte), NEW q \in Nat
  PROVE  IsPayload(r, u, q, Padded(r \o u, Len(r) + q), Remaining(r \o u, Len(r) + q))
<1> DEFINE R == Len(r)
           U == Len(u)
           s == r \o u
           N == R + q
           w == Padded(s, N)
           v == Remaining(w, R)
           left == Remaining(s, N)
           z == SubSeq(w, 1, R)
<1>1. /\ s \in Seq(Byte) /\ Len(s) = R + U /\ R \in Nat /\ U \in Nat
      /\ \A i \in 1 .. R : s[i] = r[i]
      /\ \A i \in 1 .. U : s[R + i] = u[i]
  BY ConcatIs
<1>2. N \in Nat /\ N = R + q /\ Stuffing \in Byte BY <1>1 DEF Stuffing, Byte
<1> HIDE DEF s, N
<1>3. /\ w \in Seq(Byte) /\ Len(w) = N
      /\ \A i \in 1 .. N : w[i] = IF i =< Len(s) THEN s[i] ELSE Stuffing
  BY <1>1, <1>2, PaddedIs
<1>4. left \in Seq(Byte) /\ IsTail(left, s, N) BY <1>1, <1>2, TailIs
<1>5. left \in Seq(Byte) /\ Len(left) = (IF N =< Len(s) THEN Len(s) - N ELSE 0)
      /\ \A i \in 1 .. Len(s) - N : left[i] = s[N + i]
  <2> HIDE DEF left
  <2> QED BY <1>4 DEF IsTail
<1> HIDE DEF w, left
<1>6. v \in Seq(Byte) /\ IsTail(v, w, R) BY <1>1, <1>3, TailIs
<1>7. v \in Seq(Byte) /\ Len(v) = (IF R =< Len(w) THEN Len(w) - R ELSE 0)
      /\ \A i \in 1 .. Len(w) - R : v[i] = w[R + i]
  <2> HIDE DEF v, R
  <2> QED BY <1>6 DEF IsTail
<1>8. R \in 0 .. Len(w) BY <1>1, <1>2, <1>3
<1>9. z \in Seq(Byte) /\ Len(z) = R /\ \A i \in 1 .. R : z[i] = w[i] BY <1>3, <1>8, PrefixIs
<1> HIDE DEF v, z, R, U
<1>10. Len(v) = q /\ \A i \in 1 .. q : v[i] = w[R + i] BY <1>1, <1>2, <1>3, <1>7
<1>11. \A i \in 1 .. R : w[i] = r[i]
  <2> TAKE i \in 1 .. R
  <2>1. i \in 1 .. N /\ i =< Len(s) BY <1>1, <1>2
  <2> QED BY <1>1, <1>3, <2>1
<1>12. z = r
  <2>1. Len(z) = Len(r) /\ \A i \in 1 .. Len(z) : z[i] = r[i] BY <1>9, <1>11 DEF R
  <2> QED BY <1>9, <2>1, SeqEqual
<1>13. \A i \in 1 .. q : v[i] = IF i =< U THEN u[i] ELSE Stuffing
  <2> TAKE i \in 1 .. q
  <2>1. R + i \in 1 .. N BY <1>1, <1>2
  <2>2. CASE i =< U
    <3>1. R + i =< Len(s) /\ i \in 1 .. U BY <1>1, <2>2
    <3> QED BY <1>1, <1>3, <1>10, <2>1, <2>2, <3>1
  <2>3. CASE ~ (i =< U)
    <3>1. ~ (R + i =< Len(s)) BY <1>1, <2>3
    <3> QED BY <1>3, <1>10, <2>1, <2>3, <3>1
  <2> QED BY <2>2, <2>3
<1>14. Len(left) = IF q =< U THEN U - q ELSE 0 BY <1>1, <1>2, <1>5
<1>15. \A i \in 1 .. Len(left) : left[i] = u[q + i]
  <2> TAKE i \in 1 .. Len(left)
  <2>1. i \in 1 .. Len(s) - N /\ q + i \in 1 .. U /\ N + i = R + (q + i)
    BY <1>1, <1>2, <1>5
  <2> QED BY <1>1, <1>5, <2>1
<1>16. IsSplit(u, q, v, left) BY <1>5, <1>7, <1>10, <1>13, <1>14, <1>15 DEF IsSplit, U
<1>17. IsPayload(r, u, q, w, left)
  BY <1>2, <1>3, <1>10, <1>11, <1>12, <1>16 DEF IsPayload, R, v, z
<1> QED BY <1>17 DEF R, s, N, w, left


LEMMA BeginningsIs ==
  ASSUME Stream, NEW t \in Beginnings
  PROVE  IsNext(lens \o t.new, t.left, t.packet)
<1> DEFINE K == Len(lens)
           R == Len(rest)
           P == PayloadSize
           q == P - 1 - R
           new == t.new
           m == Len(new)
           u == FlattenSeq([j \in DOMAIN new |-> Section(K + j, new[j])])
           w == Padded(rest \o u, P - 1)
           v == Remaining(w, R)
           left == Remaining(rest \o u, P - 1)
           more == lens \o new
           n == Len(left)
           calls == Pieces(t.packet)
<1>1. /\ new \in BoundedSeq(SectionLens, MaxSections - Len(lens)) /\ new # <<>>
      /\ Len(rest \o u) - Last(new) < P - 1
      /\ t.packet = Packet(TRUE, R, w) /\ t.left = left
  <2>1. PICK z \in BoundedSeq(SectionLens, MaxSections - Len(lens)) :
           LET b == rest \o FlattenSeq([j \in DOMAIN z |-> Section(Len(lens) + j, z[j])])
           IN /\ z # <<>> /\ Len(b) - Last(z) < PayloadSize - 1
              /\ t = [packet |-> Packet(TRUE, Len(rest), Padded(b, PayloadSize - 1)), new |-> z,
                      left |-> Remaining(b, PayloadSize - 1)]
    BY DEF Beginnings
  <2>2. t.new = z BY <2>1
  <2> QED BY <2>1, <2>2
<1>2. /\ lens \in Seq(SectionLens) /\ rest \in Seq(Byte) /\ IsRest(lens, rest)
      /\ P \in Nat /\ P >= 1 /\ R \in Nat /\ K \in Nat /\ (rest = <<>> <=> R = 0)
  BY StreamIs, RestIs, Sizes, LensIs DEF Stream
<1> HIDE DEF new
<1>3. /\ m \in Nat /\ m >= 1 /\ more \in Seq(SectionLens) /\ Len(more) = K + m
      /\ more[Len(more)] = Last(new)
      /\ \A k \in 1 .. K : more[k] = lens[k]
      /\ IsSections(more, K, m, u)
  BY <1>1, <1>2, NewIs
<1> HIDE DEF u, more, m
<1>4. u \in Seq(Byte) /\ Len(u) - more[Len(more)] \in Nat /\ Len(u) \in Nat
  <2>1. u \in Seq(Byte) /\ Len(u) - more[K + m] \in Nat BY <1>3 DEF IsSections
  <2> QED BY <1>3, <2>1, LenProperties
<1>5. q \in Nat /\ P - 1 = R + q /\ Len(u) - more[Len(more)] < q
  <2> DEFINE l == Last(new)
             U == Len(u)
  <2>1. Len(rest \o u) = R + U BY <1>2, <1>4, ConcatIs
  <2>2. R + U - l < P - 1 /\ U - l \in Nat /\ U \in Nat /\ l \in Nat
    <3>1. Len(more) \in 1 .. Len(more) BY <1>2, <1>3
    <3>2. l \in Nat BY <1>3, <3>1, LensIs
    <3> QED BY <1>1, <1>3, <1>4, <2>1, <3>2
  <2> HIDE DEF l, U
  <2>3. q \in Nat /\ P - 1 = R + q /\ U - l < q BY <1>2, <2>2
  <2> QED BY <1>3, <2>3 DEF l, U
<1> HIDE DEF q, R, K
<1>6. /\ w \in Seq(Byte) /\ Len(w) = R + q /\ SubSeq(w, 1, R) = rest
      /\ IsSplit(u, q, v, left)
      /\ \A i \in 1 .. q : w[R + i] = v[i]
      /\ \A i \in 1 .. R : w[i] = rest[i]
  <2>1. IsPayload(rest, u, q, w, left) BY <1>2, <1>4, <1>5, PayloadIs DEF R
  <2> HIDE DEF w, left
  <2> QED BY <2>1 DEF IsPayload, R
<1> HIDE DEF w, v, left, n, P
<1>7. n \in Nat /\ left \in Seq(Byte) /\ v \in Seq(Byte) /\ Len(v) = q
  BY <1>6, LenProperties DEF IsSplit, n
<1>8. /\ IsRest(more, left) /\ v \in Seq(SentBytes(more, n))
      /\ IsRun(more, v) /\ IsCutAt(more, n, v)
      /\ v # <<>> /\ v[1] = <<K + 1, 1>>
      /\ \A i \in 1 .. q : v[i][1] # 0 => K < v[i][1]
      /\ \A c \in K + 1 .. Len(more) : \E i \in 1 .. q : v[i] = <<c, 1>>
  <2>1. Opens(more, K, q, v, left) BY <1>2, <1>3, <1>5, <1>6, BeginningIs
  <2> QED BY <2>1 DEF Opens, n
<1>9. Extends(lens, R, more, n)
  <2>1. K =< K + m /\ K # K + m BY <1>2, <1>3
  <2> QED BY <1>3, <2>1 DEF Extends, K
<1>10. /\ t.packet.kind = "payload" /\ t.packet.pusi = TRUE /\ t.packet.pointer = R
       /\ t.packet.payload = w /\ t.packet.cc = counter
       /\ t.packet = [kind |-> "payload", pusi |-> t.packet.pusi, pointer |-> t.packet.pointer,
                      payload |-> t.packet.payload, cc |-> t.packet.cc]
  BY <1>1 DEF Packet
<1> DEFINE p == Piece("START_TS", v)
           e == Piece("NO_START", rest)
<1>11. calls = IF R = 0 THEN <<p>> ELSE <<e, p>>
  BY <1>6, <1>10 DEF Pieces, v
<1>12. /\ p.start_flag = "START_TS" /\ p.bytes = v /\ p = Piece(p.start_flag, p.bytes)
       /\ e.start_flag = "NO_START" /\ e.bytes = rest /\ e = Piece(e.start_flag, e.bytes)
  BY DEF Piece
<1> HIDE DEF p, e, calls
<1>13. R + q =< PayloadSize /\ R =< PayloadSize /\ q =< PayloadSize
  BY <1>2, <1>5 DEF P
<1>14. IsPiece(more, n, p)
  BY <1>7, <1>8, <1>12, <1>13 DEF IsPiece, Flags
<1>15. R # 0 => /\ IsEnding(more, rest) /\ rest \in Seq(SentBytes(more, n))
                /\ rest # <<>> /\ rest[1] = <<K, lens[K] - R + 1>>
                /\ \A i \in 1 .. R : rest[i][1] # 0 => rest[i][1] = K
                /\ K \in 1 .. K
  <2> SUFFICES ASSUME R # 0
               PROVE  /\ IsEnding(more, rest) /\ rest \in Seq(SentBytes(more, n))
                      /\ rest # <<>> /\ rest[1] = <<K, lens[K] - R + 1>>
                      /\ \A i \in 1 .. R : rest[i][1] # 0 => rest[i][1] = K
                      /\ K \in 1 .. K
    OBVIOUS
  <2> DEFINE z == <<>>
  <2>1. z \in Seq(Byte) /\ Len(z) = 0 BY EmptySeq
  <2>2. Len(rest) = R BY DEF R
  <2> HIDE DEF z
  <2>3. IsSplit(rest, R, rest, z) BY <1>2, <2>1, <2>2 DEF IsSplit
  <2>4. rest # <<>> /\ R >= 1 BY <1>2
  <2>13. EndOf(lens, rest, R, rest, z) BY <1>2, <2>3, EndingIs
  <2>5. IsEnding(lens, rest) BY <2>13 DEF EndOf
  <2>6. rest \in Seq(SentBytes(lens, 0)) BY <2>1, <2>13 DEF EndOf
  <2>7. rest[1] = <<K, lens[K] - R + 1>> BY <2>4, <2>13 DEF EndOf, R, K
  <2>8. \A i \in 1 .. R : rest[i][1] # 0 => rest[i][1] = K BY <2>13 DEF EndOf, K
  <2>9. Extends(lens, 0, more, n) BY <1>2, <1>3, <1>9 DEF Extends, K
  <2>10. rest \in Seq(SentBytes(more, n)) BY <1>2, <1>3, <1>7, <2>6, <2>9, SentExtends
  <2>11. IsEnding(more, rest) BY <1>2, <1>3, <1>7, <2>5, <2>6, <2>9, EndingExtends
  <2>12. K \in 1 .. K BY <2>4, StreamIs DEF K
  <2> QED BY <2>4, <2>7, <2>8, <2>10, <2>11, <2>12
<1>16. R # 0 => IsPiece(more, n, e) /\ IsPair(e.bytes, p.bytes)
  <2> SUFFICES ASSUME R # 0 PROVE IsPiece(more, n, e) /\ IsPair(e.bytes, p.bytes) OBVIOUS
  <2>1. IsPiece(more, n, e) BY <1>12, <1>13, <1>15 DEF IsPiece, Flags, R
  <2>2. rest[1][1] = K /\ v[1][1] = K + 1 BY <1>8, <1>15
  <2>3. IsPair(rest, v) BY <1>2, <2>2 DEF IsPair
  <2> QED BY <1>12, <2>1, <2>3
<1>17. calls # <<>> /\ IsTodo(more, n, calls)
  <2>1. CASE R = 0 BY <1>11, <1>14, <2>1, OneCall
  <2>2. CASE R # 0
    <3>1. IsBeginning(more, n, e, p)
      BY <1>7, <1>12, <1>13, <1>14, <1>16, <2>2 DEF IsBeginning, R
    <3>2. calls = <<e, p>> BY <1>11, <2>2
    <3> QED BY <3>1, <3>2, IsTodoTwo, TwoCalls
  <2> QED BY <2>1, <2>2
<1>18. w \in Seq(SentBytes(more, n))
  <2>1. ASSUME NEW i \in 1 .. R + q PROVE w[i] \in SentBytes(more, n)
    <3>1. CASE i =< R
      <4>1. i \in 1 .. R /\ R # 0 BY <1>2, <3>1
      <4>2. rest \in Seq(SentBytes(more, n)) /\ Len(rest) = R BY <1>15, <4>1 DEF R
      <4>3. rest[i] \in SentBytes(more, n) BY <4>1, <4>2, ElementOfSeq
      <4> QED BY <1>6, <4>1, <4>3
    <3>2. CASE i > R
      <4> DEFINE j == i - R
      <4>1. j \in 1 .. q /\ i = R + j BY <1>2, <1>5, <3>2
      <4> HIDE DEF j
      <4>2. v[j] \in SentBytes(more, n) BY <1>7, <1>8, <4>1, ElementOfSeq
      <4> QED BY <1>6, <4>1, <4>2
    <3> QED BY <1>2, <3>1, <3>2
  <2>2. w \in [1 .. R + q -> Byte] BY <1>6, LenProperties
  <2>3. w \in [1 .. R + q -> SentBytes(more, n)] BY <2>1, <2>2
  <2>4. R + q \in Nat BY <1>2, <1>5
  <2> QED BY <2>3, <2>4, MapIs
<1>19. \A c \in K + 1 .. Len(more) :
          \E i \in R + 1 .. Len(w) : w[i] = <<c, 1>> /\ i - R \in 1 .. q /\ v[i - R] = <<c, 1>>
  <2> TAKE c \in K + 1 .. Len(more)
  <2>1. PICK j \in 1 .. q : v[j] = <<c, 1>> BY <1>8
  <2>2. R + j \in R + 1 .. Len(w) /\ w[R + j] = v[j] /\ (R + j) - R = j
    BY <1>2, <1>5, <1>6
  <2> QED BY <2>1, <2>2
<1>20. IsLast(more, n, (counter + 1) % CounterSize, t.packet)
  <2>1. counter \in 0 .. CounterSize - 1 BY DEF Stream
  <2>2. R \in 0 .. Len(w) /\ Len(w) =< PayloadSize BY <1>2, <1>5, <1>6, <1>13
  <2>3. Len(more) \in K + 1 .. Len(more) BY <1>2, <1>3
  <2>4. \E i \in R + 1 .. Len(w) : w[i] = <<Len(more), 1>> BY <1>19, <2>3
  <2> QED BY <1>10, <1>17, <1>18, <2>1, <2>2, <2>4 DEF IsLast, calls
<1>21. rest # <<>> => K \in SectionsOf(w)
  <2> SUFFICES ASSUME rest # <<>> PROVE K \in SectionsOf(w) OBVIOUS
  <2>1. R # 0 /\ 1 \in 1 .. R /\ 1 \in 1 .. Len(w) BY <1>2, <1>5, <1>6
  <2>2. w[1] = rest[1] /\ rest[1] = <<K, lens[K] - R + 1>> /\ K # 0 BY <1>2, <1>6, <1>15, <2>1
  <2>3. w[1][1] = K /\ K # 0 BY <2>2
  <2>4. Len(w) \in Nat BY <1>2, <1>5, <1>6
  <2> QED BY <1>6, <2>1, <2>3, <2>4, SectionsHas
<1>22. \A c \in K + 1 .. Len(more) : Begins(calls, c) /\ c \in SectionsOf(w)
  <2> TAKE c \in K + 1 .. Len(more)
  <2>1. PICK i \in R + 1 .. Len(w) :
           w[i] = <<c, 1>> /\ i - R \in 1 .. q /\ v[i - R] = <<c, 1>>
    BY <1>19
  <2>2. c \in SectionsOf(w)
    <3>1. Len(w) \in Nat /\ i \in 1 .. Len(w) BY <1>2, <1>5, <1>6
    <3>2. w[i][1] = c /\ c # 0 BY <1>2, <2>1
    <3> QED BY <1>6, <3>1, <3>2, SectionsHas
  <2>3. calls[Len(calls)] = p BY <1>11, OneCall, TwoCalls
  <2>4. \E j \in 1 .. Len(v) : v[j] = <<c, 1>> BY <1>7, <2>1
  <2>5. Begins(calls, c) BY <1>12, <1>17, <2>3, <2>4 DEF Begins
  <2> QED BY <2>2, <2>5
<1>23. \A i \in 1 .. Len(calls) : \A j \in 1 .. Len(calls[i].bytes) :
          LET c == calls[i].bytes[j][1] IN c # 0 => K < c \/ (rest # <<>> /\ c = K)
  <2> TAKE i \in 1 .. Len(calls)
  <2>1. calls[i] = p \/ (R # 0 /\ calls[i] = e)
    <3>1. CASE R = 0
      <4>1. calls = <<p>> BY <1>11, <3>1
      <4> QED BY <4>1
    <3>2. CASE R # 0
      <4>1. calls = <<e, p>> BY <1>11, <3>2
      <4> QED BY <3>2, <4>1
    <3> QED BY <3>1, <3>2
  <2>2. CASE calls[i] = p
    <3>1. calls[i].bytes = v /\ Len(v) = q BY <1>7, <1>12, <2>2
    <3> QED BY <1>8, <3>1
  <2>3. CASE R # 0 /\ calls[i] = e
    <3>1. calls[i].bytes = rest /\ Len(rest) = R BY <1>12, <2>3 DEF R
    <3>2. \A j \in 1 .. R : rest[j][1] # 0 => rest[j][1] = K BY <1>15, <2>3
    <3> QED BY <1>15, <2>3, <3>1, <3>2
  <2> QED BY <2>1, <2>2, <2>3
<1>24. rest # <<>> => /\ Head(calls) = e /\ e.start_flag = "NO_START" /\ e.bytes = rest
                      /\ rest[1] = <<K, lens[K] - R + 1>> /\ Len(rest) >= Len(rest)
  <2> SUFFICES ASSUME rest # <<>>
               PROVE  /\ Head(calls) = e /\ e.start_flag = "NO_START" /\ e.bytes = rest
                      /\ rest[1] = <<K, lens[K] - R + 1>> /\ Len(rest) >= Len(rest)
    OBVIOUS
  <2>1. R # 0 /\ Len(rest) = R BY <1>2 DEF R
  <2>2. calls = <<e, p>> BY <1>11, <2>1
  <2>3. Head(calls) = e BY <2>2, TwoCalls
  <2>4. Len(rest) >= Len(rest) BY <1>2, <2>1
  <2> QED BY <1>12, <1>15, <2>1, <2>3, <2>4
<1>25. IsNext(more, left, t.packet)
  <2>1. rest # <<>> =>
             /\ K \in SectionsOf(t.packet.payload)
             /\ Head(calls).start_flag = "NO_START" /\ Head(calls).bytes # <<>>
             /\ Head(calls).bytes[1] = <<K, lens[K] - Len(rest) + 1>>
             /\ Len(Head(calls).bytes) >= Len(rest)
    BY <1>10, <1>21, <1>24 DEF R
  <2>2. Len(t.packet.payload) = IF t.packet.pusi THEN PayloadSize - 1 ELSE PayloadSize
    BY <1>5, <1>6, <1>10 DEF P
  <2> QED BY <1>3, <1>7, <1>8, <1>9, <1>10, <1>20, <1>22, <1>23, <2>1, <2>2
          DEF IsNext, calls, R, K, n
<1> QED BY <1>1, <1>25 DEF more, new


LEMMA NullPiece ==
  ASSUME NEW ls, NEW n, NEW s \in Seq({Noise}), Len(s) =< PayloadSize,
         NEW flag \in {"NO_START", "START_TS"}
  PROVE  /\ IsPiece(ls, n, Piece(flag, s)) /\ Piece(flag, s).bytes = s
         /\ Piece(flag, s).start_flag = flag
         /\ \A j \in 1 .. Len(s) : s[j][1] = 0
<1> DEFINE p == Piece(flag, s)
<1>1. \A j \in 1 .. Len(s) : s[j][1] = 0
  <2>1. \A j \in 1 .. Len(s) : s[j] = Noise BY ElementOfSeq
  <2> QED BY <2>1, NullSent
<1>2. p.start_flag = flag /\ p.bytes = s /\ p = Piece(p.start_flag, p.bytes) BY DEF Piece
<1> HIDE DEF p
<1>3. s \in Seq(SentBytes(ls, n))
  <2>1. {Noise} \subseteq SentBytes(ls, n) BY NullSent
  <2> QED BY <2>1, SeqMonotonic
<1>4. AllNull(s) BY <1>1 DEF AllNull
<1>5. IsEnding(ls, s) /\ IsRun(ls, s) BY <1>4 DEF IsEnding, IsRun
<1>6. IsCutAt(ls, n, s)
  <2>1. s # <<>> => Len(s) \in 1 .. Len(s)
    <3>1. Len(s) \in Nat /\ (s = <<>> <=> Len(s) = 0) BY LenProperties, EmptySeq
    <3> QED BY <3>1
  <2>2. s # <<>> => s[Len(s)][1] = 0 BY <1>1, <2>1
  <2> QED BY <2>2 DEF IsCutAt
<1>7. IsPiece(ls, n, p) BY <1>2, <1>3, <1>5, <1>6 DEF IsPiece, Flags
<1> QED BY <1>1, <1>2, <1>7 DEF p

NullCalls(calls) ==
    \A i \in 1 .. Len(calls) : \A j \in 1 .. Len(calls[i].bytes) : calls[i].bytes[j][1] = 0

\* The calls for a packet whose payload is damaged
LEMMA DamagedIs ==
  ASSUME NEW ls, NEW n, NEW packet, NEW L \in Nat, L =< PayloadSize, packet.pusi \in BOOLEAN,
         packet.payload \in [1 .. L -> {Noise}], packet.pusi => packet.pointer \in 0 .. L
  PROVE  LET calls == Pieces(packet)
         IN calls # <<>> /\ IsTodo(ls, n, calls) /\ NullCalls(calls)
<1> DEFINE s == packet.payload
           o == packet.pointer
           a == SubSeq(s, 1, o)
           b == Remaining(s, o)
           p == Piece("NO_START", s)
           x == Piece("NO_START", a)
           y == Piece("START_TS", b)
           calls == Pieces(packet)
<1>1. s \in Seq({Noise}) /\ Len(s) = L BY MapIs
<1>2. calls = IF ~ packet.pusi THEN <<p>> ELSE IF o = 0 THEN <<y>> ELSE <<x, y>>
  BY DEF Pieces
<1> HIDE DEF p, x, y, s, o, calls
<1>3. CASE ~ packet.pusi
  <2>1. calls = <<p>> BY <1>2, <1>3
  <2>2. IsPiece(ls, n, p) /\ p.bytes = s /\ \A j \in 1 .. Len(s) : s[j][1] = 0
    BY <1>1, NullPiece DEF p
  <2>3. calls # <<>> /\ IsTodo(ls, n, calls) /\ Len(calls) = 1 BY <2>1, <2>2, OneCall
  <2>4. \A i \in 1 .. Len(calls) : calls[i] = p BY <2>1, <2>3
  <2>5. NullCalls(calls) BY <2>2, <2>4 DEF NullCalls
  <2> QED BY <2>3, <2>5 DEF calls
<1>4. CASE packet.pusi
  <2>1. o \in 0 .. Len(s) /\ o \in Nat /\ o =< L BY <1>1, <1>4 DEF o
  <2>2. a \in Seq({Noise}) /\ Len(a) = o BY <1>1, <2>1, PrefixIs
  <2>3. b \in Seq({Noise}) /\ Len(b) = L - o BY <1>1, <2>1, RemainingIs
  <2> HIDE DEF a, b
  <2>4. Len(a) =< PayloadSize /\ Len(b) =< PayloadSize /\ Len(a) + Len(b) =< PayloadSize
    BY <2>1, <2>2, <2>3, Sizes
  <2>5. /\ IsPiece(ls, n, x) /\ x.bytes = a /\ x.start_flag = "NO_START"
        /\ \A j \in 1 .. Len(a) : a[j][1] = 0
    BY <2>2, <2>4, NullPiece DEF x
  <2>6. /\ IsPiece(ls, n, y) /\ y.bytes = b /\ y.start_flag = "START_TS"
        /\ \A j \in 1 .. Len(b) : b[j][1] = 0
    BY <2>3, <2>4, NullPiece DEF y
  <2>7. CASE o = 0
    <3>1. calls = <<y>> BY <1>2, <1>4, <2>7
    <3>2. calls # <<>> /\ IsTodo(ls, n, calls) /\ Len(calls) = 1 BY <2>6, <3>1, OneCall
    <3>3. \A i \in 1 .. Len(calls) : calls[i] = y BY <3>1, <3>2
    <3>4. NullCalls(calls) BY <2>6, <3>3 DEF NullCalls
    <3> QED BY <3>2, <3>4 DEF calls
  <2>8. CASE o # 0
    <3>1. calls = <<x, y>> BY <1>2, <1>4, <2>8
    <3>2. IsPair(a, b)
      <4>1. a # <<>> => 1 \in 1 .. Len(a) BY <2>1, <2>2, <2>8
      <4> QED BY <2>5, <4>1 DEF IsPair
    <3>3. IsBeginning(ls, n, x, y) BY <2>4, <2>5, <2>6, <3>2 DEF IsBeginning
    <3>4. calls # <<>> /\ IsTodo(ls, n, calls) BY <3>1, <3>3, IsTodoTwo, TwoCalls
    <3>5. \A i \in 1 .. Len(calls) : calls[i] = x \/ calls[i] = y BY <3>1
    <3>6. NullCalls(calls) BY <2>5, <2>6, <3>5 DEF NullCalls
    <3> QED BY <3>4, <3>6 DEF calls
  <2> QED BY <2>7, <2>8
<1> QED BY <1>3, <1>4

-----------------------------------------------------------------------------
(* The sender *)

LEMMA TransmitIs ==
  ASSUME Stream, NEW t \in Continuation \cup Beginnings, Transmit(t)
  PROVE  IsNext(lens', rest', t.packet) /\ counter' = (counter + 1) % CounterSize
         /\ last' = t.packet
BY ContinuationIs, BeginningsIs DEF Transmit

LEMMA NextIs ==
  ASSUME NEW more, NEW left, NEW packet, IsNext(more, left, packet)
  PROVE  /\ more \in Seq(SectionLens) /\ Len(left) \in Nat /\ IsRest(more, left)
         /\ Extends(lens, Len(rest), more, Len(left))
         /\ IsLast(more, Len(left), (counter + 1) % CounterSize, packet) /\ packet.cc = counter
         /\ packet.kind = "payload" /\ packet.pusi \in BOOLEAN
         /\ packet.payload \in Seq(SentBytes(more, Len(left))) /\ packet.payload \in Seq(Byte)
         /\ Len(packet.payload) = IF packet.pusi THEN PayloadSize - 1 ELSE PayloadSize
         /\ Pieces(packet) # <<>> /\ IsTodo(more, Len(left), Pieces(packet))
         /\ packet # NoPacket /\ SectionsOf(packet.payload) \subseteq Nat
<1>1. /\ more \in Seq(SectionLens) /\ Len(left) \in Nat /\ IsRest(more, left)
      /\ Extends(lens, Len(rest), more, Len(left))
      /\ IsLast(more, Len(left), (counter + 1) % CounterSize, packet) /\ packet.cc = counter
      /\ Len(packet.payload) = IF packet.pusi THEN PayloadSize - 1 ELSE PayloadSize
  BY DEF IsNext
<1>2. packet.kind = "payload"
  <2>1. packet = [kind |-> "payload", pusi |-> packet.pusi, pointer |-> packet.pointer,
                  payload |-> packet.payload, cc |-> packet.cc]
    BY <1>1 DEF IsLast
  <2>2. \A a, b, c, d : [kind |-> "payload", pusi |-> a, pointer |-> b, payload |-> c,
                         cc |-> d].kind = "payload"
    OBVIOUS
  <2> QED BY <2>1, <2>2
<1>3. /\ packet.payload \in Seq(SentBytes(more, Len(left))) /\ packet.pusi \in BOOLEAN
      /\ Pieces(packet) # <<>> /\ IsTodo(more, Len(left), Pieces(packet))
  BY <1>1 DEF IsLast
<1>4. packet.payload \in Seq(Byte) BY <1>1, <1>3, SentIs
<1>5. packet # NoPacket BY <1>2 DEF NoPacket
<1>6. SectionsOf(packet.payload) \subseteq Nat
  <2> DEFINE s == packet.payload
  <2>1. DOMAIN s = 1 .. Len(s) /\ \A i \in 1 .. Len(s) : s[i] \in Byte
    BY <1>4, LenProperties, ElementOfSeq
  <2>2. \A i \in 1 .. Len(s) : s[i][1] \in Nat BY <2>1, ByteIs
  <2> HIDE DEF s
  <2>3. SectionsOf(s) \subseteq Nat BY <2>1, <2>2 DEF SectionsOf
  <2> QED BY <2>3 DEF s
<1> QED BY <1>1, <1>2, <1>3, <1>4, <1>5, <1>6

LEMMA TransmitStream ==
  ASSUME Stream, NEW t \in Continuation \cup Beginnings, Transmit(t),
         faults' = faults \/ Fault, spoiled' = spoiled \/ Spoil(t.packet), repeated' = repeated
  PROVE  Stream'
<1>1. /\ IsNext(lens', rest', t.packet) /\ counter' = (counter + 1) % CounterSize
      /\ last' = t.packet
  BY TransmitIs
<1>2. /\ lens' \in Seq(SectionLens) /\ IsRest(lens', rest') /\ t.packet # NoPacket
      /\ IsLast(lens', Len(rest'), counter', t.packet)
      /\ SectionsOf(t.packet.payload) \subseteq Nat
  BY <1>1, NextIs
<1>3. counter' \in 0 .. CounterSize - 1
  <2>1. counter \in 0 .. CounterSize - 1 BY DEF Stream
  <2> QED BY <1>1, <2>1, Sizes
<1>4. faults' \in 0 .. MaxFaults
  <2>1. faults \in 0 .. MaxFaults BY DEF Stream
  <2> QED BY <2>1, Sizes DEF Fault
<1>5. spoiled' \subseteq Nat BY <1>2 DEF Spoil, Stream
<1>6. repeated' \in BOOLEAN BY DEF Stream
<1> QED BY <1>1, <1>2, <1>3, <1>4, <1>5, <1>6 DEF Stream


\* A packet that was sent or sent again, refused or damaged, is one that comes.
LEMMA ArriveComes ==
  ASSUME Stream, NEW t \in Continuation \cup Beginnings, Arrive(t)
  PROVE  Comes(t.packet) /\ IsNext(lens', rest', t.packet) /\ t.packet.kind = "payload"
         /\ t.packet.cc = counter
<1>1. pc = "idle" /\ Transmit(t) /\ Receive(t.packet) BY DEF Arrive
<1>2. IsNext(lens', rest', t.packet) /\ counter' = (counter + 1) % CounterSize
  BY <1>1, TransmitIs
<1>3. counter \in 0 .. CounterSize - 1 BY DEF Stream
<1>4. /\ lens' \in Seq(SectionLens) /\ Len(rest') \in Nat
      /\ Extends(lens, Len(rest), lens', Len(rest'))
      /\ t.packet.cc = counter /\ t.packet.kind = "payload"
      /\ Pieces(t.packet) # <<>> /\ IsTodo(lens', Len(rest'), Pieces(t.packet))
  BY <1>2, NextIs
<1> QED BY <1>1, <1>2, <1>3, <1>4 DEF Comes

LEMMA DamageComes ==
  ASSUME Stream, NEW t \in Continuation \cup Beginnings, Damage(t)
  PROVE  /\ IsNext(lens', rest', t.packet)
         /\ \E packet : Comes(packet) /\ packet.kind = "payload" /\ NullCalls(Pieces(packet))
<1>1. pc = "idle" /\ Transmit(t) BY DEF Damage
<1>2. PICK pointer \in IF t.packet.pusi THEN 0 .. PayloadSize - 1 ELSE {0} :
         Receive([t.packet EXCEPT !.pointer = pointer,
                                  !.payload = [i \in DOMAIN t.packet.payload |-> Noise]])
  BY DEF Damage
<1> DEFINE s == [i \in DOMAIN t.packet.payload |-> Noise]
           d == [t.packet EXCEPT !.pointer = pointer, !.payload = s]
           L == Len(t.packet.payload)
<1>3. IsNext(lens', rest', t.packet) /\ counter' = (counter + 1) % CounterSize
  BY <1>1, TransmitIs
<1>4. /\ lens' \in Seq(SectionLens) /\ Len(rest') \in Nat
      /\ Extends(lens, Len(rest), lens', Len(rest'))
      /\ t.packet.cc = counter /\ t.packet.kind = "payload" /\ t.packet.pusi \in BOOLEAN
      /\ t.packet.payload \in Seq(Byte)
      /\ L = IF t.packet.pusi THEN PayloadSize - 1 ELSE PayloadSize
      /\ IsLast(lens', Len(rest'), (counter + 1) % CounterSize, t.packet)
  BY <1>3, NextIs
<1>5. /\ d.kind = "payload" /\ d.cc = counter /\ d.pusi = t.packet.pusi /\ d.pointer = pointer
      /\ d.payload = s
  <2>1. \A a, b, c, e, f, g : LET r == [kind |-> "payload", pusi |-> a, pointer |-> b,
                                        payload |-> c, cc |-> e]
                                  x == [r EXCEPT !.pointer = f, !.payload = g]
                              IN /\ x.kind = "payload" /\ x.cc = e /\ x.pusi = a /\ x.pointer = f
                                 /\ x.payload = g
    OBVIOUS
  <2>2. t.packet = [kind |-> "payload", pusi |-> t.packet.pusi, pointer |-> t.packet.pointer,
                    payload |-> t.packet.payload, cc |-> t.packet.cc]
    BY <1>4 DEF IsLast
  <2> HIDE DEF s
  <2> QED BY <1>4, <2>1, <2>2
<1>6. L \in Nat /\ L =< PayloadSize BY <1>4, Sizes
<1>7. s \in [1 .. L -> {Noise}]
  <2>1. DOMAIN t.packet.payload = 1 .. L BY <1>4, LenProperties
  <2> QED BY <2>1
<1> HIDE DEF s, d, L
<1>8. d.pusi => d.pointer \in 0 .. L BY <1>2, <1>4, <1>5
<1>9. /\ Pieces(d) # <<>> /\ IsTodo(lens', Len(rest'), Pieces(d)) /\ NullCalls(Pieces(d))
  <2>1. d.pusi \in BOOLEAN BY <1>4, <1>5
  <2>2. d.payload \in [1 .. L -> {Noise}] BY <1>5, <1>7
  <2> QED BY <1>6, <1>8, <2>1, <2>2, DamagedIs
<1>10. counter \in 0 .. CounterSize - 1 BY DEF Stream
<1>11. Receive(d) BY <1>2 DEF d, s
<1>12. Comes(d) BY <1>1, <1>3, <1>4, <1>5, <1>9, <1>10, <1>11 DEF Comes
<1> QED BY <1>3, <1>5, <1>9, <1>12

LEMMA RefuseComes ==
  ASSUME Stream, NEW t \in Continuation \cup Beginnings, Refuse(t)
  PROVE  /\ IsNext(lens', rest', t.packet)
         /\ \E packet : Comes(packet) /\ packet.kind \in {"ignored", "bad_pointer"}
<1>1. pc = "idle" /\ Transmit(t) BY DEF Refuse
<1>2. PICK kind \in {"ignored", "bad_pointer"} : Receive(Refused(kind)) BY DEF Refuse
<1>3. IsNext(lens', rest', t.packet) BY <1>1, TransmitIs
<1>4. /\ lens' \in Seq(SectionLens) /\ Len(rest') \in Nat
      /\ Extends(lens, Len(rest), lens', Len(rest'))
  BY <1>3, NextIs
<1>5. Refused(kind).kind = kind BY DEF Refused
<1> QED BY <1>1, <1>2, <1>3, <1>4, <1>5 DEF Comes

\* The stream is where it was.
LEMMA StreamStays ==
  ASSUME Stream, UNCHANGED <<lens, rest>>
  PROVE  /\ lens' \in Seq(SectionLens) /\ Len(rest') \in Nat
         /\ Extends(lens, Len(rest), lens', Len(rest'))
<1>1. lens \in Seq(SectionLens) /\ Len(rest) \in Nat /\ Len(lens) \in Nat BY StreamIs, LensIs
<1> QED BY <1>1 DEF Extends

LEMMA RepeatComes ==
  ASSUME Stream, Repeat
  PROVE  /\ Comes(last) /\ last.kind = "payload" /\ IsLast(lens, Len(rest), counter, last)
         /\ UNCHANGED <<lens, rest, counter, last, spoiled>> /\ repeated' = TRUE
<1>1. /\ pc = "idle" /\ last # NoPacket /\ Receive(last) /\ repeated' = TRUE
      /\ UNCHANGED <<lens, rest, counter, last, spoiled>>
  BY DEF Repeat
<1>2. IsLast(lens, Len(rest), counter, last) BY <1>1 DEF Stream
<1>3. last.kind = "payload"
  <2>1. last = [kind |-> "payload", pusi |-> last.pusi, pointer |-> last.pointer,
                payload |-> last.payload, cc |-> last.cc]
    BY <1>2 DEF IsLast
  <2>2. \A a, b, c, d : [kind |-> "payload", pusi |-> a, pointer |-> b, payload |-> c,
                         cc |-> d].kind = "payload"
    OBVIOUS
  <2> QED BY <2>1, <2>2
<1>4. /\ last.cc \in 0 .. CounterSize - 1 /\ counter' = (last.cc + 1) % CounterSize
      /\ Pieces(last) # <<>> /\ IsTodo(lens', Len(rest'), Pieces(last))
  BY <1>1, <1>2 DEF IsLast
<1>5. /\ lens' \in Seq(SectionLens) /\ Len(rest') \in Nat
      /\ Extends(lens, Len(rest), lens', Len(rest'))
  BY <1>1, StreamStays
<1>6. Comes(last) BY <1>1, <1>3, <1>4, <1>5 DEF Comes
<1> QED BY <1>1, <1>2, <1>3, <1>6

LEMMA NoPayloadComes ==
  ASSUME Stream, NoPayload
  PROVE  /\ Comes(Refused("ignored")) /\ Refused("ignored").kind = "ignored"
         /\ UNCHANGED <<sender, spoiled, repeated>>
<1>1. pc = "idle" /\ Receive(Refused("ignored")) /\ UNCHANGED <<sender, spoiled, repeated>>
  BY DEF NoPayload
<1>2. Refused("ignored").kind = "ignored" BY DEF Refused
<1>3. /\ lens' \in Seq(SectionLens) /\ Len(rest') \in Nat
      /\ Extends(lens, Len(rest), lens', Len(rest'))
  BY <1>1, StreamStays DEF sender
<1> QED BY <1>1, <1>2, <1>3 DEF Comes

-----------------------------------------------------------------------------
(* The order, and what is known, when a packet comes *)

LEMMA OlderNext ==
  ASSUME Stream, NEW more, NEW left, NEW packet, IsNext(more, left, packet),
         NEW calls, calls = <<>> \/ calls = Pieces(packet) \/ NullCalls(calls),
         NEW k, IsOlder(lens, Len(rest), <<>>, k)
  PROVE  IsOlder(more, Len(left), calls, k)
<1> DEFINE K == Len(lens)
<1>1. /\ more \in Seq(SectionLens) /\ Len(left) \in Nat
      /\ K =< Len(more) /\ (K = Len(more) => Len(left) =< Len(rest))
  BY NextIs DEF Extends
<1>2. K \in Nat /\ Len(more) \in Nat /\ Len(rest) \in Nat /\ (rest = <<>> <=> Len(rest) = 0)
  BY <1>1, StreamIs, LensIs
<1>3. k \in 1 .. K /\ (Len(rest) # 0 => k # K) BY DEF IsOlder
<1>4. ASSUME NEW i \in 1 .. Len(calls), NEW j \in 1 .. Len(calls[i].bytes),
             calls[i].bytes[j][1] # 0
      PROVE  k < calls[i].bytes[j][1]
  <2> DEFINE c == calls[i].bytes[j][1]
  <2>1. calls # <<>>
    <3>1. Len(<<>>) = 0 BY EmptySeq
    <3> QED BY <1>4, <3>1
  <2>2. calls = Pieces(packet) BY <1>4, <2>1 DEF NullCalls
  <2>3. K < c \/ (rest # <<>> /\ c = K) BY <1>4, <2>2 DEF IsNext
  <2>4. CASE rest # <<>> /\ c = K
    <3>1. k < K BY <1>2, <1>3, <2>4
    <3> QED BY <2>4, <3>1
  <2>5. CASE K < c
    <3>1. c \in Nat
      <4>1. IsTodo(more, Len(left), calls) BY <2>2, NextIs
      <4>2. IsPiece(more, Len(left), calls[i])
        <5>1. PICK p, q : \/ calls = <<p>> /\ IsPiece(more, Len(left), p)
                          \/ calls = <<p, q>> /\ IsBeginning(more, Len(left), p, q)
          BY <2>1, <4>1, TodoIs
        <5>2. CASE calls = <<p>> /\ IsPiece(more, Len(left), p)
          <6>1. calls[i] = p BY <5>2
          <6> QED BY <5>2, <6>1
        <5>3. CASE calls = <<p, q>> /\ IsBeginning(more, Len(left), p, q)
          <6>1. calls[i] = p \/ calls[i] = q BY <5>3
          <6> QED BY <5>3, <6>1 DEF IsBeginning
        <5> QED BY <5>1, <5>2, <5>3
      <4>3. calls[i].bytes \in Seq(SentBytes(more, Len(left))) BY <4>2, PieceIs
      <4> QED BY <1>1, <4>3, SentIs
    <3> HIDE DEF c, K
    <3>2. k < c BY <1>2, <1>3, <2>5, <3>1
    <3> QED BY <3>2 DEF c
  <2> QED BY <2>3, <2>4, <2>5
<1>5. k \in 1 .. Len(more) /\ (Len(left) # 0 => k # Len(more)) BY <1>1, <1>2, <1>3
<1> QED BY <1>4, <1>5 DEF IsOlder

LEMMA ComesOrdered ==
  ASSUME NEW packet, Call, Stream, Held, Ordered, Comes(packet), repeated' \in BOOLEAN,
         ~ repeated' => ~ repeated /\ \A k : IsOlder(lens, Len(rest), <<>>, k)
                                               => IsOlder(lens', Len(rest'), todo', k)
  PROVE  Ordered'
<1>1. /\ Len(Coming') \in Nat /\ Len(Coming) \in Nat /\ Len(Coming') =< Len(Coming)
      /\ \A i \in 1 .. Len(Coming') : Coming'[i] = Coming[i]
  BY ComesComing DEF Ordered
<1>2. delivered' = delivered /\ todo = <<>> BY ComesIs
<1>3. ASSUME ~ repeated'
      PROVE  /\ \A i, j \in 1 .. Len(Coming') : i < j => Coming'[i] < Coming'[j]
             /\ \A i \in 1 .. Len(Coming') : IsOlder(lens', Len(rest'), todo', Coming'[i])
  <2>1. /\ \A i, j \in 1 .. Len(Coming) : i < j => Coming[i] < Coming[j]
        /\ \A i \in 1 .. Len(Coming) : IsOlder(lens, Len(rest), todo, Coming[i])
    BY <1>3 DEF Ordered
  <2>2. \A i \in 1 .. Len(Coming') : i \in 1 .. Len(Coming) BY <1>1
  <2>3. \A i, j \in 1 .. Len(Coming') : i < j => Coming'[i] < Coming'[j] BY <1>1, <2>1, <2>2
  <2>4. ASSUME NEW i \in 1 .. Len(Coming')
        PROVE  IsOlder(lens', Len(rest'), todo', Coming'[i])
    <3>1. Coming'[i] = Coming[i] /\ IsOlder(lens, Len(rest), <<>>, Coming[i])
      BY <1>1, <1>2, <2>1, <2>2
    <3> QED BY <1>3, <3>1
  <2> QED BY <2>3, <2>4
<1>4. delivered' \in Seq(Nat) BY <1>2 DEF Ordered
<1> QED BY <1>3, <1>4 DEF Ordered

LEMMA ComesKnown ==
  ASSUME NEW packet, Call, Stream, Held, Comes(packet)
  PROVE  Known \subseteq Known'
<1>1. /\ TakeOut /\ ~ Pending /\ UNCHANGED <<delivered, skipped>>
  BY ComesIs
<1>2. unreported \subseteq unreported'
  <2>1. CASE packet.kind = "payload" BY <2>1, ComesIs
  <2>2. CASE packet.kind # "payload"
    <3>1. unreported' = IF Len(full_lengths) = 1
                        THEN unreported \cup SectionsOf(buffer_full) ELSE unreported
      BY <2>2, ComesIs
    <3> QED BY <3>1
  <2> QED BY <2>1, <2>2
<1>3. CASE full_lengths = <<>>
  <2>1. Waiting = {} BY <1>1, <1>3, TakeOutIs
  <2> QED BY <1>1, <1>2, <2>1 DEF Known
<1>4. CASE full_lengths # <<>>
  <2>1. /\ data_full'[1][1] = Nums[1] /\ Waiting = {Nums[1]} \cup Waiting'
        /\ Len(full_lengths) \in Nat /\ Len(full_lengths) # 0
    BY <1>1, <1>4, TakeOutIs
  <2>2. Nums[1] \in Known'
    <3>1. CASE Pending' BY <2>1, <3>1 DEF Known
    <3>2. CASE ~ Pending'
      <4>1. packet.kind # "payload" BY <1>4, <3>2, ComesIs
      <4>2. ~ (Len(full_lengths) > 1)
        <5>1. Pending' <=> Len(full_lengths) > 1 BY <4>1, ComesIs
        <5> QED BY <3>2, <5>1
      <4>3. Len(full_lengths) = 1
        <5> DEFINE m == Len(full_lengths)
        <5>1. m \in Nat /\ m # 0 /\ ~ (m > 1) BY <2>1, <4>2
        <5> HIDE DEF m
        <5>2. m = 1 BY <5>1
        <5> QED BY <5>2 DEF m
      <4>4. unreported' = unreported \cup SectionsOf(buffer_full)
        <5>1. unreported' = IF Len(full_lengths) = 1
                            THEN unreported \cup SectionsOf(buffer_full) ELSE unreported
          BY <4>1, ComesIs
        <5> QED BY <4>3, <5>1
      <4>5. Nums[1] \in SectionsOf(buffer_full) BY <2>1 DEF Waiting
      <4> QED BY <4>4, <4>5 DEF Known
    <3> QED BY <3>1, <3>2
  <2>3. Waiting \subseteq Known' BY <2>1, <2>2 DEF Known
  <2>4. Range(delivered) \subseteq Known' /\ skipped \subseteq Known' /\ unreported \subseteq Known'
    BY <1>1, <1>2 DEF Known
  <2> QED BY <1>1, <2>3, <2>4 DEF Known
<1> QED BY <1>3, <1>4

LEMMA IdleIs ==
  ASSUME Call, Accounted, pc = "idle", NEW k \in 1 .. Len(lens) \ spoiled
  PROVE  k \in Known \/ (Kept(k) /\ InNext(k))
<1>1. todo = <<>> BY DEF Call
<1>2. ~ Begins(todo, k) BY <1>1 DEF Begins
<1>3. GoesOn(k) => Kept(k) /\ InNext(k) BY <1>1 DEF GoesOn, InThis
<1> QED BY <1>2, <1>3 DEF Accounted

LEMMA ExtendsIs ==
  ASSUME Stream, NEW more \in Seq(SectionLens), NEW left, Len(left) \in Nat,
         Extends(lens, Len(rest), more, Len(left))
  PROVE  /\ Len(lens) \in Nat /\ Len(more) \in Nat /\ Len(lens) =< Len(more)
         /\ \A k \in 1 .. Len(lens) : more[k] = lens[k]
         /\ \A k \in 1 .. Len(more) : k \in 1 .. Len(lens) \/ k \in Len(lens) + 1 .. Len(more)
<1>1. Len(lens) \in Nat /\ Len(more) \in Nat BY StreamIs, LensIs
<1>2. Len(lens) =< Len(more) /\ \A k \in 1 .. Len(lens) : more[k] = lens[k] BY DEF Extends
<1>3. \A k \in 1 .. Len(more) : k \in 1 .. Len(lens) \/ k \in Len(lens) + 1 .. Len(more)
  BY <1>1
<1> QED BY <1>1, <1>2, <1>3

LEMMA KeptComes ==
  ASSUME NEW packet, Call, Stream, Held, Comes(packet), packet.kind # "bad_pointer",
         NEW k \in 1 .. Len(lens), Kept(k)
  PROVE  Kept(k)' /\ lens'[k] = lens[k]
<1>1. lens'[k] = lens[k] BY ExtendsIs DEF Comes
<1>2. UNCHANGED partial
  <2>1. CASE packet.kind = "payload" BY <2>1, ComesIs
  <2>2. CASE packet.kind # "payload"
    <3>1. packet.kind = "ignored" BY <2>2, ComesIs
    <3> QED BY <2>2, <3>1, ComesIs DEF partial
  <2> QED BY <2>1, <2>2
<1>3. Kept(k)' BY <1>1, <1>2 DEF Kept, partial
<1> QED BY <1>1, <1>3

LEMMA ArriveAccounted ==
  ASSUME Call, Stream, Held, Assembled, Accounted, NEW t \in Continuation \cup Beginnings, Arrive(t)
  PROVE  Accounted'
<1> DEFINE packet == t.packet
           calls == Pieces(packet)
           p == Head(calls)
           K == Len(lens)
<1>1. /\ Comes(packet) /\ IsNext(lens', rest', packet) /\ packet.kind = "payload"
      /\ packet.cc = counter /\ spoiled' = spoiled
  BY ArriveComes DEF Arrive
<1> HIDE DEF packet
<1>2. Known \subseteq Known' BY <1>1, ComesKnown
<1>3. /\ lens' \in Seq(SectionLens) /\ Len(rest') \in Nat
      /\ Extends(lens, Len(rest), lens', Len(rest'))
  BY <1>1 DEF Comes
<1>4. todo' = calls /\ packet_cc' = counter /\ UNCHANGED partial BY <1>1, ComesIs
<1>5. ASSUME NEW k \in 1 .. Len(lens') \ spoiled'
      PROVE  k \in Known' \/ Begins(todo', k) \/ GoesOn(k)'
  <2>1. CASE k \in K + 1 .. Len(lens') BY <1>1, <1>4, <2>1 DEF IsNext
  <2>2. CASE k \in 1 .. K
    <3>1. CASE k \in Known BY <1>2, <3>1
    <3>2. CASE k \notin Known
      <4>1. Kept(k) /\ InNext(k) BY <1>1, <2>2, <3>2, IdleIs DEF Comes
      <4>2. k = K /\ rest # <<>> /\ Len(data_partial) = lens[k] - Len(rest)
            /\ counter = (cc + 1) % CounterSize
        BY <4>1 DEF InNext
      <4>3. /\ p.start_flag = "NO_START" /\ p.bytes # <<>>
            /\ p.bytes[1] = <<K, lens[K] - Len(rest) + 1>>
            /\ \/ Len(p.bytes) >= Len(rest)
               \/ /\ Len(p.bytes) = PayloadSize /\ Len(calls) = 1 /\ lens' = lens
                  /\ Len(rest') = Len(rest) - PayloadSize
        BY <1>1, <4>2 DEF IsNext
      <4>4. calls # <<>> /\ IsTodo(lens', Len(rest'), calls) BY <1>1, NextIs
      <4>5. Kept(k)' /\ lens'[k] = lens[k] BY <1>1, <2>2, <4>1, KeptComes
      <4>6. data_partial' = data_partial /\ cc' = cc BY <1>4 DEF partial
      <4> DEFINE m == Len(data_partial)
                 R == Len(rest)
                 B == Len(p.bytes)
                 x == lens[k]
      <4>7. m = x - R /\ x \in Nat /\ R \in Nat /\ B \in Nat
        <5>1. x \in Nat BY <2>2, <4>2, StreamIs
        <5>2. R \in Nat BY StreamIs
        <5>3. IsPiece(lens', Len(rest'), p)
          <6>1. PICK a, b : \/ calls = <<a>> /\ IsPiece(lens', Len(rest'), a)
                            \/ calls = <<a, b>> /\ IsBeginning(lens', Len(rest'), a, b)
            BY <4>4, TodoIs
          <6>2. CASE calls = <<a>> /\ IsPiece(lens', Len(rest'), a) BY <6>2, OneCall
          <6>3. CASE calls = <<a, b>> /\ IsBeginning(lens', Len(rest'), a, b)
            <7>1. p = a BY <6>3, TwoCalls
            <7> QED BY <6>3, <7>1 DEF IsBeginning
          <6> QED BY <6>1, <6>2, <6>3
        <5>4. B \in Nat BY <5>3, PieceIs
        <5> QED BY <4>2, <5>1, <5>2, <5>4
      <4>8. Len(data_partial') = m BY <4>6
      <4> DEFINE more == lens'
                 left == rest'
                 now == todo'
                 num == packet_cc'
      <4>9. /\ now = calls /\ now # <<>> /\ Head(now).start_flag = "NO_START"
            /\ Head(now).bytes # <<>> /\ num = (cc' + 1) % CounterSize
        BY <1>4, <4>2, <4>3, <4>4, <4>6
      <4>10. Head(now).bytes[1] = <<k, m + 1>>
        <5>1. Head(now).bytes[1] = <<k, x - R + 1>> BY <4>2, <4>3, <4>9
        <5> QED BY <4>7, <5>1
      <4>11. \/ m + Len(Head(now).bytes) >= more[k]
             \/ /\ k = Len(more) /\ m + Len(Head(now).bytes) = more[k] - Len(left)
                /\ Len(Head(now).bytes) = PayloadSize /\ Len(now) = 1
        <5>1. Len(Head(now).bytes) = B /\ more[k] = x BY <4>5, <4>9
        <5>2. CASE B >= R
          <6> HIDE DEF m, B, R, x, now, more
          <6> QED BY <4>7, <5>1, <5>2
        <5>3. CASE /\ Len(p.bytes) = PayloadSize /\ Len(calls) = 1 /\ lens' = lens
                   /\ Len(rest') = Len(rest) - PayloadSize
          <6>1. k = Len(more) /\ B = PayloadSize /\ Len(now) = 1 /\ Len(left) = R - B
            BY <4>2, <4>9, <5>3
          <6>2. PayloadSize \in Nat BY Sizes
          <6> HIDE DEF m, B, R, x, now, more, left
          <6> QED BY <4>7, <5>1, <6>1, <6>2
        <5> QED BY <4>3, <5>2, <5>3
      <4>12. InThis(k)'
        <5> HIDE DEF m
        <5> QED BY <4>8, <4>9, <4>10, <4>11 DEF InThis
      <4> QED BY <4>5, <4>12 DEF GoesOn
    <3> QED BY <3>1, <3>2
  <2> QED BY <1>3, <2>1, <2>2, ExtendsIs
<1> QED BY <1>5 DEF Accounted

\* What did not arrive intact need not be accounted for.
LEMMA SpoiltAccounted ==
  ASSUME Call, Stream, Accounted, pc = "idle", NEW packet, IsNext(lens', rest', packet),
         Spoil(packet), Known \subseteq Known'
  PROVE  Accounted'
<1>1. /\ lens' \in Seq(SectionLens) /\ Len(rest') \in Nat
      /\ Extends(lens, Len(rest), lens', Len(rest'))
  BY NextIs
<1>2. ASSUME NEW k \in 1 .. Len(lens') \ spoiled' PROVE k \in Known'
  <2>1. k \notin SectionsOf(packet.payload) /\ k \notin spoiled BY <1>2 DEF Spoil
  <2>2. k \in 1 .. Len(lens)
    <3>1. k \notin Len(lens) + 1 .. Len(lens') BY <2>1 DEF IsNext
    <3> QED BY <1>1, <3>1, ExtendsIs
  <2>3. ~ InNext(k)
    <3>1. rest # <<>> => k # Len(lens) BY <2>1 DEF IsNext
    <3> QED BY <3>1 DEF InNext
  <2> QED BY <2>1, <2>2, <2>3, IdleIs
<1> QED BY <1>2 DEF Accounted

LEMMA RepeatAccounted ==
  ASSUME Call, Stream, Held, Accounted, Repeat
  PROVE  Accounted'
<1>1. /\ Comes(last) /\ last.kind = "payload" /\ IsLast(lens, Len(rest), counter, last)
      /\ UNCHANGED <<lens, rest, counter, last, spoiled>>
  BY RepeatComes
<1>2. Known \subseteq Known' BY <1>1, ComesKnown
<1>3. todo' = Pieces(last) /\ UNCHANGED partial BY <1>1, ComesIs
<1>4. ASSUME NEW k \in 1 .. Len(lens') \ spoiled', k \notin Known'
      PROVE  Begins(todo', k) \/ GoesOn(k)'
  <2>1. Kept(k) /\ InNext(k) /\ k \in 1 .. Len(lens) BY <1>1, <1>2, <1>4, IdleIs DEF Comes
  <2>2. Kept(k)' BY <1>1, <2>1, KeptComes
  <2>3. InNext(k)' BY <1>1, <1>3, <2>1 DEF InNext, partial
  <2>4. CASE ~ last.pusi
    <3>1. Pieces(last) = <<Piece("NO_START", last.payload)>> BY <2>4 DEF Pieces
    <3>2. Len(todo') = 1 /\ Head(todo').start_flag = "NO_START"
      <4>1. Piece("NO_START", last.payload).start_flag = "NO_START" BY DEF Piece
      <4> QED BY <1>3, <3>1, <4>1, OneCall
    <3> QED BY <2>2, <2>3, <3>2 DEF GoesOn
  <2>5. CASE last.pusi
    <3> DEFINE s == last.payload
               o == last.pointer
               b == Remaining(s, o)
               q == Piece("START_TS", b)
               calls == Pieces(last)
    <3>1. /\ o \in 0 .. Len(s) /\ s \in Seq(SentBytes(lens, Len(rest))) /\ Len(s) \in Nat
          /\ \E i \in o + 1 .. Len(s) : s[i] = <<Len(lens), 1>>
      BY <1>1, <2>5, LenProperties DEF IsLast
    <3>2. calls # <<>> /\ calls[Len(calls)] = q
      <4>1. calls = <<q>> \/ \E a : calls = <<a, q>> BY <2>5 DEF Pieces
      <4> HIDE DEF q, calls
      <4>2. CASE calls = <<q>>
        <5>1. Len(calls) = 1 /\ calls[1] = q /\ calls # <<>> BY <4>2
        <5> QED BY <5>1
      <4>3. CASE \E a : calls = <<a, q>>
        <5>1. PICK a : calls = <<a, q>> BY <4>3
        <5>2. Len(calls) = 2 /\ calls[2] = q /\ calls # <<>> BY <5>1
        <5> QED BY <5>2
      <4> QED BY <4>1, <4>2, <4>3
    <3>3. q.start_flag = "START_TS" /\ q.bytes = b BY DEF Piece
    <3> HIDE DEF s, o, q, calls
    <3>4. PICK i \in o + 1 .. Len(s) : s[i] = <<Len(lens), 1>> BY <3>1
    <3>5. i - o \in 1 .. Len(s) - o /\ o + (i - o) = i /\ o \in Nat /\ Len(s) - o \in Nat
      BY <3>1
    <3>6. Len(b) = Len(s) - o /\ b[i - o] = s[i]
      <4>1. /\ Len(b) = IF o =< Len(s) THEN Len(s) - o ELSE 0
            /\ \A j \in 1 .. Len(s) - o : b[j] = s[o + j]
        BY <3>1, <3>5, RemainingIs
      <4> QED BY <3>1, <3>5, <4>1
    <3>7. k = Len(lens) BY <2>1 DEF InNext
    <3> HIDE DEF b
    <3>8. i - o \in 1 .. Len(b) /\ b[i - o] = <<k, 1>> BY <3>4, <3>5, <3>6, <3>7
    <3>9. Begins(calls, k) BY <3>2, <3>3, <3>8 DEF Begins
    <3> QED BY <1>3, <3>9 DEF calls
  <2> QED BY <2>4, <2>5
<1> QED BY <1>4 DEF Accounted

LEMMA NoPayloadAccounted ==
  ASSUME Call, Stream, Held, Accounted, NoPayload
  PROVE  Accounted'
<1> DEFINE packet == Refused("ignored")
<1>1. /\ Comes(packet) /\ packet.kind = "ignored"
      /\ UNCHANGED <<lens, rest, counter, spoiled>>
  BY NoPayloadComes DEF sender
<1> HIDE DEF packet
<1>2. Known \subseteq Known' BY <1>1, ComesKnown
<1>3. todo' = <<>> /\ UNCHANGED <<data_partial, cc>> BY <1>1, ComesIs
<1>4. ASSUME NEW k \in 1 .. Len(lens') \ spoiled', k \notin Known'
      PROVE  GoesOn(k)'
  <2>1. Kept(k) /\ InNext(k) /\ k \in 1 .. Len(lens) BY <1>1, <1>2, <1>4, IdleIs DEF Comes
  <2>2. Kept(k)' BY <1>1, <2>1, KeptComes
  <2>3. InNext(k)' BY <1>1, <1>3, <2>1 DEF InNext
  <2> QED BY <1>3, <2>2, <2>3 DEF GoesOn
<1> QED BY <1>4 DEF Accounted

LEMMA MissIs ==
  ASSUME IInv, NEW t \in Continuation \cup Beginnings, Miss(t)
  PROVE  IInv'
<1>1. /\ pc = "idle" /\ Transmit(t) /\ Fault /\ Spoil(t.packet)
      /\ UNCHANGED <<full, partial, call, delivered, repeated, losses, waited, left_behind>>
  BY DEF Miss
<1>2. /\ Stream /\ Assembled /\ Call /\ Held /\ Room /\ Prompted /\ Ordered /\ Accounted
  BY DEF IInv
<1>3. IsNext(lens', rest', t.packet) BY <1>1, <1>2, TransmitIs
<1>4. /\ lens \in Seq(SectionLens) /\ Len(rest) \in Nat
      /\ lens' \in Seq(SectionLens) /\ Len(rest') \in Nat
      /\ Extends(lens, Len(rest), lens', Len(rest'))
  BY <1>2, <1>3, StreamIs, NextIs
<1>5. todo = <<>> /\ ~ Pending BY <1>1, <1>2 DEF Call, Pending
<1>6. Stream' BY <1>1, <1>2, TransmitStream
<1>7. Assembled'
  <2>1. data_partial \in Seq(SentBytes(lens, Len(rest))) BY <1>2 DEF Assembled
  <2>2. data_partial \in Seq(SentBytes(lens', Len(rest'))) BY <1>4, <2>1, SentExtends
  <2> QED BY <1>1, <1>2, <2>2 DEF Assembled, partial
<1>8. Call' BY <1>1, <1>2, <1>5 DEF Call, call, IsTodo, Pending
<1>9. Held'
  <2> DEFINE e == Ends(full_lengths)
             k == Nums
             e1 == Ends(full_lengths')
             k1 == Nums'
  <2>1. IsBuffer(lens, Len(rest), buffer_full, full_lengths, e, k) BY <1>2 DEF Held
  <2>2. e1 = e /\ k1 = k BY <1>1 DEF full, Nums
  <2> HIDE DEF e, k, e1, k1
  <2>3. IsBuffer(lens', Len(rest'), buffer_full, full_lengths, e, k)
    BY <1>4, <2>1, ExtendsBuffer
  <2>4. IsBuffer(lens', Len(rest'), buffer_full', full_lengths', e1, k1)
    BY <1>1, <2>2, <2>3 DEF full
  <2>5. Len(full_lengths') =< MAX_FULL_PACKETS BY <1>1, <1>2 DEF Held, NumFull, full
  <2> QED BY <2>4, <2>5 DEF Held, NumFull, e1, k1
<1>10. Room' BY <1>1, <1>2 DEF Room, IsRoomy, full, partial, call, losses
<1>11. Prompted' BY <1>1, <1>2 DEF Prompted, full, call
<1>12. Ordered'
  <2>1. Coming' = Coming BY <1>1 DEF Coming, Pending, Nums, full, call
  <2>2. todo' = <<>> BY <1>1, <1>5 DEF call
  <2>3. ASSUME NEW i \in 1 .. Len(Coming), ~ repeated
        PROVE  IsOlder(lens', Len(rest'), <<>>, Coming[i])
    <3>1. IsOlder(lens, Len(rest), <<>>, Coming[i]) BY <1>2, <1>5, <2>3 DEF Ordered
    <3> QED BY <1>2, <1>3, <3>1, OlderNext
  <2> QED BY <1>1, <1>2, <2>1, <2>2, <2>3 DEF Ordered
<1>13. Accounted'
  <2>1. Known' = Known BY <1>1 DEF Known, Pending, Waiting, SectionsOf, full, call, losses
  <2> QED BY <1>1, <1>2, <1>3, <2>1, SpoiltAccounted
<1> QED BY <1>6, <1>7, <1>8, <1>9, <1>10, <1>11, <1>12, <1>13 DEF IInv

\* When any other packet comes, all that is left is the stream, the order and what is known.
LEMMA ComesIInv ==
  ASSUME IInv, NEW packet, Comes(packet), Stream', Ordered', Accounted'
  PROVE  IInv'
<1>1. Stream /\ Assembled /\ Call /\ Held /\ Room /\ Prompted BY DEF IInv
<1>2. Assembled' /\ Call' /\ Held' BY <1>1, ComesAssembled, ComesCall, ComesHeld
<1>3. Room' /\ Prompted' BY <1>1, ComesRoom, ComesPrompted
<1> QED BY <1>2, <1>3 DEF IInv

LEMMA PacketIs ==
  ASSUME IInv, NEW t \in Continuation \cup Beginnings, Arrive(t) \/ Damage(t) \/ Refuse(t)
  PROVE  IInv'
<1>1. Stream /\ Assembled /\ Call /\ Held /\ Room /\ Prompted /\ Ordered /\ Accounted
  BY DEF IInv
<1>2. /\ Transmit(t) /\ repeated' = repeated /\ pc = "idle"
      /\ faults' = faults \/ Fault
      /\ spoiled' = spoiled \/ Spoil(t.packet)
  BY DEF Arrive, Damage, Refuse
<1>3. Stream' BY <1>1, <1>2, TransmitStream
<1>4. repeated' \in BOOLEAN BY <1>3 DEF Stream
<1>5. IsNext(lens', rest', t.packet) BY <1>1, <1>2, TransmitIs
<1>6. \E packet : /\ Comes(packet) /\ Accounted'
                  /\ todo' = <<>> \/ todo' = Pieces(t.packet) \/ NullCalls(todo')
  <2>1. CASE Arrive(t)
    <3>1. Comes(t.packet) /\ t.packet.kind = "payload" BY <1>1, <2>1, ArriveComes
    <3>2. todo' = Pieces(t.packet) BY <1>1, <3>1, ComesIs
    <3>3. Accounted' BY <1>1, <2>1, ArriveAccounted
    <3> QED BY <3>1, <3>2, <3>3
  <2>2. CASE Damage(t)
    <3>1. PICK packet : Comes(packet) /\ packet.kind = "payload" /\ NullCalls(Pieces(packet))
      BY <1>1, <2>2, DamageComes
    <3>2. NullCalls(todo')
      <4>1. todo' = Pieces(packet) BY <1>1, <3>1, ComesIs
      <4> QED BY <3>1, <4>1
    <3>3. Known \subseteq Known' BY <1>1, <3>1, ComesKnown
    <3>4. Spoil(t.packet) BY <2>2 DEF Damage
    <3>5. Accounted' BY <1>1, <1>2, <1>5, <3>3, <3>4, SpoiltAccounted
    <3> QED BY <3>1, <3>2, <3>5
  <2>3. CASE Refuse(t)
    <3>1. PICK packet : Comes(packet) /\ packet.kind \in {"ignored", "bad_pointer"}
      BY <1>1, <2>3, RefuseComes
    <3>2. todo' = <<>>
      <4>1. UNCHANGED todo /\ todo = <<>> BY <1>1, <3>1, ComesIs
      <4> QED BY <4>1
    <3>3. Known \subseteq Known' BY <1>1, <3>1, ComesKnown
    <3>4. Spoil(t.packet) BY <2>3 DEF Refuse
    <3>5. Accounted' BY <1>1, <1>2, <1>5, <3>3, <3>4, SpoiltAccounted
    <3> QED BY <3>1, <3>2, <3>5
  <2> QED BY <2>1, <2>2, <2>3
<1>7. PICK packet : /\ Comes(packet) /\ Accounted'
                    /\ todo' = <<>> \/ todo' = Pieces(t.packet) \/ NullCalls(todo')
  BY <1>6
<1>8. \A k : IsOlder(lens, Len(rest), <<>>, k) => IsOlder(lens', Len(rest'), todo', k)
  BY <1>1, <1>5, <1>7, OlderNext
<1>9. Ordered' BY <1>1, <1>2, <1>4, <1>7, <1>8, ComesOrdered
<1> QED BY <1>3, <1>7, <1>9, ComesIInv

LEMMA RepeatIs ==
  ASSUME IInv, Repeat
  PROVE  IInv'
<1>1. Stream /\ Assembled /\ Call /\ Held /\ Room /\ Prompted /\ Ordered /\ Accounted
  BY DEF IInv
<1>2. /\ Comes(last) /\ UNCHANGED <<lens, rest, counter, last, spoiled>> /\ repeated' = TRUE
  BY <1>1, RepeatComes
<1>3. Stream'
  <2>1. Fault BY DEF Repeat
  <2>2. faults' \in 0 .. MaxFaults BY <1>1, <2>1, Sizes DEF Fault, Stream
  <2> QED BY <1>1, <1>2, <2>2 DEF Stream
<1>4. Ordered' BY <1>1, <1>2, ComesOrdered
<1>5. Accounted' BY <1>1, RepeatAccounted
<1> QED BY <1>2, <1>3, <1>4, <1>5, ComesIInv

LEMMA NoPayloadIs ==
  ASSUME IInv, NoPayload
  PROVE  IInv'
<1>1. Stream /\ Assembled /\ Call /\ Held /\ Room /\ Prompted /\ Ordered /\ Accounted
  BY DEF IInv
<1> DEFINE packet == Refused("ignored")
<1>2. Comes(packet) /\ packet.kind = "ignored" /\ UNCHANGED <<sender, spoiled, repeated>>
  BY <1>1, NoPayloadComes
<1> HIDE DEF packet
<1>3. Stream' BY <1>1, <1>2 DEF Stream, sender
<1>4. todo' = <<>> BY <1>1, <1>2, ComesIs
<1>5. Ordered'
  <2>1. \A k : IsOlder(lens, Len(rest), <<>>, k) => IsOlder(lens', Len(rest'), todo', k)
    BY <1>2, <1>4 DEF sender
  <2>2. repeated' \in BOOLEAN /\ (~ repeated' => ~ repeated) BY <1>1, <1>2 DEF Stream
  <2> QED BY <1>1, <1>2, <2>1, <2>2, ComesOrdered
<1>6. Accounted' BY <1>1, NoPayloadAccounted
<1> QED BY <1>2, <1>3, <1>5, <1>6, ComesIInv

-----------------------------------------------------------------------------
(* A section is complete *)

LEMMA PushIs ==
  ASSUME Stream, Held, UNCHANGED <<lens, rest>>, Len(full_lengths) < MAX_FULL_PACKETS,
         NEW s \in Seq(SentBytes(lens, Len(rest))), IsWhole(lens, s),
         IsPush(buffer_full, full_lengths, s, buffer_full', full_lengths')
  PROVE  LET m == Len(full_lengths)
         IN /\ Held' /\ m \in Nat /\ Len(full_lengths') = m + 1
            /\ Len(buffer_full) \in Nat /\ Len(s) \in Nat
            /\ Len(buffer_full') = Len(buffer_full) + Len(s)
            /\ \A i \in 1 .. m : Ends(full_lengths')[i] = Ends(full_lengths)[i]
            /\ Ends(full_lengths')[m + 1] = Len(buffer_full')
            /\ Nums' \in [1 .. m + 1 -> Nat] /\ Nums \in [1 .. m -> Nat]
            /\ \A i \in 1 .. m : Nums'[i] = Nums[i]
            /\ Nums'[m + 1] = s[1][1]
            /\ Waiting \subseteq Waiting' /\ s[1][1] \in Waiting'
<1> DEFINE n == Len(rest)
           b == buffer_full
           t == full_lengths
           b1 == buffer_full'
           t1 == full_lengths'
           e == Ends(t)
           k == Nums
           m == Len(t)
<1>1. /\ lens \in Seq(SectionLens) /\ n \in Nat /\ IsBuffer(lens, n, b, t, e, k)
      /\ IsPush(b, t, s, b1, t1) /\ s \in Seq(SentBytes(lens, n))
  BY StreamIs DEF Held
<1>2. lens' = lens /\ rest' = rest /\ Len(rest') = n OBVIOUS
<1>3. Nums' = NumsOf(b1, t1) BY DEF Nums
<1>4. m \in Nat /\ m < MAX_FULL_PACKETS /\ Len(b) \in Nat /\ k \in [1 .. m -> Nat] BY HeldIs
<1> HIDE DEF n, b, t, b1, t1, e, k
<1>5. PICK ends, nums :
         /\ IsBuffer(lens, n, b1, t1, ends, nums)
         /\ \A i \in 0 .. m : ends[i] = e[i]
         /\ \A i \in 1 .. m : nums[i] = k[i]
         /\ ends[m + 1] = Len(b) + Len(s) /\ nums[m + 1] = s[1][1]
  BY <1>1, PushBuffer
<1>6. Len(b1) = Len(b) + Len(s) /\ Len(t1) = m + 1 BY <1>1, PushBuffer
<1>7. Ends(t1) = ends /\ NumsOf(b1, t1) = nums BY <1>1, <1>5, BufferIs
<1>8. Len(s) \in Nat BY <1>1, WholeIs
<1>9. IsBuffer(lens', Len(rest'), b1, t1, Ends(t1), Nums') BY <1>2, <1>3, <1>5, <1>7
<1>10. Held'
  <2>1. m + 1 =< MAX_FULL_PACKETS
    <3> HIDE DEF m
    <3> QED BY <1>4, Sizes
  <2> QED BY <1>6, <1>9, <2>1 DEF Held, NumFull, b1, t1
<1>11. Nums' \in [1 .. m + 1 -> Nat]
  <2>1. nums \in [1 .. Len(t1) -> 1 .. Len(lens)] BY <1>1, <1>5, BufferHas
  <2>2. 1 .. Len(lens) \subseteq Nat BY <1>1, LensIs
  <2> QED BY <1>3, <1>6, <1>7, <2>1, <2>2
<1>12. /\ \A c : c \in SectionsOf(b) <=> \E i \in 1 .. m : c = k[i]
       /\ \A c : c \in SectionsOf(b1) <=> \E i \in 1 .. m + 1 : c = nums[i]
  <2>1. \A c : c \in SectionsOf(b) <=> \E i \in 1 .. m : c = k[i] BY <1>1, BufferIs
  <2>2. \A c : c \in SectionsOf(b1) <=> \E i \in 1 .. Len(t1) : c = nums[i]
    BY <1>1, <1>5, BufferIs
  <2> QED BY <1>6, <2>1, <2>2
<1>13. Waiting' = SectionsOf(b1) /\ Waiting = SectionsOf(b) BY DEF Waiting, SectionsOf, b, b1
<1>14. Waiting \subseteq Waiting' /\ s[1][1] \in Waiting'
  <2>1. m + 1 \in 1 .. m + 1 /\ \A i \in 1 .. m : i \in 1 .. m + 1 BY <1>4
  <2> QED BY <1>5, <1>12, <1>13, <2>1
<1>15. /\ \A i \in 1 .. m : Ends(t1)[i] = e[i]
       /\ Ends(t1)[m + 1] = Len(b1)
       /\ \A i \in 1 .. m : Nums'[i] = k[i]
       /\ Nums'[m + 1] = s[1][1]
  <2>1. \A i \in 1 .. m : i \in 0 .. m BY <1>4
  <2> QED BY <1>3, <1>5, <1>6, <1>7, <2>1
<1> QED BY <1>4, <1>6, <1>8, <1>10, <1>11, <1>14, <1>15 DEF b, t, b1, t1, e, k, m

\* The buffer has room for it.
LEMMA FitsIs ==
  ASSUME Stream, Held, NEW d \in Nat, d =< MAX_TS_SIZE,
         \A i \in 1 .. Len(full_lengths) :
            Len(buffer_full) - Ends(full_lengths)[i] + d =< Quota(i)
  PROVE  Len(buffer_full) + d < FULL_BUFFER_SIZE
<1> DEFINE m == Len(full_lengths)
           L == Len(buffer_full)
           e == Ends(full_lengths)
<1>1. m \in Nat /\ L \in Nat /\ e[m] = L /\ \A i \in 0 .. m : e[i] \in Nat
  BY HeldIs DEF Held, IsBuffer
<1>2. CASE m = 0
  <2>1. e[0] = 0 BY DEF Held, IsBuffer
  <2>2. L = 0 BY <1>1, <1>2, <2>1
  <2>3. L + d < 2 * MAX_TS_SIZE
    <3> HIDE DEF L
    <3> QED BY <2>2, Sizes
  <2> QED BY <2>3 DEF FULL_BUFFER_SIZE
<1>3. CASE m # 0
  <2>1. 1 \in 1 .. m /\ 1 \in 0 .. m BY <1>1, <1>3
  <2>2. e[1] \in Nat /\ e[1] =< MAX_TS_SIZE
    <3>1. /\ full_lengths \in Seq(HeaderLen .. MAX_TS_SIZE) /\ e[0] = 0
          /\ \A i \in 1 .. m : e[i] = e[i - 1] + full_lengths[i]
      BY HeldIs DEF Held, IsBuffer
    <3>2. full_lengths[1] \in HeaderLen .. MAX_TS_SIZE BY <2>1, <3>1, ElementOfSeq
    <3>3. e[1] = e[1 - 1] + full_lengths[1] BY <2>1, <3>1
    <3>4. e[1] = full_lengths[1]
      <4>1. 1 - 1 = 0 OBVIOUS
      <4> DEFINE x == full_lengths[1]
                 y == e[1]
      <4>2. x \in Int /\ y = 0 + x BY <3>1, <3>2, <3>3, <4>1, Sizes
      <4> HIDE DEF x, y
      <4>3. y = x BY <4>2
      <4> QED BY <4>3 DEF x, y
    <3> QED BY <1>1, <2>1, <3>2, <3>4, Sizes
  <2>3. L - e[1] + d =< Quota(1) BY <2>1
  <2> DEFINE x == e[1]
             q == Quota(1)
  <2>4. /\ x \in Nat /\ x =< MAX_TS_SIZE /\ L - x + d =< q /\ q \in Int /\ q < MAX_TS_SIZE
    BY <2>2, <2>3, QuotaIs
  <2>5. L + d < 2 * MAX_TS_SIZE
    <3> HIDE DEF x, q, L
    <3> QED BY <1>1, <2>4, Sizes
  <2> QED BY <2>5 DEF FULL_BUFFER_SIZE
<1> QED BY <1>2, <1>3

-----------------------------------------------------------------------------
(* One call of add_ts_packet_data is done. *)

Called(more) ==
    /\ pc = "add" /\ Finish(more) /\ data_full' = data_full
    /\ UNCHANGED <<sender, delivered, spoiled, repeated, unreported, waited, left_behind>>

LEMMA CalledIs ==
  ASSUME Stream, Call, Prompted, NEW more, Called(more), IsTodo(lens, Len(rest), more)
  PROVE  /\ Stream' /\ Call' /\ Prompted' /\ (Pending' <=> Pending) /\ todo' = more
         /\ UNCHANGED <<lens, rest, counter, delivered, spoiled, repeated, unreported, data_full>>
<1>1. /\ pc = "add" /\ todo' = more /\ UNCHANGED <<packet_avail, packet_cc>>
      /\ pc' = IF more # <<>> THEN "add" ELSE IF packet_avail THEN "got" ELSE "idle"
      /\ data_full' = data_full
      /\ UNCHANGED <<sender, delivered, spoiled, repeated, unreported, waited, left_behind>>
  BY DEF Called, Finish
<1>2. Stream' BY <1>1 DEF Stream, sender
<1>3. Pending' <=> Pending BY <1>1 DEF Pending
<1>4. Call'
  <2>1. lens' = lens /\ rest' = rest /\ counter' = counter BY <1>1 DEF sender
  <2>2. Pending' => IsWhole(lens', data_full') BY <1>1, <1>3, <2>1 DEF Call
  <2>3. IsTodo(lens', Len(rest'), todo') BY <1>1, <2>1
  <2> QED BY <1>1, <2>1, <2>2, <2>3 DEF Call
<1>5. Prompted' BY <1>1 DEF Prompted
<1> QED BY <1>1, <1>2, <1>3, <1>4, <1>5 DEF sender

LEMMA HeadIs ==
  ASSUME Stream, Call, pc = "add"
  PROVE  LET p == Head(todo)
             calls == Tail(todo)
             n == Len(rest)
         IN /\ IsPiece(lens, n, p) /\ IsTodo(lens, n, calls) /\ Len(p.bytes) \in Nat
            /\ ToDo(calls) \in Nat /\ ToDo(todo) = Len(p.bytes) + ToDo(calls)
            /\ p.start_flag # "NO_START" => calls = <<>>
            /\ Len(todo) = 1 <=> calls = <<>>
            /\ \A k : IsOlder(lens, n, todo, k) =>
                  /\ IsOlder(lens, n, calls, k)
                  /\ \A j \in 1 .. Len(p.bytes) : p.bytes[j][1] # 0 => k < p.bytes[j][1]
            /\ \A k : Begins(todo, k) =>
                  \/ Begins(calls, k)
                  \/ p.start_flag # "NO_START" /\ \E i \in 1 .. Len(p.bytes) : p.bytes[i] = <<k, 1>>
            /\ calls # <<>> =>
                  \E q : /\ calls = <<q>> /\ IsPiece(lens, n, q) /\ IsPair(p.bytes, q.bytes)
                         /\ q.start_flag = "START_TS"
<1> DEFINE n == Len(rest)
<1>1. todo # <<>> /\ IsTodo(lens, n, todo) BY DEF Call
<1>2. CASE \E p : todo = <<p>> /\ IsPiece(lens, n, p)
  <2>1. PICK p : todo = <<p>> /\ IsPiece(lens, n, p) BY <1>2
  <2>2. /\ Len(todo) = 1 /\ Head(todo) = p /\ Tail(todo) = <<>> /\ ToDo(todo) = Len(p.bytes)
        /\ todo[1] = p
    BY <2>1, OneCall
  <2>3. Len(p.bytes) \in Nat BY <2>1, PieceIs
  <2>4. ToDo(<<>>) = 0 /\ IsTodo(lens, n, <<>>) BY DEF ToDo, IsTodo
  <2>5. \A k : IsOlder(lens, n, todo, k) =>
           /\ IsOlder(lens, n, <<>>, k)
           /\ \A j \in 1 .. Len(p.bytes) : p.bytes[j][1] # 0 => k < p.bytes[j][1]
    <3>1. Len(<<>>) = 0 BY EmptySeq
    <3> QED BY <2>2, <3>1 DEF IsOlder
  <2>6. \A k : Begins(todo, k) =>
           p.start_flag # "NO_START" /\ \E i \in 1 .. Len(p.bytes) : p.bytes[i] = <<k, 1>>
    BY <2>2 DEF Begins
  <2> DEFINE calls == <<>>
             s == p.bytes
  <2>7. /\ Tail(todo) = calls /\ calls = <<>> /\ IsTodo(lens, n, calls) /\ ToDo(calls) = 0
        /\ Len(s) \in Nat /\ ToDo(todo) = Len(s)
        /\ \A k : IsOlder(lens, n, todo, k) =>
              /\ IsOlder(lens, n, calls, k)
              /\ \A j \in 1 .. Len(s) : s[j][1] # 0 => k < s[j][1]
        /\ \A k : Begins(todo, k) =>
              p.start_flag # "NO_START" /\ \E i \in 1 .. Len(s) : s[i] = <<k, 1>>
    BY <2>2, <2>3, <2>4, <2>5, <2>6
  <2> HIDE DEF calls
  <2>8. ToDo(todo) = Len(s) + ToDo(calls) /\ ToDo(calls) \in Nat
    <3> DEFINE x == Len(s)
    <3>1. x \in Nat /\ ToDo(todo) = x BY <2>7
    <3> HIDE DEF x
    <3> QED BY <2>7, <3>1 DEF x
  <2> QED BY <2>1, <2>2, <2>7, <2>8
<1>3. CASE \E p, q : todo = <<p, q>> /\ IsBeginning(lens, n, p, q)
  <2>1. PICK p, q : todo = <<p, q>> /\ IsBeginning(lens, n, p, q) BY <1>3
  <2>2. /\ Len(todo) = 2 /\ Head(todo) = p /\ Tail(todo) = <<q>> /\ todo[2] = q /\ todo[1] = p
        /\ ToDo(todo) = Len(p.bytes) + Len(q.bytes)
    BY <2>1, TwoCalls
  <2>3. /\ IsPiece(lens, n, p) /\ IsPiece(lens, n, q) /\ p.start_flag = "NO_START"
        /\ q.start_flag = "START_TS" /\ IsPair(p.bytes, q.bytes)
    BY <2>1 DEF IsBeginning
  <2>4. Len(p.bytes) \in Nat /\ Len(q.bytes) \in Nat BY <2>3, PieceIs
  <2>5. ToDo(<<q>>) = Len(q.bytes) /\ IsTodo(lens, n, <<q>>) /\ Len(<<q>>) = 1 /\ <<q>> # <<>>
        /\ <<q>>[1] = q
    BY <2>3, OneCall
  <2>6. \A k : IsOlder(lens, n, todo, k) =>
           /\ IsOlder(lens, n, <<q>>, k)
           /\ \A j \in 1 .. Len(p.bytes) : p.bytes[j][1] # 0 => k < p.bytes[j][1]
    <3>1. 1 \in 1 .. 2 /\ 2 \in 1 .. 2 /\ \A i \in 1 .. 1 : i = 1 OBVIOUS
    <3> QED BY <2>2, <2>5, <3>1 DEF IsOlder
  <2>7. \A k : Begins(todo, k) => Begins(<<q>>, k) BY <2>2, <2>5 DEF Begins
  <2> DEFINE calls == <<q>>
  <2>8. /\ Head(todo) = p /\ Tail(todo) = calls /\ calls # <<>> /\ Len(todo) # 1
        /\ IsTodo(lens, n, calls) /\ ToDo(calls) = Len(q.bytes)
        /\ \A k : IsOlder(lens, n, todo, k) =>
              /\ IsOlder(lens, n, calls, k)
              /\ \A j \in 1 .. Len(p.bytes) : p.bytes[j][1] # 0 => k < p.bytes[j][1]
        /\ \A k : Begins(todo, k) => Begins(calls, k)
    BY <2>2, <2>5, <2>6, <2>7
  <2>9. \E r : /\ calls = <<r>> /\ IsPiece(lens, n, r) /\ IsPair(p.bytes, r.bytes)
               /\ r.start_flag = "START_TS"
    BY <2>3
  <2> HIDE DEF calls
  <2> QED BY <2>2, <2>3, <2>4, <2>8, <2>9
<1> QED BY <1>1, <1>2, <1>3, TodoIs

\* A call that leaves the full sections alone
LEMMA CalmIs ==
  ASSUME IInv, Called(Tail(todo)), UNCHANGED <<full, skipped, dropped>>, Assembled',
         InProgress(status_partial', data_partial')
            =< InProgress(status_partial, data_partial) + Len(Head(todo).bytes),
         \A k \in 1 .. Len(lens) \ spoiled :
            Begins(todo, k) \/ GoesOn(k) => Begins(todo', k) \/ GoesOn(k)'
  PROVE  IInv'
<1> DEFINE calls == Tail(todo)
<1>1. Stream /\ Assembled /\ Call /\ Held /\ Room /\ Prompted /\ Ordered /\ Accounted
  BY DEF IInv
<1>2. pc = "add" BY DEF Called
<1>3. /\ IsTodo(lens, Len(rest), calls) /\ ToDo(calls) \in Nat
      /\ Len(Head(todo).bytes) \in Nat
      /\ ToDo(todo) = Len(Head(todo).bytes) + ToDo(calls)
      /\ \A k : IsOlder(lens, Len(rest), todo, k) => IsOlder(lens, Len(rest), calls, k)
  BY <1>1, <1>2, HeadIs
<1> HIDE DEF calls
<1>4. /\ Stream' /\ Call' /\ Prompted' /\ (Pending' <=> Pending) /\ todo' = calls
      /\ UNCHANGED <<lens, rest, counter, delivered, spoiled, repeated, unreported, data_full>>
  BY <1>1, <1>3, CalledIs DEF calls
<1>5. /\ full_lengths' = full_lengths /\ buffer_full' = buffer_full /\ skipped' = skipped
      /\ dropped' = dropped /\ Nums' = Nums
  BY DEF full, Nums
<1>6. Held'
  <2> DEFINE e == Ends(full_lengths)
             e1 == Ends(full_lengths')
  <2>1. e1 = e /\ lens' = lens /\ Len(rest') = Len(rest) BY <1>4, <1>5
  <2>2. IsBuffer(lens, Len(rest), buffer_full, full_lengths, e, Nums) BY <1>1 DEF Held
  <2>3. Len(full_lengths') =< MAX_FULL_PACKETS BY <1>1, <1>5 DEF Held, NumFull
  <2> HIDE DEF e, e1
  <2>4. IsBuffer(lens', Len(rest'), buffer_full', full_lengths', e1, Nums')
    BY <1>5, <2>1, <2>2
  <2> QED BY <2>3, <2>4 DEF Held, NumFull, e1
<1>7. Room'
  <2>1. ASSUME NEW i \in 1 .. Len(full_lengths)
        PROVE  Len(buffer_full) - Ends(full_lengths)[i]
                  + InProgress(status_partial', data_partial') + ToDo(calls) =< Quota(i)
    <3> DEFINE x == Len(buffer_full)
               y == Ends(full_lengths)[i]
               g == InProgress(status_partial, data_partial)
               g1 == InProgress(status_partial', data_partial')
               b == Len(Head(todo).bytes)
               d == ToDo(calls)
               q == Quota(i)
    <3>1. x \in Nat /\ y \in Nat /\ i \in 1 .. MAX_FULL_PACKETS
      <4>1. /\ Len(full_lengths) \in Nat /\ Len(full_lengths) =< MAX_FULL_PACKETS
            /\ x \in Nat /\ \A j \in 0 .. Len(full_lengths) : Ends(full_lengths)[j] \in Nat
        BY <1>1, HeldIs
      <4>2. i \in 0 .. Len(full_lengths) /\ i \in 1 .. MAX_FULL_PACKETS BY <4>1, Sizes
      <4> QED BY <4>1, <4>2
    <3>2. g \in Nat BY <1>1, ProgressIs
    <3>3. g1 \in Nat /\ g1 =< g + b
      <4>1. g1 \in Nat
        <5>1. Len(data_partial') \in Nat BY LenProperties DEF Assembled
        <5> QED BY <5>1 DEF InProgress
      <4> QED BY <4>1
    <3>4. b \in Nat /\ d \in Nat /\ x - y + g + (b + d) =< q
      <4>1. x - y + g + ToDo(todo) =< q BY <1>1 DEF Room, IsRoomy
      <4> QED BY <1>3, <4>1
    <3>5. q \in Int BY <3>1, QuotaIs
    <3> HIDE DEF x, y, g, g1, b, d, q
    <3>6. x - y + g1 + d =< q BY <3>1, <3>2, <3>3, <3>4, <3>5
    <3> QED BY <3>6 DEF x, y, g1, d, q
  <2> QED BY <1>1, <1>4, <1>5, <2>1 DEF Room, IsRoomy
<1>8. Ordered'
  <2>1. Coming' = Coming BY <1>4, <1>5 DEF Coming
  <2> QED BY <1>1, <1>3, <1>4, <2>1 DEF Ordered
<1>9. Accounted'
  <2>1. Known' = Known BY <1>4, <1>5 DEF Known, Waiting, SectionsOf
  <2> QED BY <1>1, <1>4, <2>1 DEF Accounted
<1> QED BY <1>4, <1>6, <1>7, <1>8, <1>9 DEF IInv

LEMMA PushComing ==
  ASSUME NEW m \in Nat, delivered \in Seq(Nat), delivered' = delivered, Pending' <=> Pending,
         data_full' = data_full, Pending => data_full[1][1] \in Nat,
         Nums \in [1 .. m -> Nat], Nums' \in [1 .. m + 1 -> Nat],
         \A i \in 1 .. m : Nums'[i] = Nums[i]
  PROVE  Longer(Coming, Coming', Nums'[m + 1])
<1> DEFINE x == data_full[1][1]
           p == InHand(Pending, x)
           s == Coming
           t == Coming'
           k == Nums
           k1 == Nums'
<1>1. s = Joined(delivered, p, k) BY ComingIs
<1>2. t = Joined(delivered, p, k1)
  <2>1. t = Joined(delivered', InHand(Pending', data_full'[1][1]), Nums')
    BY DEF Coming, Joined, InHand
  <2> QED BY <2>1 DEF InHand
<1>3. p \in Seq(Nat)
  <2>1. CASE Pending
    <3>1. p = InHand(TRUE, x) BY <2>1 DEF InHand
    <3>2. x \in Nat BY <2>1
    <3> HIDE DEF x
    <3> QED BY <3>1, <3>2, InHandIs
  <2>2. CASE ~ Pending
    <3>1. p = <<>> BY <2>2 DEF InHand
    <3> QED BY <3>1, EmptySeq
  <2> QED BY <2>1, <2>2
<1>4. /\ k \in [1 .. m -> Nat] /\ k1 \in [1 .. m + 1 -> Nat]
      /\ \A i \in 1 .. m : k1[i] = k[i]
  OBVIOUS
<1> HIDE DEF p, s, t, k, k1
<1>5. Longer(Joined(delivered, p, k), Joined(delivered, p, k1), k1[m + 1])
  BY <1>3, <1>4, PushJoined
<1>6. Longer(s, t, k1[m + 1]) BY <1>1, <1>2, <1>5
<1> QED BY <1>6 DEF s, t, k1

\* A call that adds bytes to the partial section
LEMMA GrowsIs ==
  ASSUME IInv, NEW more, Called(more), IsTodo(lens, Len(rest), more),
         NEW bytes \in Seq(SentBytes(lens, Len(rest))), NEW expected \in HeaderLen .. MaxLength,
         Len(bytes) =< expected, Len(bytes) =< MAX_TS_SIZE, Assemble(bytes, expected),
         expected_len_partial' = expected, cc' = packet_cc,
         Len(bytes) + ToDo(more) =< InProgress(status_partial, data_partial) + ToDo(todo),
         \A k : IsOlder(lens, Len(rest), todo, k) => IsOlder(lens, Len(rest), more, k),
         IsWhole(lens, bytes) /\ Len(bytes) = expected =>
            /\ IsOlder(lens, Len(rest), more, bytes[1][1])
            /\ \A k : IsOlder(lens, Len(rest), todo, k) => k < bytes[1][1],
         \A k \in 1 .. Len(lens) \ spoiled :
            Begins(todo, k) \/ GoesOn(k) =>
               \/ Begins(more, k)
               \/ IsWhole(lens, bytes) /\ k = bytes[1][1] /\ Len(bytes) = expected
               \/ /\ bytes = Section(k, Len(bytes)) /\ Len(bytes) \in HeaderLen .. lens[k] - 1
                  /\ expected = lens[k] /\ k = Len(lens) /\ Len(bytes) = lens[k] - Len(rest)
                  /\ more = <<>>
  PROVE  IInv'
<1> DEFINE n == Len(rest)
           m == Len(full_lengths)
           d == Len(bytes)
           c == bytes[1][1]
<1>1. Stream /\ Assembled /\ Call /\ Held /\ Room /\ Prompted /\ Ordered /\ Accounted
  BY DEF IInv
<1>2. /\ Stream' /\ Call' /\ Prompted' /\ (Pending' <=> Pending) /\ todo' = more
      /\ UNCHANGED <<lens, rest, counter, delivered, spoiled, repeated, unreported, data_full>>
  BY <1>1, CalledIs
<1>3. /\ lens \in Seq(SectionLens) /\ n \in Nat /\ d \in Nat /\ expected \in Nat
      /\ d =< expected /\ (bytes = <<>> <=> d = 0) /\ HeaderLen =< expected /\ expected >= 2
  <2>1. lens \in Seq(SectionLens) /\ n \in Nat /\ d \in Nat BY <1>1, StreamIs, LenProperties
  <2>2. bytes = <<>> <=> d = 0 BY EmptySeq
  <2>3. expected \in Nat /\ HeaderLen =< expected /\ expected >= 2 BY Sizes
  <2> QED BY <2>1, <2>2, <2>3
<1>4. m \in Nat /\ m =< MAX_FULL_PACKETS /\ Len(buffer_full) \in Nat
      /\ Nums \in [1 .. m -> Nat] /\ \A i \in 1 .. m : Ends(full_lengths)[i] \in Nat
  <2>1. \A i \in 0 .. Len(full_lengths) : Ends(full_lengths)[i] \in Nat BY <1>1, HeldIs
  <2>2. m \in Nat BY <1>1, HeldIs
  <2>3. \A i \in 1 .. m : i \in 0 .. Len(full_lengths) BY <2>2
  <2>4. \A i \in 1 .. m : Ends(full_lengths)[i] \in Nat BY <2>1, <2>3
  <2> QED BY <1>1, <2>4, HeldIs
\* what is left of the quotas
<1>5. ASSUME NEW i \in 1 .. m
      PROVE  Len(buffer_full) - Ends(full_lengths)[i] + d + ToDo(more) =< Quota(i)
  <2> DEFINE x == Len(buffer_full)
             y == Ends(full_lengths)[i]
             g == InProgress(status_partial, data_partial)
             a == ToDo(todo)
             b == ToDo(more)
             q == Quota(i)
  <2>1. x \in Nat /\ y \in Nat /\ g \in Nat BY <1>1, <1>4, ProgressIs
  <2>2. a \in Nat /\ b \in Nat /\ d + b =< g + a
    <3>1. IsTodo(lens, Len(rest), todo) BY <1>1 DEF Call
    <3> QED BY <3>1, ToDoIs
  <2>3. q \in Int
    <3>1. i \in 1 .. MAX_FULL_PACKETS BY <1>4, Sizes
    <3> QED BY <3>1, QuotaIs
  <2>4. x - y + g + a =< q BY <1>1 DEF Room, IsRoomy
  <2> HIDE DEF x, y, g, a, b, d, q
  <2>5. x - y + d + b =< q BY <1>3, <2>1, <2>2, <2>3, <2>4
  <2> QED BY <2>5 DEF x, y, b, q
<1>6. ToDo(more) \in Nat /\ ToDo(more) =< PayloadSize BY ToDoIs
<1>7. /\ data_partial' \in Seq(SentBytes(lens, n)) /\ Len(data_partial') =< MAX_TS_SIZE
      /\ status_partial' \in {"EMPTY", "STARTED", "VALID"}
      /\ status_partial' = "STARTED" => data_partial' = bytes /\ d < expected
      /\ d < expected => status_partial' = "STARTED"
      /\ \/ UNCHANGED <<full, skipped, dropped>> /\ (IsWhole(lens, bytes) => d < expected)
         \/ /\ IsWhole(lens, bytes) /\ d = expected /\ status_partial' = "VALID"
            /\ UNCHANGED <<full, dropped>> /\ skipped' = skipped \cup {c}
         \/ /\ IsWhole(lens, bytes) /\ d = expected /\ status_partial' = "EMPTY"
            /\ m < MAX_FULL_PACKETS
            /\ IsPush(buffer_full, full_lengths, bytes, buffer_full', full_lengths')
            /\ UNCHANGED <<data_full, skipped, dropped>>
  <2>1. <<>> \in Seq(SentBytes(lens, n)) /\ Len(<<>>) =< MAX_TS_SIZE BY Sizes, EmptySeq
  <2>2. CASE d < expected
    <3>1. /\ status_partial' = "STARTED" /\ data_partial' = bytes
          /\ UNCHANGED <<full, skipped, dropped>>
      BY <2>2 DEF Assemble
    <3> QED BY <2>2, <3>1
  <2>3. CASE ~ (d < expected)
    <3>1. d = expected BY <1>3, <2>3
    <3>2. SubSeq(bytes, 1, expected) = bytes
      <4> DEFINE s == SubSeq(bytes, 1, expected)
      <4>1. expected \in 0 .. Len(bytes) BY <1>3, <3>1
      <4>2. /\ s \in Seq(SentBytes(lens, n)) /\ Len(s) = expected
            /\ \A i \in 1 .. expected : s[i] = bytes[i]
        BY <4>1, PrefixIs
      <4> HIDE DEF s
      <4>3. s = bytes BY <3>1, <4>2, SeqEqual
      <4> QED BY <4>3 DEF s
    <3>3. IsSection(bytes) <=> IsWhole(lens, bytes) BY <1>3, SectionWhole
    <3>4. CASE ~ IsWhole(lens, bytes)
      <4>1. /\ status_partial' = "EMPTY" /\ data_partial' = <<>>
            /\ UNCHANGED <<full, skipped, dropped>>
        BY <2>3, <3>2, <3>3, <3>4 DEF Assemble
      <4> QED BY <2>1, <2>3, <3>4, <4>1
    <3>5. CASE IsWhole(lens, bytes)
      <4>1. MoveToFull(bytes) BY <2>3, <3>2, <3>3, <3>5 DEF Assemble
      <4>2. Len(buffer_full) + d < FULL_BUFFER_SIZE
        <5>1. \A i \in 1 .. m : Len(buffer_full) - Ends(full_lengths)[i] + d =< Quota(i)
          <6>1. ASSUME NEW i \in 1 .. m
                PROVE  Len(buffer_full) - Ends(full_lengths)[i] + d =< Quota(i)
            <7> DEFINE x == Len(buffer_full) - Ends(full_lengths)[i]
                       b == ToDo(more)
                       q == Quota(i)
            <7>1. x \in Int /\ b \in Nat /\ x + d + b =< q
              <8>1. x \in Int BY <1>4
              <8>2. x + d + b =< q BY <1>5
              <8> QED BY <1>6, <8>1, <8>2
            <7>2. q \in Int
              <8>1. i \in 1 .. MAX_FULL_PACKETS BY <1>4, Sizes
              <8> QED BY <8>1, QuotaIs
            <7> HIDE DEF x, b, q, d
            <7>3. x + d =< q BY <1>3, <7>1, <7>2
            <7> QED BY <7>3 DEF x, q
          <6> QED BY <6>1
        <5>2. d =< MAX_TS_SIZE OBVIOUS
        <5> HIDE DEF d
        <5> QED BY <1>1, <1>3, <5>1, <5>2, FitsIs
      <4>3. SectionsOf(bytes) = {c} BY <1>3, <3>5, WholeIs
      <4>4. \/ /\ m >= MAX_FULL_PACKETS /\ status_partial' = "VALID" /\ data_partial' = bytes
               /\ skipped' = skipped \cup SectionsOf(bytes) /\ UNCHANGED <<full, dropped>>
            \/ /\ m < MAX_FULL_PACKETS /\ Len(buffer_full) + d < FULL_BUFFER_SIZE
               /\ IsPush(buffer_full, full_lengths, bytes, buffer_full', full_lengths')
               /\ status_partial' = "EMPTY" /\ data_partial' = <<>>
               /\ UNCHANGED <<data_full, skipped, dropped>>
        <5>1. ~ (Len(buffer_full) + d >= FULL_BUFFER_SIZE)
          <6> DEFINE x == Len(buffer_full) + d
          <6>1. x \in Nat /\ x < FULL_BUFFER_SIZE /\ FULL_BUFFER_SIZE \in Nat
            BY <1>3, <1>4, <4>2, Sizes DEF FULL_BUFFER_SIZE
          <6> HIDE DEF x
          <6> QED BY <6>1 DEF x
        <5> QED BY <4>1, <5>1 DEF MoveToFull, IsPush
      <4>5. CASE /\ m >= MAX_FULL_PACKETS /\ status_partial' = "VALID" /\ data_partial' = bytes
                 /\ skipped' = skipped \cup SectionsOf(bytes) /\ UNCHANGED <<full, dropped>>
        <5> QED BY <2>3, <3>1, <3>5, <4>3, <4>5
      <4>6. CASE /\ m < MAX_FULL_PACKETS /\ Len(buffer_full) + d < FULL_BUFFER_SIZE
                 /\ IsPush(buffer_full, full_lengths, bytes, buffer_full', full_lengths')
                 /\ status_partial' = "EMPTY" /\ data_partial' = <<>>
                 /\ UNCHANGED <<data_full, skipped, dropped>>
        <5> QED BY <2>1, <2>3, <3>1, <3>5, <4>6
      <4> QED BY <4>4, <4>5, <4>6
    <3> QED BY <3>4, <3>5
  <2> QED BY <2>2, <2>3
<1>8. Assembled'
  <2>1. cc' \in 0 .. CounterSize - 1 BY <1>1 DEF Call
  <2>2. data_partial' \in Seq(SentBytes(lens', Len(rest'))) BY <1>2, <1>7
  <2>3. status_partial' = "STARTED" =>
           expected_len_partial' >= HeaderLen /\ Len(data_partial') < expected_len_partial'
    BY <1>3, <1>7, Sizes
  <2> QED BY <1>2, <1>7, <2>1, <2>2, <2>3 DEF Assembled
<1>9. InProgress(status_partial', data_partial') \in {0, d}
  BY <1>7 DEF InProgress
\* nothing else changes, or the section is put with the full ones
<1>10. ASSUME UNCHANGED <<full, dropped>>
       PROVE  /\ Held' /\ Room' /\ Ordered' /\ Known \subseteq Known'
              /\ IsWhole(lens, bytes) /\ d = expected => c \in Known'
  <2>1. /\ full_lengths' = full_lengths /\ buffer_full' = buffer_full /\ dropped' = dropped
        /\ Nums' = Nums
    BY <1>10 DEF full, Nums
  <2>2. Held'
    <3> DEFINE e == Ends(full_lengths)
               e1 == Ends(full_lengths')
    <3>1. e1 = e /\ lens' = lens /\ Len(rest') = Len(rest) BY <1>2, <2>1
    <3>2. IsBuffer(lens, Len(rest), buffer_full, full_lengths, e, Nums) BY <1>1 DEF Held
    <3>3. Len(full_lengths') =< MAX_FULL_PACKETS BY <1>4, <2>1
    <3> HIDE DEF e, e1
    <3>4. IsBuffer(lens', Len(rest'), buffer_full', full_lengths', e1, Nums')
      BY <2>1, <3>1, <3>2
    <3> QED BY <3>3, <3>4 DEF Held, NumFull, e1
  <2>3. Room'
    <3>1. ASSUME NEW i \in 1 .. m
          PROVE  Len(buffer_full) - Ends(full_lengths)[i]
                    + InProgress(status_partial', data_partial') + ToDo(more) =< Quota(i)
      <4> DEFINE x == Len(buffer_full) - Ends(full_lengths)[i]
                 g == InProgress(status_partial', data_partial')
                 b == ToDo(more)
                 q == Quota(i)
      <4>1. x \in Int /\ b \in Nat /\ x + d + b =< q /\ g \in {0, d}
        <5>1. x \in Int BY <1>4
        <5>2. x + d + b =< q BY <1>5
        <5> QED BY <1>6, <1>9, <5>1, <5>2
      <4>2. q \in Int
        <5>1. i \in 1 .. MAX_FULL_PACKETS BY <1>4, Sizes
        <5> QED BY <5>1, QuotaIs
      <4> HIDE DEF x, g, b, q, d
      <4>3. x + g + b =< q BY <1>3, <4>1, <4>2
      <4> QED BY <4>3 DEF x, g, b, q
    <3> QED BY <1>1, <1>2, <2>1, <3>1 DEF Room, IsRoomy
  <2>4. Ordered'
    <3>1. Coming' = Coming BY <1>2, <2>1 DEF Coming
    <3> QED BY <1>1, <1>2, <3>1 DEF Ordered
  <2>5. Known \subseteq Known' /\ (IsWhole(lens, bytes) /\ d = expected => c \in Known')
    <3>1. Waiting' = Waiting BY <2>1 DEF Waiting, SectionsOf
    <3>2. skipped \subseteq skipped' /\ (IsWhole(lens, bytes) /\ d = expected => c \in skipped')
      <4>1. CASE UNCHANGED <<full, skipped, dropped>> /\ (IsWhole(lens, bytes) => d < expected)
        BY <1>3, <4>1
      <4>2. CASE skipped' = skipped \cup {c} BY <4>2
      <4>3. CASE IsPush(buffer_full, full_lengths, bytes, buffer_full', full_lengths')
        <5>1. Len(full_lengths') = m + 1
          <6>1. full_lengths' = Append(full_lengths, Len(bytes)) BY <4>3 DEF IsPush
          <6>2. full_lengths \in Seq(HeaderLen .. MAX_TS_SIZE) BY <1>1, HeldIs
          <6> QED BY <6>1, <6>2
        <5>2. m + 1 = m BY <2>1, <5>1
        <5> HIDE DEF m
        <5> QED BY <1>4, <5>2
      <4> QED BY <1>7, <4>1, <4>2, <4>3
    <3> QED BY <1>2, <3>1, <3>2 DEF Known
  <2> QED BY <2>2, <2>3, <2>4, <2>5
<1>11. ASSUME IsPush(buffer_full, full_lengths, bytes, buffer_full', full_lengths'),
              IsWhole(lens, bytes), d = expected, m < MAX_FULL_PACKETS, status_partial' = "EMPTY",
              UNCHANGED <<data_full, skipped, dropped>>
       PROVE  Held' /\ Room' /\ Ordered' /\ Known \subseteq Known' /\ c \in Known'
  <2>1. /\ Held' /\ Len(full_lengths') = m + 1
        /\ Len(buffer_full') = Len(buffer_full) + d
        /\ \A i \in 1 .. m : Ends(full_lengths')[i] = Ends(full_lengths)[i]
        /\ Ends(full_lengths')[m + 1] = Len(buffer_full')
        /\ Nums' \in [1 .. m + 1 -> Nat]
        /\ \A i \in 1 .. m : Nums'[i] = Nums[i]
        /\ Nums'[m + 1] = c
        /\ Waiting \subseteq Waiting' /\ c \in Waiting'
    BY <1>1, <1>2, <1>11, PushIs
  <2>2. Room'
    <3>1. ASSUME NEW i \in 1 .. m + 1
          PROVE  Len(buffer_full') - Ends(full_lengths')[i]
                    + InProgress(status_partial', data_partial') + ToDo(more) =< Quota(i)
      <4> DEFINE x1 == Len(buffer_full') - Ends(full_lengths')[i]
                 g == InProgress(status_partial', data_partial')
                 b == ToDo(more)
                 q == Quota(i)
      <4>1. g = 0 BY <1>11 DEF InProgress
      <4>2. i \in 1 .. MAX_FULL_PACKETS /\ (i \in 1 .. m \/ i = m + 1)
        <5> HIDE DEF m
        <5> QED BY <1>4, <1>11, Sizes
      <4>3. q \in Int /\ q >= PayloadSize BY <4>2, QuotaIs
      <4>4. x1 \in Int /\ x1 + b =< q
        <5>1. CASE i = m + 1
          <6> DEFINE z == Len(buffer_full')
          <6>1. z \in Nat /\ x1 = z - z
            <7>1. z \in Nat
              <8> HIDE DEF d
              <8> QED BY <1>3, <1>4, <2>1
            <7> QED BY <2>1, <5>1, <7>1
          <6> HIDE DEF z, x1, b, q
          <6>2. x1 = 0 BY <6>1
          <6> QED BY <1>6, <4>3, <6>2, Sizes DEF b
        <5>2. CASE i \in 1 .. m
          <6> DEFINE u == Len(buffer_full)
                     v == Ends(full_lengths)[i]
          <6>1. u \in Nat /\ v \in Nat /\ u - v + d + b =< q BY <1>4, <1>5, <5>2
          <6>2. x1 = u + d - v
            <7>1. Len(buffer_full') = u + d BY <2>1
            <7>2. Ends(full_lengths')[i] = v BY <2>1, <5>2
            <7> DEFINE u1 == Len(buffer_full')
                       v1 == Ends(full_lengths')[i]
            <7>3. x1 = u1 - v1 /\ u1 = u + d /\ v1 = v BY <7>1, <7>2
            <7> HIDE DEF u, v, d, u1, v1, x1
            <7> QED BY <1>3, <6>1, <7>3
          <6> HIDE DEF u, v, x1, b, q, d
          <6> QED BY <1>3, <1>6, <4>3, <6>1, <6>2 DEF b
        <5> QED BY <4>2, <5>1, <5>2
      <4> HIDE DEF x1, g, b, q
      <4>5. x1 + g + b =< q BY <1>6, <4>1, <4>3, <4>4 DEF b
      <4> QED BY <4>5 DEF x1, g, b, q
    <3> QED BY <1>1, <1>2, <1>11, <2>1, <3>1 DEF Room, IsRoomy
  <2>3. Ordered'
    <3> DEFINE s == Coming
               t == Coming'
               L == Len(s)
    <3>3. delivered \in Seq(Nat) /\ (Pending => data_full[1][1] \in Nat)
      <4>1. Pending => data_full[1][1] \in 1 .. Len(lens) BY <1>1 DEF Call, IsWhole
      <4> QED BY <1>1, <1>3, <4>1, LensIs DEF Ordered
    <3>5. L \in Nat /\ Len(t) = L + 1 /\ (\A i \in 1 .. L : t[i] = s[i]) /\ t[L + 1] = c
      <4> HIDE DEF m, c, d
      <4>1. /\ m \in Nat /\ Nums \in [1 .. m -> Nat] /\ Nums' \in [1 .. m + 1 -> Nat]
            /\ \A i \in 1 .. m : Nums'[i] = Nums[i]
        BY <1>4, <2>1
      <4>2. Longer(Coming, Coming', Nums'[m + 1]) BY <1>2, <3>3, <4>1, PushComing
      <4>3. Longer(s, t, c) BY <2>1, <4>2
      <4> HIDE DEF s, t
      <4> QED BY <4>3 DEF Longer
    <3> HIDE DEF s, t
    <3>6. ASSUME ~ repeated
          PROVE  /\ \A i, j \in 1 .. Len(t) : i < j => t[i] < t[j]
                 /\ \A i \in 1 .. Len(t) : IsOlder(lens, Len(rest), more, t[i])
      <4>1. /\ \A i, j \in 1 .. L : i < j => s[i] < s[j]
            /\ \A i \in 1 .. L : IsOlder(lens, Len(rest), todo, s[i])
        BY <1>1, <3>6 DEF Ordered, s
      <4>2. \A i \in 1 .. L : s[i] < c /\ IsOlder(lens, Len(rest), more, s[i])
        BY <1>11, <4>1
      <4>3. IsOlder(lens, Len(rest), more, c) BY <1>11
      <4> HIDE DEF L, c
      <4>4. \A i \in 1 .. L + 1 : i \in 1 .. L \/ i = L + 1 BY <3>5 DEF L
      <4>5. \A i, j \in 1 .. L + 1 : i < j => i \in 1 .. L BY <3>5 DEF L
      <4>6. \A i, j \in 1 .. L + 1 : i < j => t[i] < t[j] BY <3>5, <4>1, <4>2, <4>4, <4>5 DEF L
      <4>7. \A i \in 1 .. L + 1 : IsOlder(lens, Len(rest), more, t[i])
        BY <3>5, <4>2, <4>3, <4>4 DEF L
      <4> QED BY <3>5, <4>6, <4>7 DEF L
    <3>7. delivered' \in Seq(Nat) BY <1>2, <3>3
    <3> QED BY <1>2, <3>6, <3>7 DEF Ordered, t
  <2>4. Known \subseteq Known' /\ c \in Known' BY <1>2, <1>11, <2>1 DEF Known
  <2> QED BY <2>1, <2>2, <2>3, <2>4
<1>12. /\ Held' /\ Room' /\ Ordered' /\ Known \subseteq Known'
       /\ IsWhole(lens, bytes) /\ d = expected => c \in Known'
  <2>1. CASE UNCHANGED <<full, dropped>> BY <1>10, <2>1
  <2>2. CASE /\ IsWhole(lens, bytes) /\ d = expected /\ status_partial' = "EMPTY"
             /\ m < MAX_FULL_PACKETS
             /\ IsPush(buffer_full, full_lengths, bytes, buffer_full', full_lengths')
             /\ UNCHANGED <<data_full, skipped, dropped>>
    BY <1>11, <2>2
  <2> QED BY <1>7, <2>1, <2>2
<1>13. Accounted'
  <2>1. ASSUME NEW k \in 1 .. Len(lens) \ spoiled, k \notin Known'
        PROVE  Begins(todo', k) \/ GoesOn(k)'
    <3>1. Begins(todo, k) \/ GoesOn(k) BY <1>1, <1>12, <2>1 DEF Accounted
    <3>2. \/ Begins(more, k)
          \/ IsWhole(lens, bytes) /\ k = bytes[1][1] /\ Len(bytes) = expected
          \/ /\ bytes = Section(k, Len(bytes)) /\ Len(bytes) \in HeaderLen .. lens[k] - 1
             /\ expected = lens[k] /\ k = Len(lens) /\ Len(bytes) = lens[k] - Len(rest)
             /\ more = <<>>
      BY <3>1
    <3>3. CASE Begins(more, k) BY <1>2, <3>3
    <3>4. CASE IsWhole(lens, bytes) /\ k = bytes[1][1] /\ Len(bytes) = expected
      BY <1>12, <2>1, <3>4
    <3>5. CASE /\ bytes = Section(k, Len(bytes)) /\ Len(bytes) \in HeaderLen .. lens[k] - 1
               /\ expected = lens[k] /\ k = Len(lens) /\ Len(bytes) = lens[k] - Len(rest)
               /\ more = <<>>
      <4>1. lens[k] \in Nat BY <1>3, <2>1, LensIs
      <4>2. d < expected /\ d >= HeaderLen /\ d \in 1 .. lens[k] - 1
        <5> DEFINE y == lens[k]
        <5>1. y \in Nat /\ d \in HeaderLen .. y - 1 /\ expected = y BY <3>5, <4>1
        <5> HIDE DEF y, d
        <5>2. d < y /\ d >= HeaderLen /\ d \in 1 .. y - 1 BY <1>3, <5>1, Sizes
        <5> QED BY <5>1, <5>2 DEF y
      <4>3. status_partial' = "STARTED" /\ data_partial' = bytes BY <1>7, <4>2
      <4>4. Kept(k)'
        <5>1. Len(data_partial') = d /\ ~ (d < HeaderLen) BY <1>3, <4>2, <4>3, Sizes
        <5> QED BY <1>2, <3>5, <4>2, <4>3, <5>1 DEF Kept
      <4>5. InNext(k)'
        <5>1. counter' = (cc' + 1) % CounterSize
          <6>1. pc = "add" BY DEF Called
          <6> QED BY <1>1, <1>2, <6>1 DEF Call
        <5>2. rest # <<>>
          <6>1. d = lens[k] - n /\ d < lens[k] BY <1>3, <3>5, <4>1, <4>2
          <6>2. n # 0
            <7> HIDE DEF n, d
            <7> QED BY <1>3, <4>1, <6>1
          <6> QED BY <1>1, <6>2, StreamIs
        <5> QED BY <1>2, <3>5, <4>3, <5>1, <5>2 DEF InNext
      <4>6. todo' = <<>> BY <1>2, <3>5
      <4> QED BY <4>4, <4>5, <4>6 DEF GoesOn
    <3> QED BY <3>2, <3>3, <3>4, <3>5
  <2> QED BY <1>2, <2>1 DEF Accounted
<1> QED BY <1>2, <1>8, <1>12, <1>13 DEF IInv

-----------------------------------------------------------------------------
(* The steps of add_ts_packet_data *)

Frame == UNCHANGED <<sender, delivered, spoiled, repeated, unreported, waited, left_behind>>

LEMMA CounterIs ==
  ASSUME NEW a \in 0 .. CounterSize - 1, NEW b \in 0 .. CounterSize - 1
  PROVE  /\ (a + 1) % CounterSize = (b + 1) % CounterSize => a = b
         /\ (a + 1) % CounterSize # a
<1> DEFINE C == CounterSize
<1>1. C \in Nat /\ C >= 2 BY Sizes
<1>2. a \in Nat /\ a < C /\ b \in Nat /\ b < C BY <1>1
<1> HIDE DEF C
<1>3. /\ (a + 1) % C = IF a + 1 = C THEN 0 ELSE a + 1
      /\ (b + 1) % C = IF b + 1 = C THEN 0 ELSE b + 1
  BY <1>1, <1>2
<1>4. ((a + 1) % C = (b + 1) % C => a = b) /\ (a + 1) % C # a BY <1>1, <1>2, <1>3
<1> QED BY <1>4 DEF C

LEMMA SectionOf ==
  ASSUME NEW S, NEW s \in Seq(S), NEW k \in Nat, \A i \in 1 .. Len(s) : s[i] = <<k, i>>
  PROVE  s = Section(k, Len(s))
<1> DEFINE t == Section(k, Len(s))
<1>1. Len(s) \in Nat BY LenProperties
<1>2. t \in Seq(Byte) /\ Len(t) = Len(s) /\ \A i \in 1 .. Len(s) : t[i] = <<k, i>>
  BY <1>1, SectionIs
<1> HIDE DEF t
<1>3. \A i \in 1 .. Len(s) : s[i] = t[i] BY <1>2
<1>4. s \in Seq(S \cup Byte) /\ t \in Seq(S \cup Byte)
  <2>1. S \subseteq S \cup Byte /\ Byte \subseteq S \cup Byte OBVIOUS
  <2> QED BY <1>2, <2>1, SeqMonotonic
<1>5. s = t BY <1>2, <1>3, <1>4, SeqEqual
<1> QED BY <1>5 DEF t

\* Nothing but a beginning is known of the section a packet begins with.
LEMMA StartOnly ==
  ASSUME Stream, Call, pc = "add", Head(todo).start_flag # "NO_START"
  PROVE  \A k \in 1 .. Len(lens) : Begins(todo, k) \/ GoesOn(k) =>
            \E i \in 1 .. Len(Head(todo).bytes) : Head(todo).bytes[i] = <<k, 1>>
<1>1. Tail(todo) = <<>> /\ todo # <<>> BY HeadIs DEF Call
<1>2. \A k : ~ Begins(<<>>, k) BY DEF Begins
<1>3. \A k : Begins(todo, k) =>
         \/ Begins(Tail(todo), k)
         \/ \E i \in 1 .. Len(Head(todo).bytes) : Head(todo).bytes[i] = <<k, 1>>
  BY HeadIs
<1>4. \A k : ~ GoesOn(k) BY <1>1 DEF GoesOn, InThis
<1> QED BY <1>1, <1>2, <1>3, <1>4

\* What follows the end of a section
LEMMA EndOnly ==
  ASSUME Stream, Call, pc = "add", Head(todo).start_flag = "NO_START"
  PROVE  \A k : Begins(todo, k) => Begins(Tail(todo), k)
BY HeadIs

LEMMA CounterNow ==
  ASSUME Stream, Assembled, Call, pc = "add"
  PROVE  /\ cc \in 0 .. CounterSize - 1 /\ packet_cc \in 0 .. CounterSize - 1
         /\ counter = (packet_cc + 1) % CounterSize
         /\ counter = (cc + 1) % CounterSize => packet_cc = cc
         /\ packet_cc = (cc + 1) % CounterSize => packet_cc # cc
<1>1. /\ cc \in 0 .. CounterSize - 1 /\ packet_cc \in 0 .. CounterSize - 1
      /\ counter = (packet_cc + 1) % CounterSize
  BY DEF Assembled, Call
<1> QED BY <1>1, CounterIs

LEMMA AddStuffingIs ==
  ASSUME IInv, AddStuffing, Frame
  PROVE  IInv'
<1> DEFINE p == Head(todo)
<1>1. /\ pc = "add" /\ p.start_flag = "START_SECTION" /\ Head(p.bytes) \in {Stuffing, Noise}
      /\ Finish(Tail(todo)) /\ UNCHANGED <<full, partial, skipped, dropped>>
  BY DEF AddStuffing
<1>2. Stream /\ Assembled /\ Call BY DEF IInv
<1>3. Called(Tail(todo)) BY <1>1 DEF Called, Frame, full
<1>4. IsPiece(lens, Len(rest), p) /\ Len(p.bytes) \in Nat BY <1>1, <1>2, HeadIs
<1> HIDE DEF p
<1>5. Assembled' BY <1>1, <1>2 DEF Assembled, partial, Frame, sender
<1>6. InProgress(status_partial', data_partial')
         =< InProgress(status_partial, data_partial) + Len(p.bytes)
  <2> DEFINE g == InProgress(status_partial, data_partial)
             g1 == InProgress(status_partial', data_partial')
  <2>1. g \in Nat /\ g1 = g BY <1>1, <1>2, ProgressIs DEF partial
  <2> HIDE DEF g, g1
  <2>2. g1 =< g + Len(p.bytes) BY <1>4, <2>1
  <2> QED BY <2>2 DEF g, g1
<1>7. \A i \in 1 .. Len(p.bytes) : p.bytes[i][1] = 0
  <2>1. p.bytes # <<>> /\ IsRun(lens, p.bytes) BY <1>1, <1>4 DEF IsPiece
  <2>2. p.bytes[1][1] = 0
    <3>1. p.bytes[1] \in {Stuffing, Noise} BY <1>1
    <3> QED BY <3>1, NullSent
  <2> QED BY <2>1, <2>2 DEF IsRun, AllNull
<1>8. \A k \in 1 .. Len(lens) : ~ (Begins(todo, k) \/ GoesOn(k))
  <2>1. ASSUME NEW k \in 1 .. Len(lens), Begins(todo, k) \/ GoesOn(k) PROVE FALSE
    <3>1. PICK i \in 1 .. Len(p.bytes) : p.bytes[i] = <<k, 1>>
      BY <1>1, <1>2, <2>1, StartOnly DEF p
    <3>2. k = 0
      <4>1. p.bytes[i][1] = k BY <3>1
      <4> QED BY <1>7, <4>1
    <3>3. k # 0 OBVIOUS
    <3> QED BY <3>2, <3>3
  <2> QED BY <2>1
<1> QED BY <1>1, <1>3, <1>5, <1>6, <1>8, CalmIs DEF p

LEMMA AddShortStartIs ==
  ASSUME IInv, AddShortStart, Frame
  PROVE  IInv'
<1> DEFINE p == Head(todo)
           s == p.bytes
           m == Len(s)
           n == Len(rest)
<1>1. /\ pc = "add" /\ p.start_flag # "NO_START" /\ m < HeaderLen
      /\ status_partial' = "PARTIAL_HEADER" /\ data_partial' = s
      /\ expected_len_partial' = 0 /\ cc' = packet_cc
      /\ Finish(Tail(todo)) /\ UNCHANGED <<full, skipped, dropped>>
  BY DEF AddShortStart
<1>2. Stream /\ Assembled /\ Call BY DEF IInv
<1>3. Called(Tail(todo)) BY <1>1 DEF Called, Frame, full
<1>4. /\ IsPiece(lens, n, p) /\ m \in Nat /\ Tail(todo) = <<>> /\ lens \in Seq(SectionLens)
      /\ n \in Nat
  BY <1>1, <1>2, HeadIs, StreamIs
<1>5. s \in Seq(SentBytes(lens, n)) /\ IsRun(lens, s) /\ IsCutAt(lens, n, s)
  BY <1>1, <1>4 DEF IsPiece
<1>6. lens' = lens /\ rest' = rest /\ counter' = counter /\ spoiled' = spoiled
  BY DEF Frame, sender
<1>7. Assembled'
  <2>1. Len(data_partial') < HeaderLen /\ Len(data_partial') =< MAX_TS_SIZE
    BY <1>1, <1>4, Sizes
  <2>2. data_partial' \in Seq(SentBytes(lens', Len(rest'))) BY <1>1, <1>5, <1>6
  <2>3. cc' \in 0 .. CounterSize - 1 BY <1>1, <1>2 DEF Call
  <2> QED BY <1>1, <2>1, <2>2, <2>3 DEF Assembled
<1>8. InProgress(status_partial', data_partial') =< InProgress(status_partial, data_partial) + m
  <2> DEFINE g == InProgress(status_partial, data_partial)
             g1 == InProgress(status_partial', data_partial')
  <2>1. g \in Nat /\ g1 = m BY <1>1, <1>2, ProgressIs DEF InProgress
  <2> HIDE DEF g, g1, m
  <2>2. g1 =< g + m BY <1>4, <2>1
  <2> QED BY <2>2 DEF g, g1
<1>9. ASSUME NEW k \in 1 .. Len(lens), Begins(todo, k) \/ GoesOn(k)
      PROVE  GoesOn(k)'
  <2>1. PICK i \in 1 .. m : s[i] = <<k, 1>> BY <1>1, <1>2, <1>9, StartOnly DEF p
  <2>2. k \in Nat /\ k # 0 /\ lens[k] \in Nat /\ HeaderLen =< lens[k] /\ Len(lens) \in Nat
    BY <1>4, LensIs
  <2> HIDE DEF p, s
  <2>3. s # <<>> /\ s[1][1] # 0
    <3>1. s # <<>> BY <1>4, <2>1, EmptySeq
    <3>2. ~ AllNull(s)
      <4>1. s[i][1] = k BY <2>1
      <4> QED BY <2>1, <2>2, <4>1 DEF AllNull
    <3> QED BY <1>5, <3>1, <3>2 DEF IsRun
  <2> DEFINE c == s[1][1]
             left == Remaining(s, lens[c])
  <2>4. /\ c \in 1 .. Len(lens)
        /\ \A j \in 1 .. Len(s) : j =< lens[c] => s[j] = <<c, j>>
        /\ \A q \in Nat : q # c => \A j \in 1 .. Len(s) : s[j] = <<q, 1>> =>
              \E l \in 1 .. Len(left) : left[l] = <<q, 1>>
    BY <1>4, <1>5, <2>3, RunIs
  <2>5. lens[c] \in Nat /\ HeaderLen =< lens[c] /\ m < lens[c]
    <3>1. lens[c] \in Nat /\ HeaderLen =< lens[c] BY <1>4, <2>4, LensIs
    <3> HIDE DEF c, m
    <3> QED BY <1>1, <1>4, <3>1, Sizes
  <2>6. Len(left) = 0
    <3>1. Len(left) = IF lens[c] =< Len(s) THEN Len(s) - lens[c] ELSE 0
      BY <1>5, <2>5, RemainingIs
    <3> HIDE DEF left, c
    <3> QED BY <1>4, <2>5, <3>1
  <2>7. c = k
    <3>1. ASSUME c # k PROVE FALSE
      <4>1. \E l \in 1 .. Len(left) : left[l] = <<k, 1>> BY <2>1, <2>2, <2>4, <3>1
      <4> QED BY <2>6, <4>1
    <3> QED BY <3>1
  <2> HIDE DEF c, left
  <2>8. \A j \in 1 .. m : s[j] = <<k, j>>
    <3> HIDE DEF m
    <3>1. \A j \in 1 .. m : j =< lens[c] BY <1>4, <2>5
    <3> QED BY <2>4, <2>7, <3>1 DEF m
  <2>9. m \in 1 .. m /\ m \in 1 .. lens[k] - 1
    <3> HIDE DEF m
    <3>1. i \in 1 .. m BY <2>1
    <3> QED BY <1>4, <2>2, <2>5, <2>7, <3>1
  <2>10. s = Section(k, m) BY <1>5, <2>2, <2>8, SectionOf
  <2>11. Kept(k)' BY <1>1, <1>6, <2>9, <2>10 DEF Kept
  <2>12. k = Len(lens) /\ m = lens[k] - n
    <3>1. s[m] = <<k, m>> BY <2>8, <2>9
    <3>2. s[m][1] = k /\ s[m][2] = m BY <3>1
    <3>3. k = Len(lens) /\ m = lens[Len(lens)] - n BY <1>5, <2>2, <2>3, <2>5, <2>7, <3>2 DEF IsCutAt
    <3> QED BY <3>3
  <2>13. rest # <<>>
    <3>1. n # 0
      <4> HIDE DEF n, m
      <4> QED BY <1>4, <2>2, <2>9, <2>12
    <3> QED BY <1>2, <3>1, StreamIs
  <2>14. counter' = (cc' + 1) % CounterSize BY <1>1, <1>2, <1>6, CounterNow
  <2>15. InNext(k)' BY <1>1, <1>6, <2>12, <2>13, <2>14 DEF InNext
  <2>16. todo' = <<>> BY <1>1, <1>4 DEF Finish
  <2> QED BY <2>11, <2>15, <2>16 DEF GoesOn
<1> QED BY <1>1, <1>3, <1>7, <1>8, <1>9, CalmIs

LEMMA AddStrayIs ==
  ASSUME IInv, AddStray, Frame
  PROVE  IInv'
<1> DEFINE p == Head(todo)
           s == p.bytes
           m == Len(data_partial)
<1>1. /\ pc = "add" /\ p.start_flag = "NO_START"
      /\ \/ ~ Unfinished
         \/ packet_cc \notin {cc, (cc + 1) % CounterSize}
         \/ /\ packet_cc # cc /\ status_partial = "PARTIAL_HEADER"
            /\ m + Len(s) < HeaderLen
      /\ status_partial' = "EMPTY" /\ Finish(Tail(todo))
      /\ UNCHANGED <<full, data_partial, expected_len_partial, cc, skipped, dropped>>
  BY DEF AddStray
<1>2. Stream /\ Assembled /\ Call BY DEF IInv
<1>3. Called(Tail(todo)) BY <1>1 DEF Called, Frame, full
<1>4. Len(s) \in Nat /\ m \in Nat BY <1>1, <1>2, HeadIs, ProgressIs
<1>5. Assembled' BY <1>1, <1>2 DEF Assembled, Frame, sender
<1>6. InProgress(status_partial', data_partial')
         =< InProgress(status_partial, data_partial) + Len(s)
  <2> DEFINE g == InProgress(status_partial, data_partial)
             g1 == InProgress(status_partial', data_partial')
             b == Len(s)
  <2>1. g \in Nat /\ g1 = 0 /\ b \in Nat BY <1>1, <1>2, <1>4, ProgressIs DEF InProgress
  <2> HIDE DEF g, g1, b
  <2>2. g1 =< g + b BY <2>1
  <2> QED BY <2>2 DEF g, g1, b
<1>7. ASSUME NEW k \in 1 .. Len(lens), GoesOn(k) PROVE FALSE
  <2>1. Kept(k) BY <1>7 DEF GoesOn
  <2>2. Unfinished BY <2>1 DEF Kept, Unfinished
  <2>3. lens[k] \in Nat /\ HeaderLen =< lens[k] BY <1>2, StreamIs, LensIs
  <2>4. CASE InThis(k)
    <3>1. packet_cc = (cc + 1) % CounterSize BY <2>4 DEF InThis
    <3>2. m + Len(s) < HeaderLen BY <1>1, <2>2, <3>1
    <3>3. m + Len(s) >= lens[k] \/ Len(s) = PayloadSize BY <2>4 DEF InThis
    <3> DEFINE b == Len(s)
    <3>4. b \in Nat /\ m + b < HeaderLen /\ (m + b >= lens[k] \/ b = PayloadSize)
      BY <1>4, <3>2, <3>3
    <3> HIDE DEF b, m, s, p
    <3> QED BY <1>4, <2>3, <3>4, Sizes
  <2>5. CASE InNext(k)
    <3>1. counter = (cc + 1) % CounterSize BY <2>5 DEF InNext
    <3>2. packet_cc = cc BY <1>1, <1>2, <3>1, CounterNow
    <3> QED BY <1>1, <2>2, <3>2
  <2> QED BY <1>7, <2>4, <2>5 DEF GoesOn
<1>8. todo' = Tail(todo) BY <1>1 DEF Finish
<1>9. \A k : Begins(todo, k) => Begins(todo', k) BY <1>1, <1>2, <1>8, EndOnly
<1> QED BY <1>1, <1>3, <1>5, <1>6, <1>7, <1>9, CalmIs

LEMMA AddDuplicateIs ==
  ASSUME IInv, AddDuplicate, Frame
  PROVE  IInv'
<1> DEFINE p == Head(todo)
<1>1. /\ pc = "add" /\ p.start_flag = "NO_START" /\ packet_cc = cc
      /\ Finish(Tail(todo)) /\ UNCHANGED <<full, partial, skipped, dropped>>
  BY DEF AddDuplicate
<1>2. Stream /\ Assembled /\ Call BY DEF IInv
<1>3. Called(Tail(todo)) BY <1>1 DEF Called, Frame, full
<1>4. Len(p.bytes) \in Nat BY <1>1, <1>2, HeadIs
<1> HIDE DEF p
<1>5. Assembled' BY <1>1, <1>2 DEF Assembled, partial, Frame, sender
<1>6. InProgress(status_partial', data_partial')
         =< InProgress(status_partial, data_partial) + Len(p.bytes)
  <2> DEFINE g == InProgress(status_partial, data_partial)
             g1 == InProgress(status_partial', data_partial')
  <2>1. g \in Nat /\ g1 = g BY <1>1, <1>2, ProgressIs DEF partial
  <2> HIDE DEF g, g1
  <2>2. g1 =< g + Len(p.bytes) BY <1>4, <2>1
  <2> QED BY <2>2 DEF g, g1
<1>7. todo' = Tail(todo) /\ UNCHANGED <<packet_cc, lens, rest, counter>>
  BY <1>1 DEF Finish, Frame, sender
<1>8. ASSUME NEW k \in 1 .. Len(lens), GoesOn(k) PROVE GoesOn(k)'
  <2>1. ~ InThis(k)
    <3>1. packet_cc # (cc + 1) % CounterSize BY <1>1, <1>2, CounterNow
    <3> QED BY <3>1 DEF InThis
  <2>2. Kept(k) /\ InNext(k) /\ Len(todo) = 1
    <3>1. todo # <<>> BY <1>1, <1>2 DEF Call
    <3> QED BY <1>8, <2>1, <3>1 DEF GoesOn
  <2>3. todo' = <<>> BY <1>1, <1>2, <1>7, <2>2, HeadIs
  <2>4. Kept(k)' /\ InNext(k)' BY <1>1, <1>7, <2>2 DEF Kept, InNext, partial
  <2> QED BY <2>3, <2>4 DEF GoesOn
<1>9. \A k : Begins(todo, k) => Begins(todo', k) BY <1>1, <1>2, <1>7, EndOnly DEF p
<1> QED BY <1>1, <1>3, <1>5, <1>6, <1>8, <1>9, CalmIs DEF p

\* What is left after the section that the bytes begin with
LeftOf(ls, n, s, c, left) ==
    /\ IsRun(ls, left) /\ IsCutAt(ls, n, left)
    /\ \A j \in 1 .. Len(left) : left[j][1] # 0 => c < left[j][1]
    /\ \A k \in Nat : k # c => \A i \in 1 .. Len(s) : s[i] = <<k, 1>> =>
          \E j \in 1 .. Len(left) : left[j] = <<k, 1>>

LEMMA AddStartIs ==
  ASSUME IInv, AddStart, Frame
  PROVE  IInv'
<1> DEFINE p == Head(todo)
           s == p.bytes
           m == Len(s)
           n == Len(rest)
           c == s[1][1]
<1>1. /\ pc = "add" /\ p.start_flag # "NO_START" /\ m >= HeaderLen /\ cc' = packet_cc
  BY DEF AddStart
<1>2. Stream /\ Assembled /\ Call BY DEF IInv
<1>3. /\ IsPiece(lens, n, p) /\ m \in Nat /\ Tail(todo) = <<>> /\ lens \in Seq(SectionLens)
      /\ n \in Nat /\ ToDo(<<>>) \in Nat /\ ToDo(todo) = m + ToDo(<<>>)
  BY <1>1, <1>2, HeadIs, StreamIs
<1>4. s \in Seq(SentBytes(lens, n)) /\ IsRun(lens, s) /\ IsCutAt(lens, n, s) /\ m =< PayloadSize
  BY <1>1, <1>3 DEF IsPiece
<1>5. PICK expected \in LengthsIn(s) :
         /\ expected_len_partial' = expected
         /\ Assemble(First(s, expected), expected)
         /\ Finish(IF Remaining(s, expected) # <<>>
                   THEN <<Piece("START_SECTION", Remaining(s, expected))>> \o Tail(todo)
                   ELSE Tail(todo))
  BY DEF AddStart
<1> DEFINE first == First(s, expected)
           left == Remaining(s, expected)
           q == Piece("START_SECTION", left)
           more == IF left # <<>> THEN <<q>> ELSE <<>>
<1>6. expected \in HeaderLen .. MaxLength /\ expected \in Nat
  <2>1. expected \in HeaderLen .. MaxLength BY <1>1, <1>2, <1>3, <1>4, <1>5, LengthsAre, StreamIs
  <2> QED BY <2>1, Sizes
<1>7. Called(more)
  <2>1. <<q>> \o Tail(todo) = <<q>>
    <3>1. Tail(todo) = <<>> BY <1>3
    <3>2. <<q>> \in Seq({q}) OBVIOUS
    <3> HIDE DEF q
    <3> QED BY <3>1, <3>2, ConcatEmptySeq
  <2>2. Finish(more) BY <1>3, <1>5, <2>1
  <2>3. data_full' = data_full
    <3>1. Assemble(First(s, expected), expected) BY <1>5
    <3> QED BY <3>1 DEF Assemble, MoveToFull, full
  <2> QED BY <1>1, <2>2, <2>3 DEF Called, Frame
<1>8. /\ first \in Seq(SentBytes(lens, n))
      /\ Len(first) = IF expected < m THEN expected ELSE m
      /\ \A i \in 1 .. Len(first) : first[i] = s[i]
      /\ m =< expected => first = s
  BY <1>4, <1>6, FirstIs
<1>9. /\ left \in Seq(SentBytes(lens, n))
      /\ Len(left) = IF expected =< m THEN m - expected ELSE 0
      /\ \A i \in 1 .. m - expected : left[i] = s[expected + i]
      /\ left = <<>> <=> m =< expected
  BY <1>4, <1>6, RemainingIs
<1>10. Assemble(first, expected) /\ expected_len_partial' = expected BY <1>5
<1>11. s # <<>> /\ 1 \in 1 .. m /\ (c # 0 => c \in 1 .. Len(lens))
  <2>1. 1 \in 1 .. m /\ m # 0 BY <1>1, <1>3, Sizes
  <2>2. s # <<>> BY <1>3, <2>1, EmptySeq
  <2>3. c # 0 => c \in 1 .. Len(lens) BY <1>3, <1>4, <2>1, SentIs
  <2> QED BY <2>1, <2>2, <2>3
<1> HIDE DEF s, p, n
<1>12. c # 0 => /\ lens[c] \in Nat /\ HeaderLen =< lens[c] /\ expected = lens[c]
                /\ \A j \in 1 .. m : j =< expected => s[j] = <<c, j>>
                /\ LeftOf(lens, n, s, c, left)
  <2>1. CASE c # 0
    <3>1. /\ c \in 1 .. Len(lens)
          /\ \A j \in 1 .. Len(s) : j =< lens[c] => s[j] = <<c, j>>
          /\ IsRun(lens, Remaining(s, lens[c]))
          /\ IsCutAt(lens, n, s) => IsCutAt(lens, n, Remaining(s, lens[c]))
          /\ \A j \in 1 .. Len(Remaining(s, lens[c])) :
                Remaining(s, lens[c])[j][1] # 0 => c < Remaining(s, lens[c])[j][1]
          /\ \A k \in Nat : k # c => \A i \in 1 .. Len(s) : s[i] = <<k, 1>> =>
                \E j \in 1 .. Len(Remaining(s, lens[c])) : Remaining(s, lens[c])[j] = <<k, 1>>
      BY <1>3, <1>4, <1>11, <2>1, RunIs
    <3>2. lens[c] \in Nat /\ HeaderLen =< lens[c] BY <1>3, <3>1, LensIs
    <3>3. expected = lens[c]
      <4>1. \A i \in 1 .. HeaderLen : s[i] = <<s[1][1], i>>
        <5>1. \A i \in 1 .. HeaderLen : i \in 1 .. Len(s) /\ i =< lens[c]
          <6> DEFINE x == lens[c]
          <6>1. x \in Nat /\ HeaderLen =< x BY <3>2
          <6> HIDE DEF x, c
          <6>2. \A i \in 1 .. HeaderLen : i \in 1 .. Len(s) /\ i =< x BY <1>1, <1>3, <6>1, Sizes
          <6> QED BY <6>2 DEF x
        <5> QED BY <3>1, <5>1
      <4>2. LengthsIn(s) = {lens[c]} BY <1>1, <1>2, <1>3, <1>4, <2>1, <4>1, LengthsAre, StreamIs
      <4> QED BY <1>5, <4>2
    <3> HIDE DEF c
    <3>4. /\ IsRun(lens, left) /\ IsCutAt(lens, n, left)
          /\ \A j \in 1 .. Len(left) : left[j][1] # 0 => c < left[j][1]
          /\ \A k \in Nat : k # c => \A i \in 1 .. Len(s) : s[i] = <<k, 1>> =>
                \E j \in 1 .. Len(left) : left[j] = <<k, 1>>
      BY <1>4, <3>1, <3>3
    <3> HIDE DEF left
    <3>6. LeftOf(lens, n, s, c, left) BY <3>4 DEF LeftOf
    <3>5. \A j \in 1 .. Len(s) : j =< expected => s[j] = <<c, j>> BY <3>1, <3>3
    <3> QED BY <3>2, <3>3, <3>5, <3>6
  <2> QED BY <2>1
<1>25. c # 0 => IsRun(lens, left) /\ IsCutAt(lens, n, left) BY <1>12 DEF LeftOf
<1>26. c # 0 => \A j \in 1 .. Len(left) : left[j][1] # 0 => c < left[j][1] BY <1>12 DEF LeftOf
<1>27. ASSUME c # 0, NEW k \in Nat, k # c, NEW i \in 1 .. m, s[i] = <<k, 1>>
       PROVE  \E j \in 1 .. Len(left) : left[j] = <<k, 1>>
  <2>1. LeftOf(lens, n, s, c, left) BY <1>12, <1>27
  <2> HIDE DEF c, left
  <2> QED BY <1>27, <2>1 DEF LeftOf
<1>13. c = 0 => AllNull(s) BY <1>4, <1>11 DEF IsRun
<1>14. IsRun(lens, left) /\ IsCutAt(lens, n, left)
  <2>1. CASE c # 0 BY <1>25, <2>1
  <2>2. CASE c = 0
    <3>1. AllNull(left) BY <1>4, <1>6, <1>13, <2>2, NullRemaining
    <3>2. left # <<>> => left[Len(left)][1] = 0
      <4>1. Len(left) \in Nat /\ (left = <<>> <=> Len(left) = 0) BY <1>9, LenProperties, EmptySeq
      <4>2. left # <<>> => Len(left) \in 1 .. Len(left) BY <4>1
      <4> QED BY <3>1, <4>2 DEF AllNull
    <3> QED BY <3>1, <3>2 DEF IsRun, IsCutAt
  <2> QED BY <2>1, <2>2
<1> HIDE DEF c, left, first
<1>15. Len(left) \in Nat /\ Len(first) \in Nat /\ Len(first) + Len(left) = m
       /\ Len(first) =< expected /\ Len(first) =< m /\ Len(left) =< m
       /\ (left = <<>> <=> Len(left) = 0) /\ \A j \in 1 .. Len(left) : j \in 1 .. m - expected
  <2> DEFINE x == Len(left)
             y == Len(first)
  <2>1. /\ x = IF expected =< m THEN m - expected ELSE 0
        /\ y = IF expected < m THEN expected ELSE m
    BY <1>8, <1>9
  <2>2. left = <<>> <=> m =< expected BY <1>9
  <2> HIDE DEF x, y, m
  <2>3. /\ x \in Nat /\ y \in Nat /\ y + x = m /\ y =< expected /\ y =< m /\ x =< m
        /\ (m =< expected <=> x = 0) /\ \A j \in 1 .. x : j \in 1 .. m - expected
    BY <1>3, <1>6, <2>1
  <2> QED BY <2>2, <2>3 DEF x, y
<1>16. IsTodo(lens, n, more) /\ ToDo(more) = Len(left)
  <2>1. CASE left = <<>>
    <3>1. more = <<>> /\ Len(left) = 0 BY <1>15, <2>1
    <3> QED BY <3>1 DEF IsTodo, ToDo
  <2>2. CASE left # <<>>
    <3>1. q.start_flag = "START_SECTION" /\ q.bytes = left /\ q = Piece(q.start_flag, q.bytes)
      BY DEF Piece
    <3> HIDE DEF q
    <3>2. Len(left) =< PayloadSize
      <4> DEFINE x == Len(left)
      <4>1. x \in Nat /\ x =< m BY <1>15
      <4> HIDE DEF x, m
      <4>2. x =< PayloadSize BY <1>3, <1>4, <4>1, Sizes
      <4> QED BY <4>2 DEF x
    <3>3. IsPiece(lens, n, q) BY <1>9, <1>14, <2>2, <3>1, <3>2 DEF IsPiece, Flags
    <3>4. more = <<q>> BY <2>2
    <3> QED BY <3>1, <3>3, <3>4, OneCall
  <2> QED BY <2>1, <2>2
<1>17. Len(first) + ToDo(more) =< InProgress(status_partial, data_partial) + ToDo(todo)
  <2> DEFINE g == InProgress(status_partial, data_partial)
             x == Len(left)
             y == Len(first)
  <2>1. g \in Nat BY <1>2, ProgressIs
  <2>2. ToDo(<<>>) = 0 BY DEF ToDo
  <2>3. ToDo(todo) = m /\ ToDo(more) = x /\ y + x = m /\ x \in Nat /\ y \in Nat
    <3>1. ToDo(todo) = m + 0 BY <1>3, <2>2
    <3>2. m + 0 = m
      <4> HIDE DEF m
      <4> QED BY <1>3
    <3> QED BY <1>15, <1>16, <3>1, <3>2
  <2> HIDE DEF g, x, y, m, more
  <2>4. y + ToDo(more) =< g + ToDo(todo) BY <1>3, <2>1, <2>3
  <2> QED BY <2>4 DEF g, y
\* the numbers of the sections, in the order of the bytes
<1>18. \A j \in 1 .. Len(left) : left[j] = s[expected + j] /\ expected + j \in 1 .. m
  <2>1. \A j \in 1 .. Len(left) : left[j] = s[expected + j] BY <1>9, <1>15
  <2>2. \A j \in 1 .. Len(left) : expected + j \in 1 .. m
    <3> HIDE DEF m
    <3> QED BY <1>3, <1>6, <1>15
  <2> QED BY <2>1, <2>2
<1>19. \A k : /\ k \in 1 .. Len(lens) /\ (n # 0 => k # Len(lens))
              /\ \A j \in 1 .. Len(left) : left[j][1] # 0 => k < left[j][1]
              => IsOlder(lens, n, more, k)
  <2>1. CASE left = <<>>
    <3>1. more = <<>> /\ Len(<<>>) = 0 BY <2>1, EmptySeq
    <3> QED BY <3>1 DEF IsOlder
  <2>2. CASE left # <<>>
    <3>1. q.bytes = left BY DEF Piece
    <3> HIDE DEF q
    <3>2. Len(<<q>>) = 1 /\ <<q>>[1] = q BY OneCall
    <3>3. more = <<q>> BY <2>2
    <3>4. \A i \in 1 .. Len(more) : more[i].bytes = left BY <3>1, <3>2, <3>3
    <3> HIDE DEF more
    <3> QED BY <3>4 DEF IsOlder
  <2> QED BY <2>1, <2>2
<1>20. \A k : IsOlder(lens, n, todo, k) =>
          /\ k \in 1 .. Len(lens) /\ (n # 0 => k # Len(lens))
          /\ \A j \in 1 .. m : s[j][1] # 0 => k < s[j][1]
  <2>1. \A k : IsOlder(lens, n, todo, k) => \A j \in 1 .. m : s[j][1] # 0 => k < s[j][1]
    BY <1>1, <1>2, HeadIs DEF s, p, n
  <2> QED BY <2>1 DEF IsOlder
<1>21. \A k : IsOlder(lens, n, todo, k) => IsOlder(lens, n, more, k)
  <2>1. ASSUME NEW k, IsOlder(lens, n, todo, k)
        PROVE  \A j \in 1 .. Len(left) : left[j][1] # 0 => k < left[j][1]
    BY <1>18, <1>20, <2>1
  <2> HIDE DEF more
  <2> QED BY <1>19, <1>20, <2>1
<1>22. ASSUME IsWhole(lens, first)
       PROVE  /\ IsOlder(lens, n, more, first[1][1])
              /\ \A k : IsOlder(lens, n, todo, k) => k < first[1][1]
  <2>1. first[1] = s[1] /\ first[1][1] \in 1 .. Len(lens)
    <3>1. first # <<>> /\ first[1][1] \in 1 .. Len(lens) BY <1>22 DEF IsWhole
    <3>2. 1 \in 1 .. Len(first)
      <4>1. first = <<>> <=> Len(first) = 0 BY <1>8, EmptySeq
      <4> QED BY <1>15, <3>1, <4>1
    <3> QED BY <1>8, <3>1, <3>2
  <2>2. first[1][1] = c BY <2>1 DEF c
  <2>3. c # 0 BY <2>1, <2>2
  <2>4. n # 0 => c # Len(lens) BY <1>3, <1>8, <1>22, <2>2, WholeSent
  <2>5. \A j \in 1 .. Len(left) : left[j][1] # 0 => c < left[j][1] BY <1>26, <2>3
  <2>6. IsOlder(lens, n, more, c)
    <3> HIDE DEF more
    <3> QED BY <1>19, <2>1, <2>2, <2>4, <2>5
  <2>7. \A k : IsOlder(lens, n, todo, k) => k < c BY <1>11, <1>20, <2>3 DEF c
  <2> QED BY <2>2, <2>6, <2>7
<1>23. ASSUME NEW k \in 1 .. Len(lens), Begins(todo, k) \/ GoesOn(k)
       PROVE  \/ Begins(more, k)
              \/ IsWhole(lens, first) /\ k = first[1][1] /\ Len(first) = expected
              \/ /\ first = Section(k, Len(first)) /\ Len(first) \in HeaderLen .. lens[k] - 1
                 /\ expected = lens[k] /\ k = Len(lens) /\ Len(first) = lens[k] - n
                 /\ more = <<>>
  <2>1. PICK i \in 1 .. m : s[i] = <<k, 1>> BY <1>1, <1>2, <1>23, StartOnly DEF p, s
  <2>2. k \in Nat /\ k # 0
    <3>1. Len(lens) \in Nat BY <1>3, LensIs
    <3> QED BY <3>1
  <2>3. c # 0
    <3>1. s[i][1] = k BY <2>1
    <3> QED BY <1>13, <2>1, <2>2, <3>1 DEF AllNull
  <2>4. CASE k # c
    <3>1. PICK j \in 1 .. Len(left) : left[j] = <<k, 1>> BY <1>27, <2>1, <2>2, <2>3, <2>4
    <3>2. left # <<>> BY <1>15, <3>1
    <3>3. q.start_flag = "START_SECTION" /\ q.bytes = left BY DEF Piece
    <3> HIDE DEF q
    <3>4. more = <<q>> /\ Len(<<q>>) = 1 /\ <<q>>[1] = q /\ <<q>> # <<>> BY <3>2, OneCall
    <3> HIDE DEF more
    <3>5. more # <<>> /\ more[Len(more)] = q BY <3>4
    <3> QED BY <3>1, <3>3, <3>5 DEF Begins
  <2>5. CASE k = c
    <3>1. /\ lens[k] \in Nat /\ expected = lens[k] /\ HeaderLen =< lens[k]
          /\ \A j \in 1 .. m : j =< expected => s[j] = <<k, j>>
      BY <1>12, <2>3, <2>5
    <3>2. \A j \in 1 .. Len(first) : first[j] = <<k, j>>
      <4>1. \A j \in 1 .. Len(first) : j \in 1 .. m /\ j =< expected
        <5> DEFINE y == Len(first)
        <5>1. y \in Nat /\ y =< m /\ y =< expected BY <1>15
        <5> HIDE DEF y, m
        <5>2. \A j \in 1 .. y : j \in 1 .. m /\ j =< expected BY <1>3, <1>6, <5>1
        <5> QED BY <5>2 DEF y
      <4> QED BY <1>8, <3>1, <4>1
    <3>3. CASE m >= expected
      <4>1. Len(first) = lens[k]
        <5> DEFINE y == Len(first)
        <5>1. y = IF expected < m THEN expected ELSE m BY <1>8
        <5> HIDE DEF y, m
        <5>2. y = expected BY <1>3, <1>6, <3>3, <5>1
        <5> QED BY <3>1, <5>2 DEF y
      <4>2. \A j \in 1 .. lens[k] : first[j] = <<k, j>> BY <3>2, <4>1
      <4>3. IsWhole(lens, first) /\ first[1][1] = k BY <1>3, <1>8, <4>1, <4>2, WholeFrom
      <4> QED BY <3>1, <4>1, <4>3
    <3>4. CASE ~ (m >= expected)
      <4>1. m < expected
        <5> HIDE DEF m
        <5> QED BY <1>3, <1>6, <3>4
      <4>2. first = s /\ Len(first) = m /\ left = <<>>
        <5>1. m =< expected
          <6> HIDE DEF m
          <6> QED BY <1>3, <1>6, <4>1
        <5> QED BY <1>8, <1>9, <5>1
      <4>3. first = Section(k, Len(first)) BY <1>8, <2>2, <3>2, SectionOf
      <4>4. m \in 1 .. m /\ m \in HeaderLen .. lens[k] - 1
        <5> DEFINE x == lens[k]
        <5>1. x \in Nat /\ m < x BY <3>1, <4>1
        <5> HIDE DEF x, m
        <5>2. m \in 1 .. m /\ m \in HeaderLen .. x - 1 BY <1>1, <1>3, <5>1, Sizes
        <5> QED BY <5>2 DEF x
      <4>5. s[m] = <<k, m>> BY <3>2, <4>2, <4>4
      <4>6. s[m][1] = k /\ s[m][2] = m BY <4>5
      <4>7. k = Len(lens) /\ m = lens[Len(lens)] - n
        BY <1>4, <1>11, <2>2, <3>1, <4>1, <4>6 DEF IsCutAt
      <4>8. more = <<>> BY <4>2
      <4> HIDE DEF more
      <4> QED BY <3>1, <4>2, <4>3, <4>4, <4>7, <4>8
    <3> QED BY <3>3, <3>4
  <2> QED BY <2>4, <2>5
<1>24. Len(first) =< MAX_TS_SIZE
  <2> DEFINE y == Len(first)
  <2>1. y \in Nat /\ y =< m BY <1>15
  <2> HIDE DEF y, m
  <2>2. y =< MAX_TS_SIZE BY <1>3, <1>4, <2>1, Sizes
  <2> QED BY <2>2 DEF y
<1> HIDE DEF more, m
<1> QED
  BY <1>1, <1>6, <1>7, <1>8, <1>10, <1>15, <1>16, <1>17, <1>21, <1>22, <1>23, <1>24, GrowsIs DEF n

\* What follows the section that ends here is newer.
LEMMA PairOlder ==
  ASSUME Stream, Call, pc = "add", Head(todo).start_flag = "NO_START",
         NEW c \in 1 .. Len(lens), Len(rest) # 0 => c # Len(lens),
         Head(todo).bytes # <<>>, Head(todo).bytes[1][1] = c
  PROVE  IsOlder(lens, Len(rest), Tail(todo), c)
<1> DEFINE n == Len(rest)
           s == Head(todo).bytes
           calls == Tail(todo)
<1>1. lens \in Seq(SectionLens) /\ n \in Nat /\ Len(lens) \in Nat BY StreamIs, LensIs
<1>2. c \in Nat /\ c # 0 BY <1>1
<1>3. CASE calls = <<>>
  <2>1. Len(calls) = 0 BY <1>3, EmptySeq
  <2> HIDE DEF calls
  <2>2. IsOlder(lens, n, calls, c)
    <3>1. 1 .. Len(calls) = {} BY <2>1
    <3> QED BY <3>1 DEF IsOlder
  <2> QED BY <2>2 DEF calls
<1>4. CASE calls # <<>>
  <2>1. PICK q : calls = <<q>> /\ IsPiece(lens, n, q) /\ IsPair(s, q.bytes)
                 /\ q.start_flag = "START_TS"
    BY <1>4, HeadIs
  <2> DEFINE t == q.bytes
  <2>2. t \in Seq(SentBytes(lens, n)) /\ IsRun(lens, t) BY <2>1 DEF IsPiece
  <2>3. Len(t) \in Nat /\ \A j \in 1 .. Len(t) : t[j][1] \in Nat BY <1>1, <2>2, SentIs
  <2>4. ASSUME NEW j \in 1 .. Len(t), t[j][1] # 0 PROVE c < t[j][1]
    <3>1. ~ AllNull(t) BY <2>4 DEF AllNull
    <3>2. t # <<>> /\ t[1][1] # 0 BY <2>2, <3>1 DEF IsRun
    <3>3. t[1][1] =< t[j][1] BY <1>1, <2>2, <2>4, <3>2, RunIs
    <3>4. s[1][1] < t[1][1] BY <1>2, <2>1, <3>2 DEF IsPair
    <3>5. 1 \in 1 .. Len(t) BY <2>3, <2>4
    <3>6. t[1][1] \in Nat /\ t[j][1] \in Nat BY <2>3, <2>4, <3>5
    <3> DEFINE a == t[1][1]
               b == t[j][1]
    <3>7. a \in Nat /\ b \in Nat /\ a =< b /\ c < a BY <3>3, <3>4, <3>6
    <3> HIDE DEF a, b
    <3>8. c < b BY <1>2, <3>7
    <3> QED BY <3>8 DEF b
  <2>5. Len(<<q>>) = 1 /\ <<q>>[1] = q BY OneCall
  <2>6. \A i \in 1 .. Len(calls) : calls[i].bytes = t
    <3>1. calls = <<q>> BY <2>1
    <3> HIDE DEF calls
    <3>2. Len(calls) = 1 /\ calls[1] = q BY <2>5, <3>1
    <3> QED BY <3>2
  <2> HIDE DEF calls, t, s
  <2>7. \A i \in 1 .. Len(calls) : \A j \in 1 .. Len(calls[i].bytes) :
           calls[i].bytes[j][1] # 0 => c < calls[i].bytes[j][1]
    <3> TAKE i \in 1 .. Len(calls)
    <3>1. calls[i].bytes = t BY <2>6
    <3> QED BY <2>4, <3>1
  <2>8. IsOlder(lens, n, calls, c) BY <2>7 DEF IsOlder
  <2> QED BY <2>8 DEF calls
<1> QED BY <1>3, <1>4

\* The bytes of an intact section that goes on are those that are expected.
LEMMA GoesOnBytes ==
  ASSUME Stream, Assembled, Call, pc = "add", NEW k \in 1 .. Len(lens), Kept(k), InThis(k)
  PROVE  LET m == Len(data_partial)
             s == Head(todo).bytes
             x == data_partial \o s
         IN \A i \in 1 .. Len(x) : i =< lens[k] => x[i] = <<k, i>>
<1> DEFINE n == Len(rest)
           m == Len(data_partial)
           s == Head(todo).bytes
           x == data_partial \o s
<1>1. lens \in Seq(SectionLens) /\ n \in Nat /\ Len(lens) \in Nat BY StreamIs, LensIs
<1>2. k \in Nat /\ k # 0 /\ lens[k] \in Nat BY <1>1, LensIs
<1>3. /\ s # <<>> /\ s[1] = <<k, m + 1>> /\ Head(todo).start_flag = "NO_START"
  BY DEF InThis
<1>4. s \in Seq(SentBytes(lens, n)) /\ IsEnding(lens, s) /\ Len(s) \in Nat
  BY <1>3, HeadIs DEF IsPiece
<1>5. data_partial \in Seq(SentBytes(lens, n)) /\ m \in Nat BY ProgressIs DEF Assembled
<1>6. /\ Len(x) = m + Len(s) /\ (\A i \in 1 .. m : x[i] = data_partial[i])
      /\ \A i \in 1 .. Len(s) : x[m + i] = s[i]
  BY <1>4, <1>5, ConcatIs
<1>7. \A i \in 1 .. m : data_partial[i] = <<k, i>>
  <2>1. data_partial = Section(k, m) BY DEF Kept
  <2> QED BY <1>2, <1>5, <2>1, SectionIs
<1>8. \A i \in 1 .. Len(s) : m + i =< lens[k] => s[i] = <<k, m + i>>
  <2>1. 1 \in 1 .. Len(s)
    <3>1. Len(s) # 0 BY <1>3, <1>4, EmptySeq
    <3> QED BY <1>4, <3>1
  <2>2. s[1][1] = k /\ s[1][2] = m + 1 BY <1>3
  <2>3. ~ AllNull(s) BY <1>2, <2>1, <2>2 DEF AllNull
  <2>4. \A i \in 1 .. Len(s) :
           s[i] = IF s[1][2] + i - 1 =< lens[s[1][1]] THEN <<s[1][1], s[1][2] + i - 1>>
                  ELSE Stuffing
    BY <1>4, <2>3 DEF IsEnding
  <2>5. \A i \in 1 .. Len(s) :
           s[i] = IF (m + 1) + i - 1 =< lens[k] THEN <<k, (m + 1) + i - 1>> ELSE Stuffing
    BY <2>2, <2>4
  <2>6. \A i \in 1 .. Len(s) : (m + 1) + i - 1 = m + i
    <3> HIDE DEF m
    <3>1. \A i \in Nat : (m + 1) + i - 1 = m + i BY <1>5
    <3> QED BY <1>4, <3>1
  <2> HIDE DEF s, m
  <2> QED BY <2>5, <2>6
<1> HIDE DEF s, x, m
<1>9. ASSUME NEW i \in 1 .. Len(x), i =< lens[k] PROVE x[i] = <<k, i>>
  <2>1. CASE i =< m
    <3>1. i \in 1 .. m BY <1>5, <1>6, <1>9, <2>1
    <3> QED BY <1>6, <1>7, <3>1
  <2>2. CASE ~ (i =< m)
    <3>1. i - m \in 1 .. Len(s) /\ m + (i - m) = i BY <1>4, <1>5, <1>6, <1>9, <2>2
    <3>2. s[i - m] = <<k, i>> BY <1>8, <1>9, <3>1
    <3>3. x[i] = s[i - m] BY <1>6, <3>1
    <3> QED BY <3>2, <3>3
  <2> QED BY <2>1, <2>2
<1> QED BY <1>9 DEF x, s, m

LEMMA AddContinueIs ==
  ASSUME IInv, AddContinue, Frame
  PROVE  IInv'
<1> DEFINE p == Head(todo)
           s == p.bytes
           more == Tail(todo)
           n == Len(rest)
           m == Len(data_partial)
           x == data_partial \o s
           L == Len(x)
<1>1. /\ pc = "add" /\ p.start_flag = "NO_START" /\ Unfinished
      /\ packet_cc # cc /\ packet_cc = (cc + 1) % CounterSize
      /\ status_partial = "STARTED" \/ m + Len(s) >= HeaderLen
      /\ cc' = packet_cc /\ Finish(more)
  BY DEF AddContinue
<1>2. Stream /\ Assembled /\ Call BY DEF IInv
<1>3. /\ IsPiece(lens, n, p) /\ IsTodo(lens, n, more) /\ Len(s) \in Nat
      /\ ToDo(more) \in Nat /\ ToDo(todo) = Len(s) + ToDo(more)
      /\ (Len(todo) = 1 <=> more = <<>>)
  BY <1>1, <1>2, HeadIs
<1>4. /\ lens \in Seq(SectionLens) /\ n \in Nat /\ (rest = <<>> <=> n = 0)
      /\ Len(lens) \in Nat
  BY <1>2, StreamIs, LensIs
<1>5. s \in Seq(SentBytes(lens, n)) /\ IsEnding(lens, s) BY <1>1, <1>3 DEF IsPiece
<1>6. data_partial \in Seq(SentBytes(lens, n)) /\ m \in Nat /\ m =< MAX_TS_SIZE
  BY <1>2, ProgressIs DEF Assembled
<1>7. /\ x \in Seq(SentBytes(lens, n)) /\ L = m + Len(s) /\ L \in Nat
      /\ \A i \in 1 .. m : x[i] = data_partial[i]
      /\ \A i \in 1 .. Len(s) : x[m + i] = s[i]
  <2> DEFINE b == Len(s)
  <2>1. /\ x \in Seq(SentBytes(lens, n)) /\ L = m + b
        /\ \A i \in 1 .. m : x[i] = data_partial[i]
        /\ \A i \in 1 .. b : x[m + i] = s[i]
    BY <1>5, <1>6, ConcatIs
  <2> HIDE DEF x, m, b
  <2>2. m + b \in Nat BY <1>3, <1>6 DEF b
  <2> QED BY <2>1, <2>2 DEF b
<1> HIDE DEF x, L, m, more, n
<1>8. PICK expected \in IF status_partial = "STARTED" THEN {expected_len_partial} ELSE LengthsIn(x) :
         expected_len_partial' = expected /\ Assemble(Extended(s, expected), expected)
  BY DEF AddContinue, x
<1>9. expected \in HeaderLen .. MaxLength /\ expected \in Nat /\ m < expected
  <2>1. CASE status_partial = "STARTED"
    <3>1. expected = expected_len_partial BY <1>8, <2>1
    <3>2. expected \in {0} \cup HeaderLen .. MaxLength /\ expected >= HeaderLen /\ m < expected
      BY <1>2, <2>1, <3>1 DEF Assembled, m
    <3> QED BY <3>2, Sizes
  <2>2. CASE status_partial # "STARTED"
    <3>1. status_partial = "PARTIAL_HEADER" BY <1>1, <2>2 DEF Unfinished
    <3>2. m < HeaderLen BY <1>2, <3>1 DEF Assembled, m
    <3>3. L >= HeaderLen BY <1>1, <1>7, <2>2
    <3>4. LengthsIn(x) \subseteq HeaderLen .. MaxLength
      BY <1>2, <1>4, <1>7, <3>3, LengthsAre DEF L
    <3>5. expected \in HeaderLen .. MaxLength BY <1>8, <2>2, <3>4
    <3> QED BY <1>6, <3>2, <3>5, Sizes
  <2> QED BY <2>1, <2>2
<1> DEFINE cap == IF expected > MAX_TS_SIZE THEN MAX_TS_SIZE ELSE expected
           bytes == First(x, cap)
           B == Len(bytes)
<1>10. cap \in Nat /\ cap =< expected /\ cap =< MAX_TS_SIZE
  BY <1>9, Sizes
<1>11. Assemble(bytes, expected) /\ expected_len_partial' = expected
  BY <1>8 DEF Extended, x
<1> HIDE DEF cap
<1>12. /\ bytes \in Seq(SentBytes(lens, n))
       /\ B = IF cap < L THEN cap ELSE L
       /\ \A i \in 1 .. B : bytes[i] = x[i]
       /\ L =< cap => bytes = x
  BY <1>7, <1>10, FirstIs DEF L
<1> HIDE DEF bytes, B
<1>13. B \in Nat /\ B =< L /\ B =< expected /\ B =< MAX_TS_SIZE
  <2>1. B = IF cap < L THEN cap ELSE L BY <1>12
  <2>2. L \in Nat BY <1>7
  <2> QED BY <1>9, <1>10, <2>1, <2>2, Sizes
<1>14. Called(more)
  <2>1. data_full' = data_full BY <1>11 DEF Assemble, MoveToFull, full
  <2> QED BY <1>1, <2>1 DEF Called, Frame
<1>15. B + ToDo(more) =< InProgress(status_partial, data_partial) + ToDo(todo)
  <2>1. InProgress(status_partial, data_partial) = m BY <1>1 DEF Unfinished, InProgress, m
  <2> DEFINE b == Len(s)
             d == ToDo(more)
  <2>2. b \in Nat /\ d \in Nat /\ L = m + b /\ ToDo(todo) = b + d BY <1>3, <1>7
  <2> HIDE DEF b, d
  <2>3. B + d =< m + (b + d) BY <1>6, <1>13, <2>2
  <2> QED BY <2>1, <2>2, <2>3 DEF d
<1>16. \A k : IsOlder(lens, n, todo, k) => IsOlder(lens, n, more, k)
  BY <1>1, <1>2, HeadIs DEF more, n
\* a section is whole: its end is in this packet
<1>17. ASSUME IsWhole(lens, bytes), B = expected
       PROVE  /\ IsOlder(lens, n, more, bytes[1][1])
              /\ \A k : IsOlder(lens, n, todo, k) => k < bytes[1][1]
  <2> DEFINE c == bytes[1][1]
  <2>1. /\ c \in 1 .. Len(lens) /\ \A i \in 1 .. B : bytes[i] = <<c, i>>
    BY <1>4, <1>17, WholeIs DEF B
  <2>2. 1 \in 1 .. Len(s) /\ m + 1 \in 1 .. B
    <3> DEFINE b == Len(s)
    <3>1. b \in Nat /\ L = m + b BY <1>3, <1>7
    <3> HIDE DEF b
    <3>2. 1 \in 1 .. b /\ m + 1 \in 1 .. B BY <1>6, <1>9, <1>13, <1>17, <3>1
    <3> QED BY <3>2 DEF b
  <2>3. s[1] = <<c, m + 1>>
    <3>1. x[m + 1] = s[1] BY <1>7, <2>2
    <3> QED BY <1>12, <2>1, <2>2, <3>1
  <2>4. s # <<>> /\ s[1][1] = c
    <3>1. s # <<>> BY <1>5, <2>2, EmptySeq
    <3> QED BY <2>3, <3>1
  <2>5. n # 0 => c # Len(lens) BY <1>4, <1>12, <1>17, WholeSent
  <2> HIDE DEF c
  <2>6. c \in Nat /\ c # 0 BY <1>4, <2>1
  <2>7. IsOlder(lens, n, more, c) BY <1>1, <1>2, <2>1, <2>4, <2>5, PairOlder DEF n, more
  <2>8. ASSUME NEW k, IsOlder(lens, n, todo, k) PROVE k < c
    <3>1. s[1][1] # 0 => k < s[1][1] BY <1>1, <1>2, <2>2, <2>8, HeadIs DEF n
    <3> QED BY <2>4, <2>6, <3>1
  <2> QED BY <2>7, <2>8 DEF c
\* what becomes of an intact section that goes on
<1>18. ASSUME NEW k \in 1 .. Len(lens), GoesOn(k)
       PROVE  \/ IsWhole(lens, bytes) /\ k = bytes[1][1] /\ B = expected
              \/ /\ bytes = Section(k, B) /\ B \in HeaderLen .. lens[k] - 1
                 /\ expected = lens[k] /\ k = Len(lens) /\ B = lens[k] - n
                 /\ more = <<>>
  <2> DEFINE l == lens[k]
             b == Len(s)
  <2>1. l \in Nat /\ HeaderLen =< l /\ l =< MAX_TS_SIZE /\ k \in Nat /\ k # 0 BY <1>4, LensIs
  <2>2. InThis(k) /\ Kept(k)
    <3>1. ~ InNext(k)
      <4>1. counter # (cc + 1) % CounterSize BY <1>1, <1>2, CounterNow
      <4> QED BY <4>1 DEF InNext
    <3> QED BY <1>18, <3>1 DEF GoesOn
  <2>3. \A i \in 1 .. L : i =< l => x[i] = <<k, i>>
    BY <1>1, <1>2, <2>2, GoesOnBytes DEF x, L
  <2>4. /\ \/ L >= l
           \/ k = Len(lens) /\ L = l - n /\ b = PayloadSize /\ Len(todo) = 1
    BY <1>7, <2>2 DEF InThis, m, n
  <2>5. IF m < HeaderLen THEN status_partial = "PARTIAL_HEADER"
        ELSE status_partial = "STARTED" /\ expected_len_partial = l
    BY <2>2 DEF Kept, m
  <2> HIDE DEF l, b
  <2>6. L >= HeaderLen /\ L \in Nat
    <3>1. L = m + b BY <1>7 DEF b
    <3>2. b \in Nat BY <1>3 DEF b
    <3> QED BY <1>6, <1>7, <2>1, <2>4, <3>1, <3>2, Sizes
  <2>7. expected = l
    <3>1. CASE status_partial = "STARTED"
      <4>1. expected = expected_len_partial BY <1>8, <3>1
      <4> QED BY <2>5, <3>1, <4>1
    <3>2. CASE status_partial # "STARTED"
      <4>1. \A i \in 1 .. HeaderLen : i \in 1 .. L /\ i =< l BY <2>1, <2>6, Sizes
      <4>2. 1 \in 1 .. HeaderLen BY Sizes
      <4>3. \A i \in 1 .. HeaderLen : x[i] = <<k, i>> BY <2>3, <4>1
      <4>4. x[1][1] = k
        <5>1. x[1] = <<k, 1>> BY <4>2, <4>3
        <5> QED BY <5>1
      <4>5. LengthsIn(x) = {lens[x[1][1]]}
        <5>1. \A i \in 1 .. HeaderLen : x[i] = <<x[1][1], i>> BY <4>3, <4>4
        <5>2. x[1][1] # 0 BY <2>1, <4>4
        <5> QED BY <1>2, <1>4, <1>7, <2>6, <5>1, <5>2, LengthsAre DEF L
      <4> QED BY <1>8, <3>2, <4>4, <4>5 DEF l
    <3> QED BY <3>1, <3>2
  <2>8. cap = l
    <3>1. cap = IF l > MAX_TS_SIZE THEN MAX_TS_SIZE ELSE l BY <2>7 DEF cap
    <3> QED BY <2>1, <3>1, Sizes
  <2>9. \A i \in 1 .. B : bytes[i] = <<k, i>>
    <3>1. \A i \in 1 .. B : i \in 1 .. L /\ i =< l BY <1>7, <1>13, <2>1, <2>7
    <3> QED BY <1>12, <2>3, <3>1
  <2>10. CASE L >= l
    <3>1. B = l BY <1>12, <2>1, <2>6, <2>8, <2>10
    <3>2. /\ Len(bytes) = lens[k] /\ \A j \in 1 .. lens[k] : bytes[j] = <<k, j>>
      BY <2>9, <3>1 DEF l, B
    <3>3. IsWhole(lens, bytes) /\ bytes[1][1] = k BY <1>4, <1>12, <3>2, WholeFrom
    <3> QED BY <2>7, <3>1, <3>3
  <2>11. CASE ~ (L >= l)
    <3>1. k = Len(lens) /\ L = l - n /\ b = PayloadSize /\ Len(todo) = 1 BY <2>4, <2>11
    <3>2. more = <<>> BY <1>3, <3>1
    <3>3. B = L BY <1>7, <1>12, <2>1, <2>6, <2>8, <2>11
    <3>4. bytes = Section(k, B) BY <1>12, <2>1, <2>9, SectionOf DEF B
    <3>5. B \in HeaderLen .. l - 1 BY <2>1, <2>6, <2>11, <3>3, Sizes
    <3> QED BY <2>7, <3>1, <3>2, <3>3, <3>4, <3>5 DEF l
  <2> QED BY <2>10, <2>11
<1>19. \A k : Begins(todo, k) => Begins(more, k) BY <1>1, <1>2, EndOnly DEF more
<1>20. \A k \in 1 .. Len(lens) \ spoiled :
          Begins(todo, k) \/ GoesOn(k) =>
             \/ Begins(more, k)
             \/ IsWhole(lens, bytes) /\ k = bytes[1][1] /\ B = expected
             \/ /\ bytes = Section(k, B) /\ B \in HeaderLen .. lens[k] - 1
                /\ expected = lens[k] /\ k = Len(lens) /\ B = lens[k] - n
                /\ more = <<>>
  BY <1>18, <1>19
<1> QED
  BY <1>1, <1>3, <1>9, <1>11, <1>12, <1>13, <1>14, <1>15, <1>16, <1>17, <1>20, GrowsIs DEF n, B

LEMMA AddIs ==
  ASSUME IInv, Add
  PROVE  IInv'
<1>1. Frame BY DEF Add, Frame
<1>2. AddStuffing \/ AddShortStart \/ AddStart \/ AddStray \/ AddDuplicate \/ AddContinue
  BY DEF Add
<1>3. CASE AddStuffing BY <1>1, <1>3, AddStuffingIs
<1>4. CASE AddShortStart BY <1>1, <1>4, AddShortStartIs
<1>5. CASE AddStart BY <1>1, <1>5, AddStartIs
<1>6. CASE AddStray BY <1>1, <1>6, AddStrayIs
<1>7. CASE AddDuplicate BY <1>1, <1>7, AddDuplicateIs
<1>8. CASE AddContinue BY <1>1, <1>8, AddContinueIs
<1> QED BY <1>2, <1>3, <1>4, <1>5, <1>6, <1>7, <1>8

-----------------------------------------------------------------------------
(* The caller *)

LEMMA TakenRange ==
  ASSUME NEW a \in Seq(Nat), NEW x \in Nat
  PROVE  /\ Append(a, x) \in Seq(Nat) /\ x \in Range(Append(a, x))
         /\ Range(a) \subseteq Range(Append(a, x))
<1> DEFINE A == Len(a)
           b == Append(a, x)
<1>1. /\ b \in Seq(Nat) /\ Len(b) = A + 1 /\ A \in Nat
      /\ \A i \in 1 .. A : b[i] = a[i]
      /\ b[A + 1] = x
  BY AppendProperties, LenProperties
<1>2. DOMAIN a = 1 .. A /\ DOMAIN b = 1 .. Len(b) BY <1>1, LenProperties
<1> HIDE DEF A, b
<1>3. A + 1 \in DOMAIN b /\ \A i \in DOMAIN a : i \in DOMAIN b /\ b[i] = a[i] BY <1>1, <1>2
<1>4. x \in Range(b) BY <1>1, <1>3 DEF Range
<1>5. Range(a) \subseteq Range(b) BY <1>3 DEF Range
<1> QED BY <1>1, <1>4, <1>5 DEF b

\* The caller takes the section in its hands: nothing else becomes of the full ones.
LEMMA TakenComing ==
  ASSUME Stream, Call, Held, pc = "got", delivered \in Seq(Nat), Take, pc' # "add",
         \/ TakeOut /\ (pc' = "got" <=> full_lengths # <<>>)
         \/ pc' = "idle" /\ UNCHANGED full
  PROVE  Coming' = Coming /\ delivered' \in Seq(Nat)
<1> DEFINE m == Len(full_lengths)
           x == data_full[1][1]
           y == data_full'[1][1]
           b == Append(delivered, x)
<1>1. /\ m \in Nat /\ Nums \in [1 .. m -> Nat] /\ (full_lengths = <<>> <=> m = 0)
  BY HeldIs
<1>2. x \in Nat
  <2>1. x \in 1 .. Len(lens) BY DEF Call, Pending, IsWhole
  <2> QED BY <2>1
<1>3. b \in Seq(Nat) /\ delivered' = b BY <1>2, TakenRange DEF Take
<1>4. Coming = Joined(delivered, InHand(TRUE, x), Nums)
  <2>1. Pending BY DEF Pending
  <2> QED BY <2>1, ComingIs DEF InHand
<1>5. Joined(b, <<>>, Nums) = Coming BY <1>1, <1>2, <1>4, TakeJoined
<1>6. Coming' = Joined(b, InHand(Pending', y), Nums')
  <2>1. Coming' = Joined(delivered', InHand(Pending', data_full'[1][1]), Nums')
    BY DEF Coming, Joined, InHand
  <2> QED BY <1>3, <2>1
<1>7. Pending' <=> pc' = "got" BY DEF Pending
<1> HIDE DEF b, y
<1>8. CASE Nums' = Nums /\ ~ Pending'
  <2>1. InHand(Pending', y) = <<>> BY <1>8 DEF InHand
  <2>2. Coming' = Joined(b, <<>>, Nums) BY <1>6, <1>8, <2>1
  <2> QED BY <1>3, <1>5, <2>2
<1>9. CASE ~ (Nums' = Nums /\ ~ Pending')
  <2>1. TakeOut /\ full_lengths # <<>> /\ Pending'
    <3>1. UNCHANGED full => Nums' = Nums BY DEF full, Nums
    <3>2. TakeOut /\ full_lengths = <<>> => Nums' = Nums BY TakeOutIs
    <3> QED BY <1>7, <1>9, <3>1, <3>2
  <2>2. /\ y = Nums[1] /\ Len(full_lengths') = m - 1
        /\ \A i \in 1 .. m - 1 : Nums'[i] = Nums[i + 1]
    BY <2>1, TakeOutIs DEF y
  <2>3. m >= 1 /\ Nums' \in [1 .. m - 1 -> Nat]
    <3>1. Nums' \in [1 .. Len(full_lengths') -> Nat] BY <2>1, TakeOutIs
    <3> QED BY <1>1, <2>1, <2>2, <3>1
  <2> DEFINE k == Nums
             k1 == Nums'
  <2>4. /\ k \in [1 .. m -> Nat] /\ k1 \in [1 .. m - 1 -> Nat] /\ y = k[1]
        /\ \A i \in 1 .. m - 1 : k1[i] = k[i + 1]
    BY <1>1, <2>2, <2>3
  <2> HIDE DEF k, k1, m
  <2>5. Joined(b, InHand(TRUE, y), k1) = Joined(b, <<>>, k)
    BY <1>1, <1>3, <2>3, <2>4, ShiftJoined
  <2>6. InHand(Pending', y) = InHand(TRUE, y) BY <2>1 DEF InHand
  <2> QED BY <1>3, <1>5, <1>6, <2>5, <2>6 DEF k, k1
<1> QED BY <1>8, <1>9

LEMMA TakenKnown ==
  ASSUME Stream, Call, Held, pc = "got", delivered \in Seq(Nat), Take, pc' # "add",
         UNCHANGED <<unreported, skipped>>,
         \/ TakeOut /\ (pc' = "got" <=> full_lengths # <<>>)
         \/ pc' = "idle" /\ UNCHANGED full
  PROVE  Known \subseteq Known'
<1> DEFINE x == data_full[1][1]
<1>1. x \in Nat
  <2>1. x \in 1 .. Len(lens) BY DEF Call, Pending, IsWhole
  <2> QED BY <2>1, StreamIs, LensIs
<1>2. x \in Range(delivered') /\ Range(delivered) \subseteq Range(delivered')
  BY <1>1, TakenRange DEF Take
<1>3. Pending /\ (Pending' <=> pc' = "got") BY DEF Pending
<1>4. Waiting \subseteq Waiting' \cup (IF Pending' THEN {data_full'[1][1]} ELSE {})
  <2>1. CASE TakeOut /\ full_lengths # <<>>
    <3>1. data_full'[1][1] = Nums[1] /\ Waiting = {Nums[1]} \cup Waiting'
      BY <2>1, TakeOutIs
    <3>2. Pending'
      <4>1. ~ UNCHANGED full
        <5>1. /\ Len(full_lengths') = Len(full_lengths) - 1 /\ Len(full_lengths) \in Nat
          BY <2>1, TakeOutIs
        <5> QED BY <5>1 DEF full
      <4> QED BY <1>3, <2>1, <4>1
    <3> QED BY <3>1, <3>2
  <2>2. CASE TakeOut /\ full_lengths = <<>> BY <2>2, TakeOutIs
  <2>3. CASE UNCHANGED full BY <2>3 DEF full, Waiting, SectionsOf
  <2> QED BY <2>1, <2>2, <2>3
<1> QED BY <1>2, <1>3, <1>4 DEF Known

\* What waits in the buffer stays whole, and there is room for more.
LEMMA TakenHeld ==
  ASSUME Stream, Assembled, Call, Held, Room, TakeOut,
         UNCHANGED <<lens, rest, partial, todo, dropped>>
  PROVE  Held' /\ Room'
<1> DEFINE m == Len(full_lengths)
           M == Len(full_lengths')
           L == Len(buffer_full)
           L1 == Len(buffer_full')
           e == Ends(full_lengths)
           e1 == Ends(full_lengths')
           g == InProgress(status_partial, data_partial)
           d == ToDo(todo)
<1>1. m \in Nat /\ m =< MAX_FULL_PACKETS /\ L \in Nat /\ \A i \in 0 .. m : e[i] \in Nat
  BY HeldIs
<1>2. g \in Nat /\ d \in Nat
  <2>1. IsTodo(lens, Len(rest), todo) BY DEF Call
  <2> QED BY <2>1, StreamIs, ProgressIs, ToDoIs
<1>3. CASE full_lengths = <<>>
  <2>1. UNCHANGED full /\ Nums' = Nums BY <1>3, TakeOutIs
  <2>2. /\ full_lengths' = full_lengths /\ buffer_full' = buffer_full BY <2>1 DEF full
  <2>3. 1 .. M = {}
    <3>1. M = 0 BY <1>3, <2>2, EmptySeq
    <3> QED BY <3>1
  <2>4. Room' BY <2>3 DEF Room, IsRoomy
  <2>5. M =< MAX_FULL_PACKETS BY <1>1, <2>2
  <2>6. IsBuffer(lens, Len(rest), buffer_full', full_lengths', e1, Nums') BY TakeOutIs
  <2> HIDE DEF e1
  <2>7. IsBuffer(lens', Len(rest'), buffer_full', full_lengths', e1, Nums') BY <2>6
  <2> QED BY <2>4, <2>5, <2>7 DEF Held, NumFull, e1
<1>4. CASE full_lengths # <<>>
  <2>1. M = m - 1 /\ \A j \in 1 .. m - 1 : L1 - e1[j] = L - e[j + 1]
    BY <1>4, TakeOutIs
  <2>2. ASSUME NEW i \in 1 .. M PROVE L1 - e1[i] + g + d =< Quota(i)
    <3>1. i \in 1 .. m - 1 /\ L1 - e1[i] = L - e[i + 1] BY <2>1
    <3>2. i + 1 \in 1 .. m /\ i + 1 \in 0 .. m /\ i \in 1 .. MAX_FULL_PACKETS
      BY <1>1, <3>1, Sizes
    <3>3. L - e[i + 1] + g + d =< Quota(i + 1) BY <3>2 DEF Room, IsRoomy
    <3>4. Quota(i) \in Int /\ Quota(i + 1) \in Int /\ Quota(i) = Quota(i + 1) + PayloadSize
      BY <3>2, QuotaIs
    <3> DEFINE x == e[i + 1]
               y == L1 - e1[i]
               Q == Quota(i)
               Q1 == Quota(i + 1)
    <3>5. /\ x \in Nat /\ y = L - x /\ L \in Nat /\ Q \in Int /\ Q1 \in Int
          /\ Q = Q1 + PayloadSize /\ L - x + g + d =< Q1 /\ PayloadSize \in Nat
      BY <1>1, <3>1, <3>2, <3>3, <3>4, Sizes
    <3> HIDE DEF x, y, Q, Q1, g, d, L, m, M, L1, e1, e
    <3>6. y + g + d =< Q BY <1>2, <3>5
    <3> QED BY <3>6 DEF y, Q
  <2>3. g = InProgress(status_partial', data_partial') /\ d = ToDo(todo') BY DEF partial
  <2> HIDE DEF g, d
  <2>4. Room' BY <2>2, <2>3 DEF Room, IsRoomy
  <2> HIDE DEF M, m
  <2>5. M =< MAX_FULL_PACKETS BY <1>1, <2>1, Sizes
  <2>6. IsBuffer(lens, Len(rest), buffer_full', full_lengths', e1, Nums') BY TakeOutIs
  <2> HIDE DEF e1
  <2>7. IsBuffer(lens', Len(rest'), buffer_full', full_lengths', e1, Nums') BY <2>6
  <2> QED BY <2>4, <2>5, <2>7 DEF Held, NumFull, M, e1
<1> QED BY <1>3, <1>4

\* The parts of the invariant that are not about the full sections
LEMMA TakenRest ==
  ASSUME IInv, pc = "got", pc' # "add", Coming' = Coming, Known \subseteq Known',
         delivered' \in Seq(Nat),
         UNCHANGED <<sender, partial, packet_avail, packet_cc, todo, spoiled, repeated>>,
         Pending' => IsWhole(lens, data_full'), pc' \in {"got", "idle"}
  PROVE  Stream' /\ Assembled' /\ Call' /\ Ordered' /\ Accounted'
<1>1. Stream /\ Assembled /\ Call /\ Ordered /\ Accounted BY DEF IInv
<1>2. UNCHANGED <<lens, rest, counter, last, faults>> BY DEF sender
<1>3. UNCHANGED <<data_partial, expected_len_partial, status_partial, cc>> BY DEF partial
<1>4. Stream' BY <1>1, <1>2 DEF Stream
<1>5. Assembled' BY <1>1, <1>2, <1>3 DEF Assembled
<1>6. Call'
  <2>1. todo' = <<>> BY <1>1 DEF Call
  <2> QED BY <1>1, <1>2, <2>1 DEF Call
<1>7. Ordered' BY <1>1, <1>2 DEF Ordered
<1>8. Accounted'
  <2>1. ASSUME NEW k \in 1 .. Len(lens) \ spoiled
        PROVE  k \in Known' \/ Begins(todo', k) \/ GoesOn(k)'
    <3>1. GoesOn(k) => GoesOn(k)' BY <1>2, <1>3 DEF GoesOn, Kept, InThis, InNext
    <3> QED BY <1>1, <3>1 DEF Accounted
  <2> QED BY <1>2, <2>1 DEF Accounted
<1> QED BY <1>4, <1>5, <1>6, <1>7, <1>8

LEMMA CallAgainIs ==
  ASSUME IInv, CallAgain
  PROVE  IInv'
<1>1. Stream /\ Assembled /\ Call /\ Held /\ Room /\ Prompted /\ Ordered BY DEF IInv
<1>2. /\ pc = "got" /\ Take /\ TakeOut /\ left_behind' = FALSE
      /\ pc' = IF full_lengths # <<>> THEN "got" ELSE "idle"
      /\ UNCHANGED <<sender, partial, packet_avail, packet_cc, todo, spoiled, repeated>>
      /\ UNCHANGED <<unreported, skipped, dropped, waited>>
  BY DEF CallAgain, losses
<1>3. /\ pc' # "add" /\ pc' \in {"got", "idle"} /\ (pc' = "got" <=> full_lengths # <<>>)
  BY <1>2
<1>4. delivered \in Seq(Nat) BY <1>1 DEF Ordered
<1>5. Coming' = Coming /\ delivered' \in Seq(Nat) BY <1>1, <1>2, <1>3, <1>4, TakenComing
<1>6. Known \subseteq Known' BY <1>1, <1>2, <1>3, <1>4, TakenKnown
<1>7. Held' /\ Room' BY <1>1, <1>2, TakenHeld DEF sender
<1>8. Pending' => IsWhole(lens, data_full')
  <2>1. Pending' => full_lengths # <<>> BY <1>3 DEF Pending
  <2> QED BY <1>1, <1>2, <2>1, TakeOutIs
<1>9. Prompted'
  <2>1. pc' = "idle" => full_lengths' = <<>>
    <3>1. full_lengths = <<>> => full_lengths' = full_lengths BY <1>1, <1>2, TakeOutIs DEF full
    <3> QED BY <1>3, <3>1
  <2> QED BY <1>2, <1>3, <2>1 DEF Prompted
<1>10. Stream' /\ Assembled' /\ Call' /\ Ordered' /\ Accounted'
  BY <1>2, <1>3, <1>5, <1>6, <1>8, TakenRest
<1> QED BY <1>7, <1>9, <1>10 DEF IInv

LEMMA StopCallingIs ==
  ASSUME IInv, StopCalling
  PROVE  IInv'
<1>1. Stream /\ Assembled /\ Call /\ Held /\ Room /\ Prompted /\ Ordered BY DEF IInv
<1>2. /\ pc = "got" /\ Take /\ pc' = "idle" /\ left_behind' = (full_lengths # <<>>)
      /\ UNCHANGED <<sender, partial, packet_avail, packet_cc, todo, spoiled, repeated>>
      /\ UNCHANGED full /\ UNCHANGED <<unreported, skipped, dropped, waited>>
  BY DEF StopCalling, losses
<1>3. delivered \in Seq(Nat) BY <1>1 DEF Ordered
<1>4. Coming' = Coming /\ delivered' \in Seq(Nat) BY <1>1, <1>2, <1>3, TakenComing
<1>5. Known \subseteq Known' BY <1>1, <1>2, <1>3, TakenKnown
<1>6. full_lengths' = full_lengths /\ buffer_full' = buffer_full /\ Nums' = Nums
  BY <1>2 DEF full, Nums
<1>7. Held'
  <2> DEFINE e == Ends(full_lengths)
             e1 == Ends(full_lengths')
  <2>1. e1 = e /\ lens' = lens /\ Len(rest') = Len(rest) BY <1>2, <1>6 DEF sender
  <2>2. IsBuffer(lens, Len(rest), buffer_full, full_lengths, e, Nums) BY <1>1 DEF Held
  <2>3. Len(full_lengths') =< MAX_FULL_PACKETS BY <1>1, <1>6 DEF Held, NumFull
  <2> HIDE DEF e, e1
  <2>4. IsBuffer(lens', Len(rest'), buffer_full', full_lengths', e1, Nums')
    BY <1>6, <2>1, <2>2
  <2> QED BY <2>3, <2>4 DEF Held, NumFull, e1
<1>8. Room' BY <1>1, <1>2, <1>6 DEF Room, partial
<1>9. Prompted' BY <1>2, <1>6 DEF Prompted
<1>10. ~ Pending' BY <1>2 DEF Pending
<1>11. Stream' /\ Assembled' /\ Call' /\ Ordered' /\ Accounted'
  BY <1>2, <1>4, <1>5, <1>10, TakenRest
<1> QED BY <1>7, <1>8, <1>9, <1>11 DEF IInv

-----------------------------------------------------------------------------
(* The invariant *)

LEMMA InitIInv == Init => IInv
<1> SUFFICES ASSUME Init PROVE IInv OBVIOUS
<1>1. /\ lens = <<>> /\ rest = <<>> /\ counter = 0 /\ faults = 0 /\ last = NoPacket
      /\ full_lengths = <<>> /\ buffer_full = <<>>
      /\ data_partial = <<>> /\ expected_len_partial = 0
      /\ status_partial = "EMPTY" /\ cc = 0
      /\ pc = "idle" /\ packet_avail = FALSE /\ packet_cc = 0 /\ todo = <<>>
      /\ delivered = <<>> /\ spoiled = {} /\ repeated = FALSE
      /\ dropped = {} /\ waited = {} /\ left_behind = FALSE
  BY DEF Init
<1>2. /\ lens \in Seq(SectionLens) /\ Len(lens) = 0 /\ Len(rest) = 0 /\ Len(full_lengths) = 0
      /\ delivered \in Seq(Nat) /\ data_partial \in Seq(SentBytes(lens, Len(rest)))
      /\ Len(data_partial) = 0
  BY <1>1, EmptySeq
<1>3. Stream
  <2>1. IsRest(lens, rest) BY <1>1 DEF IsRest
  <2>2. 0 \in 0 .. CounterSize - 1 /\ 0 \in 0 .. MaxFaults BY Sizes
  <2> QED BY <1>1, <1>2, <2>1, <2>2 DEF Stream
<1>4. Assembled BY <1>1, <1>2, Sizes DEF Assembled
<1>5. ~ Pending BY <1>1 DEF Pending
<1>6. Call
  <2>1. IsTodo(lens, Len(rest), todo) BY <1>1 DEF IsTodo
  <2>2. 0 \in 0 .. CounterSize - 1 BY Sizes
  <2> QED BY <1>1, <1>5, <2>1, <2>2 DEF Call
<1>7. /\ IsBuffer(lens, Len(rest), buffer_full, full_lengths, Ends(full_lengths), Nums)
      /\ Nums = <<>>
  <2> DEFINE e == [i \in 0 .. 0 |-> 0]
             n == Len(rest)
  <2>1. IsBuffer(lens, n, <<>>, <<>>, e, <<>>) BY EmptyBuffer
  <2>2. n \in Nat BY <1>2
  <2> HIDE DEF e, n
  <2>3. Ends(<<>>) = e /\ NumsOf(<<>>, <<>>) = <<>> BY <1>2, <2>1, <2>2, BufferIs
  <2>4. Ends(full_lengths) = e /\ Nums = <<>> BY <1>1, <2>3 DEF Nums
  <2> QED BY <1>1, <2>1, <2>4 DEF n
<1>8. Held BY <1>2, <1>7, Sizes DEF Held, NumFull
<1>9. Room BY <1>1, <1>2 DEF Room, IsRoomy
<1>10. Prompted BY <1>1 DEF Prompted
<1>11. Ordered
  <2>1. Coming = Joined(<<>>, <<>>, <<>>) BY <1>1, <1>5, <1>7 DEF Coming, Joined
  <2>2. <<>> \in Seq(Nat) /\ Len(<<>>) = 0 BY EmptySeq
  <2>3. Coming = <<>> BY <2>1, <2>2, ConcatEmptySeq DEF Joined
  <2>4. 1 .. Len(Coming) = {} BY <2>2, <2>3
  <2> QED BY <1>2, <2>4 DEF Ordered
<1>12. Accounted
  <2>1. 1 .. Len(lens) = {} BY <1>2
  <2> QED BY <2>1 DEF Accounted
<1> QED BY <1>3, <1>4, <1>6, <1>8, <1>9, <1>10, <1>11, <1>12 DEF IInv

LEMMA StutterIInv ==
  ASSUME IInv, UNCHANGED vars
  PROVE  IInv'
<1>1. /\ UNCHANGED <<sender, full, partial, call, losses>>
      /\ UNCHANGED <<delivered, spoiled, repeated, waited, left_behind>>
  BY DEF vars
<1>2. UNCHANGED <<lens, rest, counter, last, faults>> BY <1>1 DEF sender
<1>3. UNCHANGED <<data_full, full_lengths, buffer_full>> BY <1>1 DEF full
<1>4. UNCHANGED <<data_partial, expected_len_partial, status_partial, cc>> BY <1>1 DEF partial
<1>5. UNCHANGED <<pc, packet_avail, packet_cc, todo>> BY <1>1 DEF call
<1>6. UNCHANGED <<unreported, skipped, dropped>> BY <1>1 DEF losses
<1>7. Nums' = Nums /\ Waiting' = Waiting /\ (Pending' <=> Pending)
  BY <1>3, <1>5 DEF Nums, Waiting, SectionsOf, Pending
<1>8. Coming' = Coming /\ Known' = Known BY <1>1, <1>3, <1>5, <1>6, <1>7 DEF Coming, Known
<1>9. Stream /\ Assembled /\ Call /\ Held /\ Room /\ Prompted /\ Ordered /\ Accounted
  BY DEF IInv
<1>10. Stream' BY <1>1, <1>2, <1>9 DEF Stream
<1>11. Assembled' BY <1>2, <1>4, <1>9 DEF Assembled
<1>12. Call' BY <1>2, <1>3, <1>5, <1>7, <1>9 DEF Call
<1>13. Held'
  <2> DEFINE e == Ends(full_lengths)
             e1 == Ends(full_lengths')
  <2>1. e1 = e /\ lens' = lens /\ Len(rest') = Len(rest) BY <1>2, <1>3
  <2>2. IsBuffer(lens, Len(rest), buffer_full, full_lengths, e, Nums) BY <1>9 DEF Held
  <2>3. Len(full_lengths') =< MAX_FULL_PACKETS BY <1>3, <1>9 DEF Held, NumFull
  <2> HIDE DEF e, e1
  <2>4. IsBuffer(lens', Len(rest'), buffer_full', full_lengths', e1, Nums')
    BY <1>3, <1>7, <2>1, <2>2
  <2> QED BY <2>3, <2>4 DEF Held, NumFull, e1
<1>14. Room' BY <1>3, <1>4, <1>5, <1>6, <1>9 DEF Room
<1>15. Prompted' BY <1>1, <1>3, <1>5, <1>9 DEF Prompted
<1>16. Ordered' BY <1>1, <1>2, <1>5, <1>8, <1>9 DEF Ordered
<1>17. Accounted'
  <2>1. \A k : GoesOn(k) <=> GoesOn(k)' BY <1>2, <1>4, <1>5 DEF GoesOn, Kept, InThis, InNext
  <2> QED BY <1>1, <1>2, <1>5, <1>8, <1>9, <2>1 DEF Accounted
<1> QED BY <1>10, <1>11, <1>12, <1>13, <1>14, <1>15, <1>16, <1>17 DEF IInv

LEMMA NextIInv == IInv /\ [Next]_vars => IInv'
<1> SUFFICES ASSUME IInv, [Next]_vars PROVE IInv' OBVIOUS
<1>1. ASSUME NEW t \in Continuation \cup Beginnings, Arrive(t) PROVE IInv' BY <1>1, PacketIs
<1>2. ASSUME NEW t \in Continuation \cup Beginnings, Miss(t) PROVE IInv' BY <1>2, MissIs
<1>3. ASSUME NEW t \in Continuation \cup Beginnings, Damage(t) PROVE IInv' BY <1>3, PacketIs
<1>4. ASSUME NEW t \in Continuation \cup Beginnings, Refuse(t) PROVE IInv' BY <1>4, PacketIs
<1>5. CASE Repeat BY <1>5, RepeatIs
<1>6. CASE NoPayload BY <1>6, NoPayloadIs
<1>7. CASE Add BY <1>7, AddIs
<1>8. CASE CallAgain BY <1>8, CallAgainIs
<1>9. CASE StopCalling BY <1>9, StopCallingIs
<1>10. CASE UNCHANGED vars BY <1>10, StutterIInv
<1> QED
  BY <1>1, <1>2, <1>3, <1>4, <1>5, <1>6, <1>7, <1>8, <1>9, <1>10 DEF Next

(* The inductive invariant: the stream and the calls of add_ts_packet_data  *)
(* that are left to do say what bytes may come next, the partial section    *)
(* and the full ones say what came before them, and the room in the buffer  *)
(* is counted from the packets a full section may have seen go by.          *)
THEOREM PacketInvariant == Spec => []IInv
<1>1. Init => IInv BY InitIInv
<1>2. IInv /\ [Next]_vars => IInv' BY NextIInv
<1> QED BY <1>1, <1>2, PTL DEF Spec


(* Nothing is ever written past the end of data_partial, buffer_full or    *)
(* full_lengths, whatever the length fields say (ts.c:341, :397, :402).    *)
THEOREM TypeCorrect == Spec => []TypeOK
<1>1. ASSUME IInv PROVE TypeOK
  <2>1. Stream /\ Assembled /\ Call /\ Held /\ Room BY <1>1 DEF IInv
  <2>2. data_partial \in Seq(Nat \X Nat)
    <3>1. data_partial \in Seq(Byte) BY <2>1, StreamIs, SentIs DEF Assembled
    <3> QED BY <3>1 DEF Byte
  <2>3. /\ full_lengths \in Seq(HeaderLen .. MAX_TS_SIZE) /\ NumFull =< MAX_FULL_PACKETS
        /\ Len(buffer_full) = Ends(full_lengths)[NumFull]
    BY <2>1 DEF Held, IsBuffer, NumFull
  <2>4. Len(buffer_full) < FULL_BUFFER_SIZE
    <3>1. ASSUME NEW i \in 1 .. Len(full_lengths)
          PROVE  Len(buffer_full) - Ends(full_lengths)[i] + 0 =< Quota(i)
      <4> DEFINE x == Len(buffer_full)
                 y == Ends(full_lengths)[i]
                 g == InProgress(status_partial, data_partial)
                 d == ToDo(todo)
                 q == Quota(i)
      <4>1. x - y + g + d =< q BY <2>1 DEF Room, IsRoomy
      <4>2. /\ Len(full_lengths) \in Nat /\ Len(full_lengths) =< MAX_FULL_PACKETS
            /\ x \in Nat /\ \A j \in 0 .. Len(full_lengths) : Ends(full_lengths)[j] \in Nat
        BY <2>1, HeldIs
      <4>3. i \in 0 .. Len(full_lengths) /\ i \in 1 .. MAX_FULL_PACKETS BY <4>2, Sizes
      <4>4. g \in Nat /\ d \in Nat
        <5>1. IsTodo(lens, Len(rest), todo) BY <2>1 DEF Call
        <5> QED BY <2>1, <5>1, StreamIs, ProgressIs, ToDoIs
      <4>5. x \in Nat /\ y \in Nat /\ q \in Int BY <4>2, <4>3, QuotaIs
      <4> HIDE DEF x, y, g, d, q
      <4>6. x - y + 0 =< q BY <4>1, <4>4, <4>5
      <4> QED BY <4>6 DEF x, y, q
    <3>2. 0 \in Nat /\ 0 =< MAX_TS_SIZE BY Sizes
    <3>3. Len(buffer_full) + 0 < FULL_BUFFER_SIZE BY <2>1, <3>1, <3>2, FitsIs
    <3>4. Len(buffer_full) \in Nat BY <2>1, HeldIs
    <3> QED BY <3>3, <3>4
  <2>5. Len(todo) =< 2
    <3>1. todo = <<>> \/ todo = <<todo[1]>> \/ todo = <<todo[1], todo[2]>>
      BY <2>1 DEF Call, IsTodo
    <3>2. Len(<<>>) = 0 /\ Len(<<todo[1]>>) = 1 /\ Len(<<todo[1], todo[2]>>) = 2 OBVIOUS
    <3> DEFINE l == Len(todo)
    <3>3. l \in {0, 1, 2} BY <3>1, <3>2
    <3> HIDE DEF l
    <3>4. l =< 2 BY <3>3
    <3> QED BY <3>4 DEF l
  <2>6. faults =< MaxFaults BY <2>1, Sizes DEF Stream
  <2> QED BY <2>1, <2>2, <2>3, <2>4, <2>5, <2>6 DEF TypeOK, Assembled, Call
<1> QED BY <1>1, PacketInvariant, PTL

(* What the caller gets, and what waits for it, is always one whole section, *)
(* whatever is lost, repeated or damaged of the packets (ts.c:77-93).       *)
THEOREM SectionsWhole == Spec => []WholeSections
<1>1. ASSUME IInv PROVE WholeSections
  <2> DEFINE n == Len(rest)
             e == Ends(full_lengths)
  <2>1. lens \in Seq(SectionLens) /\ n \in Nat BY <1>1, StreamIs DEF IInv
  <2>2. ASSUME NEW i \in 1 .. NumFull PROVE IsSection(FullSection(i))
    <3>1. IsBuffer(lens, n, buffer_full, full_lengths, e, Nums) BY <1>1 DEF IInv, Held
    <3> HIDE DEF e, n
    <3> DEFINE s == SubSeq(buffer_full, e[i - 1] + 1, e[i])
    <3>2. IsWhole(lens, s) /\ s \in Seq(SentBytes(lens, n))
      BY <2>1, <3>1, BufferIs DEF NumFull
    <3>3. FullSection(i) = s BY DEF FullSection, e
    <3> HIDE DEF s
    <3>4. IsSection(s) BY <2>1, <3>2, SectionWhole
    <3> QED BY <3>3, <3>4
  <2>3. ASSUME pc = "got" PROVE IsSection(data_full)
    <3>1. IsWhole(lens, data_full) BY <1>1, <2>3 DEF IInv, Call, Pending
    <3>2. data_full[1][1] # 0
      <4>1. Len(lens) \in Nat BY <2>1, LensIs
      <4> QED BY <3>1, <4>1 DEF IsWhole
    <3> QED BY <3>1, <3>2 DEF IsWhole, IsSection
  <2> QED BY <2>2, <2>3 DEF WholeSections
<1> QED BY <1>1, PacketInvariant, PTL

\* Any two of the sections are in order, with or without the one in hand.
LEMMA OrderedParts ==
  ASSUME NEW a \in Seq(Nat), NEW p \in Seq(Nat), NEW m \in Nat, NEW k \in [1 .. m -> Nat],
         \A i, j \in 1 .. Len(Joined(a, p, k)) :
            i < j => Joined(a, p, k)[i] < Joined(a, p, k)[j]
  PROVE  LET s == Joined(a, <<>>, k)
         IN \A i \in 2 .. Len(s) : s[i - 1] < s[i]
<1> DEFINE t == Joined(a, p, k)
           z == <<>>
           s == Joined(a, z, k)
           A == Len(a)
           P == Len(p)
           at(i) == IF i =< A THEN i ELSE i + P
<1>1. z \in Seq(Nat) /\ Len(z) = 0 BY EmptySeq
<1>2. HasParts(t, a, p, k, m) /\ HasParts(s, a, z, k, m) BY <1>1, JoinedIs
<1> HIDE DEF s, t
<1>3. /\ A \in Nat /\ P \in Nat /\ Len(t) = A + P + m /\ Len(s) = A + 0 + m
      /\ \A i \in 1 .. A : t[i] = a[i] /\ s[i] = a[i]
      /\ \A i \in 1 .. m : t[A + P + i] = k[i] /\ s[A + 0 + i] = k[i]
  BY <1>1, <1>2 DEF HasParts
<1>4. \A i, j \in 1 .. Len(t) : i < j => t[i] < t[j] BY DEF t
<1> HIDE DEF A, P
<1>5. ASSUME NEW i \in 1 .. A + m PROVE at(i) \in 1 .. A + P + m /\ s[i] = t[at(i)]
  <2>1. CASE i =< A BY <1>3, <2>1
  <2>2. CASE ~ (i =< A)
    <3>1. /\ i - A \in 1 .. m /\ A + 0 + (i - A) = i /\ A + P + (i - A) = i + P
          /\ i + P \in 1 .. A + P + m
      BY <1>3, <2>2
    <3>2. t[A + P + (i - A)] = k[i - A] /\ s[A + 0 + (i - A)] = k[i - A] BY <1>3, <3>1
    <3>3. t[i + P] = k[i - A] /\ s[i] = k[i - A] BY <3>1, <3>2
    <3> QED BY <2>2, <3>1, <3>3
  <2> QED BY <2>1, <2>2
<1>6. ASSUME NEW i \in 2 .. A + m PROVE s[i - 1] < s[i]
  <2>1. i \in 1 .. A + m /\ i - 1 \in 1 .. A + m /\ at(i - 1) < at(i) BY <1>3
  <2>2. at(i - 1) \in 1 .. Len(t) /\ at(i) \in 1 .. Len(t) BY <1>3, <1>5, <2>1
  <2>3. t[at(i - 1)] < t[at(i)] BY <1>4, <2>1, <2>2
  <2> QED BY <1>5, <2>1, <2>3
<1>7. \A i \in 2 .. Len(s) : s[i - 1] < s[i]
  <2>1. Len(s) = A + m BY <1>3
  <2> QED BY <1>6, <2>1
<1> QED BY <1>7 DEF s, z

(* The caller gets the sections in the order they were sent, none of them   *)
(* twice, if no packet comes twice (ts.c:281).                              *)
THEOREM InOrderAlways == Spec => []InOrder
<1>1. ASSUME IInv PROVE InOrder
  <2> DEFINE m == NumFull
             x == data_full[1][1]
             p == InHand(Pending, x)
             k == [i \in 1 .. NumFull |-> FullSection(i)[1][1]]
             s == delivered \o k
  <2>1. Stream /\ Call /\ Held /\ Ordered BY <1>1 DEF IInv
  <2>2. m \in Nat /\ Nums \in [1 .. m -> Nat] BY <2>1, HeldIs DEF NumFull
  <2>3. k = Nums BY DEF Nums, NumsOf, FullSection, NumFull
  <2>4. x \in Nat \/ ~ Pending
    <3>1. Pending => x \in 1 .. Len(lens) BY <2>1 DEF Call, IsWhole
    <3> QED BY <3>1
  <2>5. delivered \in Seq(Nat) BY <2>1 DEF Ordered
  <2>6. p \in Seq(Nat)
    <3>1. <<>> \in Seq(Nat) BY EmptySeq
    <3>2. CASE Pending BY <2>4, <3>2, InHandIs DEF InHand
    <3>3. CASE ~ Pending BY <3>1, <3>3 DEF InHand
    <3> QED BY <3>2, <3>3
  <2>7. Coming = Joined(delivered, p, Nums) BY ComingIs
  <2>8. s = Joined(delivered, <<>>, Nums)
    <3>1. delivered \o <<>> = delivered BY <2>5, ConcatEmptySeq
    <3> QED BY <2>3, <3>1 DEF Joined
  <2> HIDE DEF p, m, k, x
  <2>9. ASSUME ~ repeated PROVE \A i \in 2 .. Len(s) : s[i - 1] < s[i]
    <3>1. \A i, j \in 1 .. Len(Joined(delivered, p, Nums)) :
             i < j => Joined(delivered, p, Nums)[i] < Joined(delivered, p, Nums)[j]
      BY <2>1, <2>7, <2>9 DEF Ordered
    <3> DEFINE u == Nums
    <3>2. u \in [1 .. m -> Nat] BY <2>2
    <3>3. \A i, j \in 1 .. Len(Joined(delivered, p, u)) :
             i < j => Joined(delivered, p, u)[i] < Joined(delivered, p, u)[j]
      BY <3>1
    <3>4. s = Joined(delivered, <<>>, u) BY <2>8
    <3> HIDE DEF u, s
    <3> QED BY <2>2, <2>5, <2>6, <3>2, <3>3, <3>4, OrderedParts
  <2> QED BY <2>9 DEF InOrder, k
<1> QED BY <1>1, PacketInvariant, PTL

(* No section is lost but for the reasons the code knows (ts.c:134, :145,  *)
(* :152, :179, :397): losses, repetitions and damages of other packets cost *)
(* a section all the packets of which came as they were sent nothing.       *)
THEOREM NoneLost == Spec => []AllAccountedFor
<1>1. ASSUME IInv PROVE AllAccountedFor
  <2>1. Stream /\ Call /\ Accounted BY <1>1 DEF IInv
  <2>2. ASSUME pc = "idle", NEW k \in 1 .. Len(lens) \ spoiled
        PROVE  \/ k = Len(lens) /\ rest # <<>>
               \/ k \in Range(delivered) \cup Waiting \cup unreported \cup skipped
    <3>1. k \in Known \/ InNext(k) BY <2>1, <2>2, IdleIs
    <3>2. ~ Pending BY <2>2 DEF Pending
    <3> QED BY <3>1, <3>2 DEF Known, InNext
  <2> QED BY <2>2 DEF AllAccountedFor
<1> QED BY <1>1, PacketInvariant, PTL

(* A full section waits for one packet and no longer (ts.c:417), with a     *)
(* caller that calls until there are none left.                             *)
THEOREM PromptAlways == Spec => []Prompt
<1>1. ASSUME IInv PROVE Prompt
  <2>1. ASSUME pc = "idle", ~ left_behind PROVE Waiting \cap waited = {}
    <3>1. full_lengths = <<>> \/ waited = {} BY <1>1, <2>1 DEF IInv, Prompted
    <3>2. full_lengths = <<>> => Waiting = {}
      <4>1. full_lengths = <<>> => buffer_full = <<>>
        <5>1. full_lengths = <<>> => Len(full_lengths) = 0 BY EmptySeq
        <5>2. /\ Ends(full_lengths)[0] = 0 /\ buffer_full \in Seq(SentBytes(lens, Len(rest)))
              /\ Ends(full_lengths)[Len(full_lengths)] = Len(buffer_full)
          BY <1>1 DEF IInv, Held, IsBuffer
        <5>3. full_lengths = <<>> => Len(buffer_full) = 0 BY <5>1, <5>2
        <5> QED BY <5>2, <5>3, EmptySeq
      <4>2. DOMAIN <<>> = {} OBVIOUS
      <4> QED BY <4>1, <4>2 DEF Waiting, SectionsOf
    <3> QED BY <3>1, <3>2
  <2> QED BY <2>1 DEF Prompt
<1> QED BY <1>1, PacketInvariant, PTL

(* What ts_move_part_to_full calls an unrecoverable error (ts.c:405) does   *)
(* not happen: the whole buffer is never dropped for want of room.          *)
THEOREM NeverDroppedAlways == Spec => []NeverDropped
<1>1. IInv => NeverDropped BY DEF IInv, Room, NeverDropped
<1> QED BY <1>1, PacketInvariant, PTL
=============================================================================
