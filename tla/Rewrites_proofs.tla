--------------------------- MODULE Rewrites_proofs --------------------------
(***************************************************************************)
(* The invariants of the components of RewriteState: the rewritten PMT,    *)
(* SDT and EIT, and the datagrams they leave in, for every value of their  *)
(* constants.                                                              *)
(***************************************************************************)
EXTENDS RewriteState, FiniteSetTheorems, SequenceTheorems, WellFoundedInduction, TLAPS

-----------------------------------------------------------------------------
(* PmtRewrite                                                               *)

PmtPackets == [version : PmtVersions, part : Nat]
PmtTypes ==
    /\ pmt_air \in [PmtChannels -> PmtVersions] /\ pmt_at \in [PmtChannels -> Nat]
    /\ original_pmt \in [PmtChannels -> Seq(PmtPackets)]
    /\ original_pmt_ready \in [PmtChannels -> BOOLEAN]
    /\ pmt_part_num \in [PmtChannels -> Nat] /\ pmt_part_count \in [PmtChannels -> Nat]
    /\ generated_pmt \in [PmtChannels -> [of : PmtChannels \cup {0}, parts : Seq(PmtPackets)]]
    /\ generated_pmt_version \in [PmtChannels -> PmtVersions]
    /\ pmt_ts_packet \in [of : PmtChannels \cup {0}, parts : Seq(PmtPackets)]
    /\ pmt_sent \in [PmtChannels -> [of : PmtChannels \cup {0}, parts : Seq(PmtPackets)]]
    /\ pmt_fresh \in [PmtChannels -> BOOLEAN] /\ pmt_lost \subseteq PmtChannels

\* What is copied is counted, and has a first packet while more are expected.
PmtCopied(c) ==
    /\ pmt_at[c] < PartsOf(pmt_air[c])
    /\ Len(original_pmt[c]) <= pmt_part_count[c] + 1 /\ pmt_part_count[c] <= pmt_part_num[c]
    /\ ~original_pmt_ready[c] /\ pmt_part_num[c] > 0 =>
           pmt_part_count[c] < pmt_part_num[c] /\ Len(original_pmt[c]) > 0

\* Where nothing was lost the packets copied are those of the PMT that is received, so far.
PmtSoFar(c) ==
    c \notin pmt_lost /\ ~original_pmt_ready[c] /\ pmt_at[c] > 0 =>
        /\ pmt_part_num[c] = PartsOf(pmt_air[c]) - 1 /\ pmt_part_count[c] = pmt_at[c] - 1
        /\ original_pmt[c] = [k \in 1..pmt_at[c] |-> Pmt!Part(pmt_air[c], k - 1)]

PmtOwn(c) ==
    /\ original_pmt_ready[c] /\ c \notin pmt_lost =>
           generated_pmt[c] = [of |-> c, parts |-> Pmt!Whole(generated_pmt_version[c])]
    /\ ~pmt_fresh[c] => pmt_sent[c] \in {Pmt!NoPmt, generated_pmt[c]}

PmtInv == PmtTypes /\ \A c \in PmtChannels : PmtCopied(c) /\ PmtSoFar(c) /\ PmtOwn(c)

LEMMA PmtNumbers ==
  /\ PmtVersions \subseteq Nat /\ 0 \in PmtVersions
  /\ \A v \in PmtVersions : PartsOf(v) \in Nat /\ PartsOf(v) > 0
  /\ Pmt!NoPmt = [of |-> 0, parts |-> <<>>]
  /\ \A v, k : Pmt!Part(v, k) = [version |-> v, part |-> k]
  /\ \A v : Pmt!Whole(v) = [k \in 1..PartsOf(v) |-> Pmt!Part(v, k - 1)]
BY PmtCut DEF Pmt!PmtAssumption, Pmt!NoPmt, Pmt!Part, Pmt!Whole

LEMMA PmtInitial == Pmt!Init => PmtInv
<1> SUFFICES ASSUME Pmt!Init PROVE PmtInv OBVIOUS
<1>1. /\ pmt_air = [c \in PmtChannels |-> 0] /\ pmt_at = [c \in PmtChannels |-> 0]
      /\ original_pmt = [c \in PmtChannels |-> <<>>]
      /\ original_pmt_ready = [c \in PmtChannels |-> FALSE]
      /\ pmt_part_num = [c \in PmtChannels |-> 0] /\ pmt_part_count = [c \in PmtChannels |-> 0]
      /\ generated_pmt = [c \in PmtChannels |-> Pmt!NoPmt]
      /\ generated_pmt_version = [c \in PmtChannels |-> 0]
      /\ pmt_ts_packet = Pmt!NoPmt /\ pmt_sent = [c \in PmtChannels |-> Pmt!NoPmt]
      /\ pmt_fresh = [c \in PmtChannels |-> FALSE] /\ pmt_lost = {}
  BY DEF Pmt!Init
<1>2. <<>> \in Seq(PmtPackets) /\ Len(<<>>) = 0 BY EmptySeq
<1>3. Pmt!NoPmt \in [of : PmtChannels \cup {0}, parts : Seq(PmtPackets)] BY <1>2, PmtNumbers
<1>4. PmtTypes BY <1>1, <1>2, <1>3, PmtNumbers DEF PmtTypes
<1>5. \A c \in PmtChannels : PmtCopied(c) /\ PmtSoFar(c) /\ PmtOwn(c)
  BY <1>1, <1>2, PmtNumbers DEF PmtCopied, PmtSoFar, PmtOwn
<1> QED BY <1>4, <1>5 DEF PmtInv

\* The next packet of n, and a step of a number that wraps.
LEMMA PmtWraps ==
  ASSUME NEW n \in Nat, n > 0, NEW k \in Nat, k < n
  PROVE  /\ (k + 1) % n = IF k + 1 = n THEN 0 ELSE k + 1
         /\ (k + 1) % n \in Nat /\ (k + 1) % n < n
<1>1. CASE k + 1 = n
  <2>1. n % n = 0 BY SMT
  <2> QED BY <1>1, <2>1
<1>2. CASE k + 1 < n
  <2>1. (k + 1) % n = k + 1 BY <1>2, SMT
  <2> QED BY <1>2, <2>1
<1> QED BY <1>1, <1>2

\* What a step does to another channel is nothing.
LEMMA PmtOthers ==
  ASSUME NEW d \in PmtChannels, PmtCopied(d), PmtSoFar(d), PmtOwn(d),
         pmt_air'[d] = pmt_air[d], pmt_at'[d] = pmt_at[d], original_pmt'[d] = original_pmt[d],
         original_pmt_ready'[d] = original_pmt_ready[d], pmt_part_num'[d] = pmt_part_num[d],
         pmt_part_count'[d] = pmt_part_count[d], generated_pmt'[d] = generated_pmt[d],
         generated_pmt_version'[d] = generated_pmt_version[d], pmt_sent'[d] = pmt_sent[d],
         pmt_fresh'[d] = pmt_fresh[d], d \in pmt_lost' <=> d \in pmt_lost
  PROVE  PmtCopied(d)' /\ PmtSoFar(d)' /\ PmtOwn(d)'
BY DEF PmtCopied, PmtSoFar, PmtOwn, Pmt!NoPmt, Pmt!Part, Pmt!Whole

PmtTables == [of : PmtChannels \cup {0}, parts : Seq(PmtPackets)]

\* The invariant in the form the steps need.
LEMMA PmtFacts ==
  ASSUME PmtInv, NEW c \in PmtChannels
  PROVE  /\ PmtTypes /\ PmtCopied(c) /\ PmtSoFar(c) /\ PmtOwn(c)
         /\ pmt_air[c] \in PmtVersions /\ pmt_air[c] \in Nat
         /\ PartsOf(pmt_air[c]) \in Nat /\ PartsOf(pmt_air[c]) > 0
         /\ pmt_at[c] \in Nat /\ pmt_at[c] < PartsOf(pmt_air[c])
         /\ original_pmt[c] \in Seq(PmtPackets) /\ Len(original_pmt[c]) \in Nat
         /\ original_pmt_ready[c] \in BOOLEAN
         /\ pmt_part_num[c] \in Nat /\ pmt_part_count[c] \in Nat
         /\ Pmt!Part(pmt_air[c], pmt_at[c]) \in PmtPackets
<1>1. PmtTypes /\ PmtCopied(c) /\ PmtSoFar(c) /\ PmtOwn(c) BY DEF PmtInv
<1>2. /\ pmt_air[c] \in PmtVersions /\ pmt_at[c] \in Nat
      /\ original_pmt[c] \in Seq(PmtPackets) /\ original_pmt_ready[c] \in BOOLEAN
      /\ pmt_part_num[c] \in Nat /\ pmt_part_count[c] \in Nat
  BY <1>1 DEF PmtTypes
<1>3. Len(original_pmt[c]) \in Nat BY <1>2, LenProperties
<1>4. pmt_air[c] \in Nat /\ PartsOf(pmt_air[c]) \in Nat /\ PartsOf(pmt_air[c]) > 0 BY <1>2, PmtNumbers
<1>5. Pmt!Part(pmt_air[c], pmt_at[c]) \in PmtPackets BY <1>2, PmtNumbers DEF PmtPackets
<1> QED BY <1>1, <1>2, <1>3, <1>4, <1>5 DEF PmtCopied

\* What the step of a channel does to the tables, by the way it sends.
PmtSending(c) ==
    /\ generated_pmt' \in [PmtChannels -> PmtTables]
    /\ generated_pmt_version' \in [PmtChannels -> PmtVersions]
    /\ pmt_ts_packet' \in PmtTables /\ pmt_sent' \in [PmtChannels -> PmtTables]
    /\ pmt_fresh' \in [PmtChannels -> BOOLEAN]
    /\ ~pmt_fresh'[c] => pmt_sent'[c] \in {Pmt!NoPmt, generated_pmt'[c]}
    /\ \A d \in PmtChannels : d # c =>
         /\ generated_pmt'[d] = generated_pmt[d] /\ generated_pmt_version'[d] = generated_pmt_version[d]
         /\ pmt_sent'[d] = pmt_sent[d] /\ pmt_fresh'[d] = pmt_fresh[d]

LEMMA PmtSends ==
  ASSUME PmtInv, NEW c \in PmtChannels, Pmt!Sends(c)
  PROVE  /\ PmtSending(c)
         /\ generated_pmt' = generated_pmt /\ generated_pmt_version' = generated_pmt_version
<1>1. /\ pmt_ts_packet' = generated_pmt[c]
      /\ pmt_sent' = [pmt_sent EXCEPT ![c] = generated_pmt[c]]
      /\ pmt_fresh' = [pmt_fresh EXCEPT ![c] = FALSE]
      /\ UNCHANGED <<generated_pmt, generated_pmt_version>>
  BY DEF Pmt!Sends
<1>2. PmtTypes BY DEF PmtInv
<1>3. generated_pmt[c] \in PmtTables BY <1>2 DEF PmtTypes, PmtTables
<1> HIDE DEF PmtTables
<1> QED BY <1>1, <1>2, <1>3 DEF PmtSending, PmtTypes, PmtTables

LEMMA PmtSendsNothing ==
  ASSUME PmtInv, NEW c \in PmtChannels, Pmt!SendsNothing
  PROVE  /\ PmtSending(c)
         /\ generated_pmt' = generated_pmt /\ generated_pmt_version' = generated_pmt_version
<1>1. UNCHANGED <<generated_pmt, generated_pmt_version, pmt_ts_packet, pmt_sent, pmt_fresh>>
  BY DEF Pmt!SendsNothing
<1>2. PmtTypes /\ PmtOwn(c) BY PmtFacts
<1> QED BY <1>1, <1>2 DEF PmtSending, PmtTypes, PmtTables, PmtOwn

LEMMA PmtRewrites ==
  ASSUME PmtInv, NEW c \in PmtChannels, NEW parts \in Seq(PmtPackets),
         parts[1].version \in PmtVersions, Pmt!Rewrites(c, parts)
  PROVE  /\ PmtSending(c)
         /\ generated_pmt'[c] = [of |-> c, parts |-> parts]
         /\ generated_pmt_version'[c] = parts[1].version
<1>1. /\ generated_pmt' = [generated_pmt EXCEPT ![c] = [of |-> c, parts |-> parts]]
      /\ generated_pmt_version' = [generated_pmt_version EXCEPT ![c] = parts[1].version]
      /\ pmt_sent' = [pmt_sent EXCEPT ![c] = pmt_ts_packet]
      /\ pmt_fresh' = [pmt_fresh EXCEPT ![c] = TRUE]
      /\ UNCHANGED pmt_ts_packet
  BY DEF Pmt!Rewrites
<1>2. PmtTypes BY DEF PmtInv
<1>3. [of |-> c, parts |-> parts] \in PmtTables BY DEF PmtTables
<1>4. /\ generated_pmt \in [PmtChannels -> PmtTables] /\ pmt_ts_packet \in PmtTables
      /\ pmt_sent \in [PmtChannels -> PmtTables] /\ pmt_fresh \in [PmtChannels -> BOOLEAN]
      /\ generated_pmt_version \in [PmtChannels -> PmtVersions]
  BY <1>2 DEF PmtTypes, PmtTables
<1> QED BY <1>1, <1>3, <1>4 DEF PmtSending

\* A step of a channel that moves to its next packet keeps the invariant if it does for the channel.
LEMMA PmtMoves ==
  ASSUME PmtInv, NEW c \in PmtChannels, PmtSending(c), UNCHANGED <<pmt_air, pmt_lost>>,
         Pmt!Advances(c),
         original_pmt' \in [PmtChannels -> Seq(PmtPackets)],
         original_pmt_ready' \in [PmtChannels -> BOOLEAN],
         pmt_part_num' \in [PmtChannels -> Nat], pmt_part_count' \in [PmtChannels -> Nat],
         \A d \in PmtChannels : d # c =>
             /\ original_pmt'[d] = original_pmt[d] /\ original_pmt_ready'[d] = original_pmt_ready[d]
             /\ pmt_part_num'[d] = pmt_part_num[d] /\ pmt_part_count'[d] = pmt_part_count[d],
         PmtCopied(c)', PmtSoFar(c)', PmtOwn(c)'
  PROVE  PmtInv'
<1>1. pmt_at' = [pmt_at EXCEPT ![c] = (pmt_at[c] + 1) % PartsOf(pmt_air[c])] BY DEF Pmt!Advances
<1>2. (pmt_at[c] + 1) % PartsOf(pmt_air[c]) \in Nat BY PmtFacts, PmtWraps
<1>3. PmtTypes BY DEF PmtInv
<1>4. /\ pmt_at' \in [PmtChannels -> Nat]
      /\ \A d \in PmtChannels : d # c => pmt_at'[d] = pmt_at[d]
  BY <1>1, <1>2, <1>3 DEF PmtTypes
<1>5. PmtTypes' BY <1>3, <1>4 DEF PmtTypes, PmtSending, PmtTables
<1>6. ASSUME NEW d \in PmtChannels, d # c PROVE PmtCopied(d)' /\ PmtSoFar(d)' /\ PmtOwn(d)'
  <2>1. PmtCopied(d) /\ PmtSoFar(d) /\ PmtOwn(d) BY DEF PmtInv
  <2>2. /\ generated_pmt'[d] = generated_pmt[d] /\ generated_pmt_version'[d] = generated_pmt_version[d]
        /\ pmt_sent'[d] = pmt_sent[d] /\ pmt_fresh'[d] = pmt_fresh[d]
    BY <1>6 DEF PmtSending
  <2> QED BY <1>4, <1>6, <2>1, <2>2, PmtOthers
<1> QED BY <1>5, <1>6 DEF PmtInv

LEMMA PmtFirst == ASSUME PmtInv, NEW c \in PmtChannels, Pmt!First(c) PROVE PmtInv'
<1> DEFINE v == pmt_air[c]
           firstOne == <<Pmt!Part(v, 0)>>
           known == original_pmt_ready[c] /\ v = generated_pmt_version[c]
<1>1. /\ pmt_at[c] = 0 /\ Pmt!Advances(c)
      /\ IF known
         THEN UNCHANGED <<original_pmt, original_pmt_ready, pmt_part_num, pmt_part_count>>
         ELSE /\ pmt_part_num' = [pmt_part_num EXCEPT ![c] = PartsOf(v) - 1]
              /\ pmt_part_count' = [pmt_part_count EXCEPT ![c] = 0]
              /\ original_pmt' = [original_pmt EXCEPT ![c] = firstOne]
              /\ original_pmt_ready' = [original_pmt_ready EXCEPT ![c] = (PartsOf(v) = 1)]
      /\ IF known THEN Pmt!Sends(c)
         ELSE IF PartsOf(v) = 1 THEN Pmt!Rewrites(c, firstOne) ELSE Pmt!SendsNothing
      /\ UNCHANGED <<pmt_air, pmt_lost>>
  BY DEF Pmt!First
<1>2. /\ PmtTypes /\ PmtCopied(c) /\ PmtSoFar(c) /\ PmtOwn(c)
      /\ v \in PmtVersions /\ PartsOf(v) \in Nat /\ PartsOf(v) > 0
      /\ Pmt!Part(v, 0) \in PmtPackets
  BY <1>1, PmtFacts
<1>3. pmt_at'[c] = (IF PartsOf(v) = 1 THEN 0 ELSE 1) /\ pmt_at'[c] < PartsOf(v)
  <2>1. pmt_at'[c] = (0 + 1) % PartsOf(v) BY <1>1, <1>2 DEF Pmt!Advances, PmtTypes
  <2> QED BY <2>1, <1>2, PmtWraps
<1>4. firstOne \in Seq(PmtPackets) /\ Len(firstOne) = 1 /\ firstOne[1] = Pmt!Part(v, 0) /\ firstOne[1].version = v
  <2>1. Pmt!Part(v, 0).version = v BY PmtNumbers
  <2> QED BY <1>2, <2>1
<1> HIDE DEF firstOne, v
<1>5. CASE known
  <2>1. Pmt!Sends(c) /\ UNCHANGED <<original_pmt, original_pmt_ready, pmt_part_num, pmt_part_count>>
    BY <1>1, <1>5
  <2>2. /\ PmtSending(c)
        /\ generated_pmt' = generated_pmt /\ generated_pmt_version' = generated_pmt_version
    BY <2>1, PmtSends
  <2>3. PmtCopied(c)' BY <1>1, <1>2, <1>3, <2>1 DEF PmtCopied, v
  <2>4. PmtSoFar(c)' BY <1>5, <2>1 DEF PmtSoFar
  <2>5. PmtOwn(c)' BY <1>1, <1>2, <2>1, <2>2 DEF PmtOwn, PmtSending, Pmt!NoPmt, Pmt!Whole, Pmt!Part
  <2>6. /\ original_pmt' \in [PmtChannels -> Seq(PmtPackets)]
        /\ original_pmt_ready' \in [PmtChannels -> BOOLEAN]
        /\ pmt_part_num' \in [PmtChannels -> Nat] /\ pmt_part_count' \in [PmtChannels -> Nat]
    BY <1>2, <2>1 DEF PmtTypes
  <2> QED BY <1>1, <2>1, <2>2, <2>3, <2>4, <2>5, <2>6, PmtMoves
<1>6. CASE ~known
  <2>1. /\ pmt_part_num' = [pmt_part_num EXCEPT ![c] = PartsOf(v) - 1]
        /\ pmt_part_count' = [pmt_part_count EXCEPT ![c] = 0]
        /\ original_pmt' = [original_pmt EXCEPT ![c] = firstOne]
        /\ original_pmt_ready' = [original_pmt_ready EXCEPT ![c] = (PartsOf(v) = 1)]
    BY <1>1, <1>6
  <2>2. PartsOf(v) - 1 \in Nat BY <1>2
  <2>3. /\ original_pmt' \in [PmtChannels -> Seq(PmtPackets)]
        /\ original_pmt_ready' \in [PmtChannels -> BOOLEAN]
        /\ pmt_part_num' \in [PmtChannels -> Nat] /\ pmt_part_count' \in [PmtChannels -> Nat]
    BY <1>2, <1>4, <2>1, <2>2 DEF PmtTypes
  <2>4. /\ pmt_part_num'[c] = PartsOf(v) - 1 /\ pmt_part_count'[c] = 0
        /\ original_pmt'[c] = firstOne /\ original_pmt_ready'[c] = (PartsOf(v) = 1)
        /\ \A d \in PmtChannels : d # c =>
             /\ original_pmt'[d] = original_pmt[d] /\ original_pmt_ready'[d] = original_pmt_ready[d]
             /\ pmt_part_num'[d] = pmt_part_num[d] /\ pmt_part_count'[d] = pmt_part_count[d]
    BY <1>2, <2>1 DEF PmtTypes
  <2>5. PmtCopied(c)'
    <3>1. pmt_air'[c] = v /\ pmt_at'[c] < PartsOf(v) BY <1>1, <1>3 DEF v
    <3>2. 0 <= PartsOf(v) - 1 /\ (PartsOf(v) # 1 => 0 < PartsOf(v) - 1) BY <1>2
    <3> QED BY <3>1, <3>2, <2>4, <1>4 DEF PmtCopied
  <2>6. CASE PartsOf(v) = 1
    <3>1. Pmt!Rewrites(c, firstOne) BY <1>1, <1>6, <2>6
    <3>2. /\ PmtSending(c) /\ generated_pmt'[c] = [of |-> c, parts |-> firstOne]
          /\ generated_pmt_version'[c] = v
      BY <1>2, <1>4, <3>1, PmtRewrites
    <3>3. firstOne = Pmt!Whole(v)
      <4>1. Pmt!Whole(v) = [k \in 1..1 |-> Pmt!Part(v, k - 1)] BY <2>6, PmtNumbers
      <4>2. \A k \in 1..1 : Pmt!Part(v, k - 1) = Pmt!Part(v, 0)
        <5>1. \A k \in 1..1 : k - 1 = 0 OBVIOUS
        <5> QED BY <5>1
      <4> QED BY <4>1, <4>2 DEF firstOne
    <3>4. PmtSoFar(c)' BY <2>4, <2>6 DEF PmtSoFar
    <3>5. PmtOwn(c)' BY <3>2, <3>3 DEF PmtOwn, PmtSending, Pmt!NoPmt, Pmt!Whole, Pmt!Part
    <3> QED BY <1>1, <2>3, <2>4, <2>5, <3>2, <3>4, <3>5, PmtMoves
  <2>7. CASE PartsOf(v) # 1
    <3>1. Pmt!SendsNothing BY <1>1, <1>6, <2>7
    <3>2. PmtSending(c) BY <3>1, PmtSendsNothing
    <3>3. PmtSoFar(c)'
      <4>1. pmt_at'[c] = 1 /\ pmt_air'[c] = v BY <1>1, <1>3, <2>7 DEF v
      <4>2. firstOne = [k \in 1..1 |-> Pmt!Part(v, k - 1)]
        <5>1. \A k \in 1..1 : k - 1 = 0 OBVIOUS
        <5>2. \A k \in 1..1 : Pmt!Part(v, k - 1) = Pmt!Part(v, 0) BY <5>1
        <5> QED BY <5>2 DEF firstOne
      <4>3. firstOne = [k \in 1..1 |-> [version |-> v, part |-> k - 1]] BY <4>2, PmtNumbers
      <4> QED BY <2>4, <4>1, <4>3 DEF PmtSoFar, Pmt!Part
    <3>4. PmtOwn(c)' BY <2>4, <2>7, <3>2 DEF PmtOwn, PmtSending, Pmt!NoPmt
    <3> QED BY <1>1, <2>3, <2>4, <2>5, <3>2, <3>3, <3>4, PmtMoves
  <2> QED BY <2>6, <2>7
<1> QED BY <1>5, <1>6

\* A packet more.
LEMMA PmtAppends ==
  ASSUME NEW n \in Nat, NEW v, NEW s \in Seq(PmtPackets), Pmt!Part(v, n) \in PmtPackets,
         s = [k \in 1..n |-> Pmt!Part(v, k - 1)]
  PROVE  Append(s, Pmt!Part(v, n)) = [k \in 1..n + 1 |-> Pmt!Part(v, k - 1)]
<1> DEFINE e == Pmt!Part(v, n)
           t == Append(s, e)
<1>1. Len(s) = n
  <2>1. DOMAIN s = 1..n OBVIOUS
  <2>2. DOMAIN s = 1..Len(s) /\ Len(s) \in Nat BY LenProperties
  <2> QED BY <2>1, <2>2
<1>2. /\ t \in Seq(PmtPackets) /\ Len(t) = n + 1
      /\ \A k \in 1..n : t[k] = s[k]
      /\ t[n + 1] = e
  BY <1>1, AppendProperties
<1> HIDE DEF t
<1>3. t = [k \in 1..n + 1 |-> t[k]]
  <2>1. t \in [1..Len(t) -> PmtPackets] BY <1>2, LenProperties
  <2> QED BY <2>1, <1>2
<1>4. ASSUME NEW k \in 1..n + 1 PROVE t[k] = Pmt!Part(v, k - 1)
  <2>1. CASE k \in 1..n
    <3>1. s[k] = Pmt!Part(v, k - 1) BY <2>1
    <3> QED BY <2>1, <3>1, <1>2
  <2>2. CASE k = n + 1
    <3>1. k - 1 = n BY <2>2
    <3> QED BY <2>2, <3>1, <1>2
  <2> QED BY <2>1, <2>2
<1>5. t = [k \in 1..n + 1 |-> Pmt!Part(v, k - 1)] BY <1>3, <1>4
<1> QED BY <1>5 DEF t

LEMMA PmtContinues == ASSUME PmtInv, NEW c \in PmtChannels, Pmt!Continues(c) PROVE PmtInv'
<1> DEFINE v == pmt_air[c]
           k == pmt_at[c]
           parts == Append(original_pmt[c], Pmt!Part(v, k))
           wanted == ~original_pmt_ready[c] /\ pmt_part_num[c] > 0
           last == pmt_part_count[c] + 1 = pmt_part_num[c]
<1>1. /\ k > 0 /\ Pmt!Advances(c)
      /\ IF wanted
         THEN /\ pmt_part_count' = [pmt_part_count EXCEPT ![c] = pmt_part_count[c] + 1]
              /\ original_pmt' = [original_pmt EXCEPT ![c] = parts]
              /\ original_pmt_ready' = [original_pmt_ready EXCEPT ![c] = last]
         ELSE UNCHANGED <<original_pmt, original_pmt_ready, pmt_part_count>>
      /\ IF ~wanted THEN Pmt!Sends(c)
         ELSE IF last THEN Pmt!Rewrites(c, parts) ELSE Pmt!SendsNothing
      /\ UNCHANGED <<pmt_air, pmt_part_num, pmt_lost>>
  BY DEF Pmt!Continues
<1>2. /\ PmtTypes /\ PmtCopied(c) /\ PmtSoFar(c) /\ PmtOwn(c)
      /\ v \in PmtVersions /\ PartsOf(v) \in Nat /\ PartsOf(v) > 0
      /\ k \in Nat /\ k < PartsOf(v)
      /\ original_pmt[c] \in Seq(PmtPackets) /\ Len(original_pmt[c]) \in Nat
      /\ original_pmt_ready[c] \in BOOLEAN
      /\ pmt_part_num[c] \in Nat /\ pmt_part_count[c] \in Nat
      /\ Pmt!Part(v, k) \in PmtPackets
  BY PmtFacts
<1>3. /\ pmt_at'[c] = (IF k + 1 = PartsOf(v) THEN 0 ELSE k + 1) /\ pmt_at'[c] < PartsOf(v)
      /\ pmt_air'[c] = v
  <2>1. pmt_at'[c] = (k + 1) % PartsOf(v) BY <1>1, <1>2 DEF Pmt!Advances, PmtTypes
  <2> QED BY <2>1, <1>1, <1>2, PmtWraps
<1>4. c \notin pmt_lost /\ ~original_pmt_ready[c] =>
        /\ pmt_part_num[c] = PartsOf(v) - 1 /\ pmt_part_count[c] = k - 1
        /\ original_pmt[c] = [j \in 1..k |-> Pmt!Part(v, j - 1)]
  BY <1>1, <1>2 DEF PmtSoFar
<1>5. c \notin pmt_lost /\ ~original_pmt_ready[c] => wanted BY <1>1, <1>2, <1>4
<1> HIDE DEF v, k
<1>6. CASE ~wanted
  <2>1. Pmt!Sends(c) /\ UNCHANGED <<original_pmt, original_pmt_ready, pmt_part_num, pmt_part_count>>
    BY <1>1, <1>6
  <2>2. /\ PmtSending(c)
        /\ generated_pmt' = generated_pmt /\ generated_pmt_version' = generated_pmt_version
    BY <2>1, PmtSends
  <2>3. PmtCopied(c)' BY <1>2, <1>3, <2>1 DEF PmtCopied, v
  <2>4. PmtSoFar(c)' BY <1>1, <1>5, <1>6, <2>1 DEF PmtSoFar
  <2>5. PmtOwn(c)' BY <1>1, <1>2, <2>1, <2>2 DEF PmtOwn, PmtSending, Pmt!NoPmt, Pmt!Whole, Pmt!Part
  <2>6. /\ original_pmt' \in [PmtChannels -> Seq(PmtPackets)]
        /\ original_pmt_ready' \in [PmtChannels -> BOOLEAN]
        /\ pmt_part_num' \in [PmtChannels -> Nat] /\ pmt_part_count' \in [PmtChannels -> Nat]
    BY <1>2, <2>1 DEF PmtTypes
  <2> QED BY <1>1, <2>1, <2>2, <2>3, <2>4, <2>5, <2>6, PmtMoves
<1>7. CASE wanted
  <2>1. /\ parts \in Seq(PmtPackets) /\ Len(parts) = Len(original_pmt[c]) + 1
        /\ \A j \in 1..Len(original_pmt[c]) : parts[j] = original_pmt[c][j]
    BY <1>2, AppendProperties
  <2>2. pmt_part_count[c] < pmt_part_num[c] /\ Len(original_pmt[c]) > 0
        /\ Len(original_pmt[c]) <= pmt_part_count[c] + 1
    BY <1>2, <1>7 DEF PmtCopied
  <2>3. parts[1].version \in PmtVersions
    <3>1. 1 \in 1..Len(parts) BY <2>1, <2>2, <1>2
    <3>2. parts[1] \in PmtPackets BY <2>1, <3>1, ElementOfSeq
    <3> QED BY <3>2 DEF PmtPackets
  <2>4. c \notin pmt_lost => parts = [j \in 1..k + 1 |-> Pmt!Part(v, j - 1)]
    <3> SUFFICES ASSUME c \notin pmt_lost PROVE parts = [j \in 1..k + 1 |-> Pmt!Part(v, j - 1)] OBVIOUS
    <3>1. original_pmt[c] = [j \in 1..k |-> Pmt!Part(v, j - 1)] BY <1>4, <1>7
    <3> QED BY <3>1, <1>2, PmtAppends
  <2> HIDE DEF parts
  <2>5. /\ pmt_part_count' = [pmt_part_count EXCEPT ![c] = pmt_part_count[c] + 1]
        /\ original_pmt' = [original_pmt EXCEPT ![c] = parts]
        /\ original_pmt_ready' = [original_pmt_ready EXCEPT ![c] = last]
        /\ pmt_part_num' = pmt_part_num
    BY <1>1, <1>7
  <2>6. /\ original_pmt' \in [PmtChannels -> Seq(PmtPackets)]
        /\ original_pmt_ready' \in [PmtChannels -> BOOLEAN]
        /\ pmt_part_num' \in [PmtChannels -> Nat] /\ pmt_part_count' \in [PmtChannels -> Nat]
    <3>1. pmt_part_count[c] + 1 \in Nat /\ last \in BOOLEAN BY <1>2
    <3> QED BY <1>2, <2>1, <2>5, <3>1 DEF PmtTypes
  <2>7. /\ pmt_part_num'[c] = pmt_part_num[c] /\ pmt_part_count'[c] = pmt_part_count[c] + 1
        /\ original_pmt'[c] = parts /\ original_pmt_ready'[c] = last
        /\ \A d \in PmtChannels : d # c =>
             /\ original_pmt'[d] = original_pmt[d] /\ original_pmt_ready'[d] = original_pmt_ready[d]
             /\ pmt_part_num'[d] = pmt_part_num[d] /\ pmt_part_count'[d] = pmt_part_count[d]
    BY <1>2, <2>5 DEF PmtTypes
  <2>8. PmtCopied(c)'
    <3>1. pmt_part_count[c] + 1 <= pmt_part_num[c] BY <1>2, <2>2
    <3>2. ~last => pmt_part_count[c] + 1 < pmt_part_num[c] BY <1>2, <2>2
    <3>3. Len(parts) <= (pmt_part_count[c] + 1) + 1 /\ Len(parts) > 0 BY <1>2, <2>1, <2>2
    <3> HIDE DEF last
    <3> QED BY <1>3, <2>7, <3>1, <3>2, <3>3 DEF PmtCopied
  <2>9. CASE last
    <3>1. Pmt!Rewrites(c, parts) BY <1>1, <1>7, <2>9
    <3>2. /\ PmtSending(c) /\ generated_pmt'[c] = [of |-> c, parts |-> parts]
          /\ generated_pmt_version'[c] = parts[1].version
      BY <2>1, <2>3, <3>1, PmtRewrites
    <3>3. c \notin pmt_lost => parts = Pmt!Whole(v) /\ parts[1].version = v
      <4> SUFFICES ASSUME c \notin pmt_lost PROVE parts = Pmt!Whole(v) /\ parts[1].version = v OBVIOUS
      <4>1. k + 1 = PartsOf(v) BY <1>2, <1>4, <1>7, <2>9
      <4>2. parts = Pmt!Whole(v) BY <2>4, <4>1, PmtNumbers
      <4>3. parts[1] = Pmt!Part(v, 0)
        <5>1. 1 \in 1..k + 1 /\ 1 - 1 = 0 BY <1>2
        <5>2. parts[1] = Pmt!Part(v, 1 - 1) BY <2>4, <5>1
        <5> QED BY <5>1, <5>2
      <4> QED BY <4>2, <4>3, PmtNumbers
    <3>4. PmtSoFar(c)' BY <2>7, <2>9 DEF PmtSoFar
    <3>5. PmtOwn(c)'
      <4>1. pmt_lost' = pmt_lost BY <1>1
      <4>2. c \notin pmt_lost =>
                generated_pmt'[c] = [of |-> c, parts |-> Pmt!Whole(generated_pmt_version'[c])]
        BY <3>2, <3>3
      <4>3. ~pmt_fresh'[c] => pmt_sent'[c] \in {Pmt!NoPmt, generated_pmt'[c]} BY <3>2 DEF PmtSending
      <4> QED BY <4>1, <4>2, <4>3 DEF PmtOwn, Pmt!NoPmt, Pmt!Whole, Pmt!Part
    <3> QED BY <1>1, <2>6, <2>7, <2>8, <3>2, <3>4, <3>5, PmtMoves
  <2>10. CASE ~last
    <3>1. Pmt!SendsNothing BY <1>1, <1>7, <2>10
    <3>2. PmtSending(c) BY <3>1, PmtSendsNothing
    <3>3. PmtSoFar(c)'
      <4> SUFFICES ASSUME c \notin pmt_lost
                   PROVE  /\ pmt_part_num'[c] = PartsOf(v) - 1 /\ pmt_part_count'[c] = pmt_at'[c] - 1
                          /\ original_pmt'[c] = [j \in 1..pmt_at'[c] |-> Pmt!Part(v, j - 1)]
        BY <1>1, <1>3 DEF PmtSoFar, Pmt!Part
      <4>1. pmt_part_num[c] = PartsOf(v) - 1 /\ pmt_part_count[c] = k - 1 BY <1>4, <1>7
      <4>2. pmt_at'[c] = k + 1 BY <1>2, <1>3, <2>10, <4>1
      <4>3. pmt_part_count[c] + 1 = (k + 1) - 1 BY <1>2, <4>1
      <4> QED BY <2>4, <2>7, <4>1, <4>2, <4>3
    <3>4. PmtOwn(c)' BY <2>7, <2>10, <3>2 DEF PmtOwn, PmtSending, Pmt!NoPmt
    <3> QED BY <1>1, <2>6, <2>7, <2>8, <3>2, <3>3, <3>4, PmtMoves
  <2> QED BY <2>9, <2>10
<1> QED BY <1>6, <1>7

LEMMA PmtLoses == ASSUME PmtInv, NEW c \in PmtChannels, Pmt!Lose(c) PROVE PmtInv'
<1>1. /\ pmt_lost' = pmt_lost \cup {c} /\ Pmt!Advances(c)
      /\ UNCHANGED <<pmt_air, original_pmt, original_pmt_ready, pmt_part_num, pmt_part_count,
                     generated_pmt, generated_pmt_version, pmt_ts_packet, pmt_sent, pmt_fresh>>
  BY DEF Pmt!Lose
<1>2. PmtTypes /\ PmtCopied(c) /\ PmtOwn(c) BY PmtFacts
<1>3. /\ pmt_at' \in [PmtChannels -> Nat] /\ pmt_at'[c] < PartsOf(pmt_air[c])
      /\ \A d \in PmtChannels : d # c => pmt_at'[d] = pmt_at[d]
  <2>1. (pmt_at[c] + 1) % PartsOf(pmt_air[c]) \in Nat
        /\ (pmt_at[c] + 1) % PartsOf(pmt_air[c]) < PartsOf(pmt_air[c])
    BY PmtFacts, PmtWraps
  <2> QED BY <1>1, <1>2, <2>1 DEF Pmt!Advances, PmtTypes
<1>4. PmtTypes' BY <1>1, <1>2, <1>3 DEF PmtTypes
<1>5. PmtCopied(c)' /\ PmtSoFar(c)' BY <1>1, <1>2, <1>3 DEF PmtCopied, PmtSoFar
<1>6. PmtOwn(c)' BY <1>1, <1>2 DEF PmtOwn, Pmt!NoPmt
<1>7. ASSUME NEW d \in PmtChannels, d # c PROVE PmtCopied(d)' /\ PmtSoFar(d)' /\ PmtOwn(d)'
  <2>1. PmtCopied(d) /\ PmtSoFar(d) /\ PmtOwn(d) BY DEF PmtInv
  <2> QED BY <1>1, <1>3, <1>7, <2>1, PmtOthers
<1> QED BY <1>4, <1>5, <1>6, <1>7 DEF PmtInv

LEMMA PmtNew == ASSUME PmtInv, NEW c \in PmtChannels, Pmt!NewPmt(c) PROVE PmtInv'
<1>1. /\ pmt_at[c] = 0 /\ pmt_air[c] + 1 \in PmtVersions
      /\ pmt_air' = [pmt_air EXCEPT ![c] = pmt_air[c] + 1]
      /\ UNCHANGED <<pmt_at, original_pmt, original_pmt_ready, pmt_part_num, pmt_part_count,
                     generated_pmt, generated_pmt_version, pmt_ts_packet, pmt_sent, pmt_fresh, pmt_lost>>
  BY DEF Pmt!NewPmt
<1>2. PmtTypes /\ PmtCopied(c) /\ PmtOwn(c) BY PmtFacts
<1>3. /\ pmt_air' \in [PmtChannels -> PmtVersions] /\ pmt_air'[c] = pmt_air[c] + 1
      /\ \A d \in PmtChannels : d # c => pmt_air'[d] = pmt_air[d]
  BY <1>1, <1>2 DEF PmtTypes
<1>4. PmtTypes' BY <1>1, <1>2, <1>3 DEF PmtTypes
<1>5. PmtCopied(c)' /\ PmtSoFar(c)'
  <2>1. 0 < PartsOf(pmt_air[c] + 1) BY <1>1, PmtNumbers
  <2> QED BY <1>1, <1>2, <1>3, <2>1 DEF PmtCopied, PmtSoFar
<1>6. PmtOwn(c)' BY <1>1, <1>2 DEF PmtOwn, Pmt!NoPmt, Pmt!Whole, Pmt!Part
<1>7. ASSUME NEW d \in PmtChannels, d # c PROVE PmtCopied(d)' /\ PmtSoFar(d)' /\ PmtOwn(d)'
  <2>1. PmtCopied(d) /\ PmtSoFar(d) /\ PmtOwn(d) BY DEF PmtInv
  <2> QED BY <1>1, <1>3, <1>7, <2>1, PmtOthers
<1> QED BY <1>4, <1>5, <1>6, <1>7 DEF PmtInv

LEMMA PmtStep == PmtInv /\ (Pmt!Next \/ UNCHANGED pmtVars) => PmtInv'
<1> SUFFICES ASSUME PmtInv, Pmt!Next \/ UNCHANGED pmtVars PROVE PmtInv' OBVIOUS
<1>1. ASSUME NEW c \in PmtChannels, Pmt!First(c) PROVE PmtInv' BY <1>1, PmtFirst
<1>2. ASSUME NEW c \in PmtChannels, Pmt!Continues(c) PROVE PmtInv' BY <1>2, PmtContinues
<1>3. ASSUME NEW c \in PmtChannels, Pmt!Lose(c) PROVE PmtInv' BY <1>3, PmtLoses
<1>4. ASSUME NEW c \in PmtChannels, Pmt!NewPmt(c) PROVE PmtInv' BY <1>4, PmtNew
<1>5. ASSUME UNCHANGED pmtVars PROVE PmtInv'
  <2>1. PmtTypes' BY <1>5 DEF PmtInv, PmtTypes, pmtVars
  <2>2. ASSUME NEW d \in PmtChannels PROVE PmtCopied(d)' /\ PmtSoFar(d)' /\ PmtOwn(d)'
    <3>1. PmtCopied(d) /\ PmtSoFar(d) /\ PmtOwn(d) BY DEF PmtInv
    <3> QED BY <1>5, <3>1, PmtOthers DEF pmtVars
  <2> QED BY <2>1, <2>2 DEF PmtInv
<1> QED BY <1>1, <1>2, <1>3, <1>4, <1>5 DEF Pmt!Next

LEMMA PmtGoals == PmtInv => Pmt!TypeOK /\ Pmt!OwnPmt
<1> SUFFICES ASSUME PmtInv PROVE Pmt!TypeOK /\ Pmt!OwnPmt OBVIOUS
<1>1. PmtTypes BY DEF PmtInv
<1>2. ASSUME NEW c \in PmtChannels
      PROVE  /\ pmt_at[c] \in 0..PartsOf(pmt_air[c]) - 1
             /\ pmt_part_count[c] <= pmt_part_num[c]
             /\ Len(original_pmt[c]) <= pmt_part_num[c] + 1
  BY PmtFacts DEF PmtCopied
<1>3. Pmt!TypeOK BY <1>1, <1>2 DEF Pmt!TypeOK, PmtTypes
<1>4. Pmt!OwnPmt BY PmtFacts DEF Pmt!OwnPmt, PmtOwn
<1> QED BY <1>3, <1>4

-----------------------------------------------------------------------------
(* SdtRewrite                                                               *)

SdtTables == {Sdt!Blank} \cup {Sdt!Sdt(c, v) : c \in SdtChannels, v \in SdtVersions}

SdtTypes ==
    /\ air_version \in SdtVersions
    /\ assembling \in Sdt!Sections \cup {Sdt!Nothing, Sdt!OtherTable}
    /\ full_sdt \in Sdt!Sections \cup {Sdt!Nothing, Sdt!OtherTable}
    /\ full_sdt_ok \in BOOLEAN /\ sdt_needs_update \in BOOLEAN
    /\ sdt_need_others \in BOOLEAN /\ early \in BOOLEAN
    /\ sdt_version \in SdtVersions \cup {-1} /\ sections_seen \subseteq 0..LastSection
    /\ generated_sdt \in [SdtChannels -> SdtTables]
    /\ generated_sdt_version \in [SdtChannels -> SdtVersions \cup {-1}]
    /\ sdt_rewrite_skip \in [SdtChannels -> BOOLEAN]
    /\ sdt_sent \in [SdtChannels -> SdtTables \cup {Sdt!Nothing, Sdt!Original}]
    /\ sdt_ready \subseteq SdtChannels

\* A source that is in use is a section of the version read last; sections are asked for while
\* some are not seen, and those seen are counted with their versions.
SdtSource ==
    /\ ~full_sdt_ok => sdt_needs_update /\ sections_seen = {}
    /\ full_sdt_ok => sdt_version \in SdtVersions
    /\ full_sdt = Sdt!OtherTable => sdt_needs_update
    /\ ~sdt_needs_update /\ ~early =>
           full_sdt \in Sdt!Sections /\ full_sdt.applicable /\ full_sdt.version = sdt_version
    /\ sdt_needs_update /\ ~sdt_need_others => sections_seen = {}
    /\ sdt_need_others => sections_seen # 0..LastSection
    /\ sections_seen = {} <=> seen_versions = {}
    /\ seen_versions # {} => sdt_version \in seen_versions

\* A channel is skipped once all sections were seen, until the first one of a new version.
SdtSkipped ==
    \A c \in SdtChannels : sdt_rewrite_skip[c] =>
        /\ c \in failed /\ ~sdt_need_others
        /\ sdt_needs_update \/ sections_seen = 0..LastSection
        /\ c \notin unlucky => SectionOf(sdt_version, c) = -1

\* A channel that is still to be rewritten is in none of the sections seen.
SdtUnseen ==
    seen_versions = {sdt_version} =>
        \A c \in sdt_ready \ late_ready :
            ~sdt_rewrite_skip[c] /\ generated_sdt_version[c] # sdt_version =>
                SectionOf(sdt_version, c) \notin sections_seen

SdtOwned ==
    ~early => \A c \in SdtChannels \ failed :
        /\ generated_sdt_version[c] # -1 => generated_sdt[c] = Sdt!Sdt(c, generated_sdt_version[c])
        /\ sdt_sent[c] \in {Sdt!Nothing, Sdt!Sdt(c, sdt_version)}

SdtInv == SdtTypes /\ SdtSource /\ SdtSkipped /\ SdtUnseen /\ SdtOwned

LEMMA SdtNumbers ==
  /\ SdtChannels \subseteq Nat /\ SdtVersions \subseteq Nat /\ 0 \in SdtVersions /\ LastSection \in Nat
  /\ \A v \in SdtVersions, c \in SdtChannels : SectionOf(v, c) \in -1..LastSection
  /\ -1 \notin SdtVersions /\ 0..LastSection # {}
<1>1. /\ SdtChannels \subseteq Nat /\ SdtVersions \subseteq Nat /\ 0 \in SdtVersions /\ LastSection \in Nat
      /\ \A v \in SdtVersions, c \in SdtChannels : SectionOf(v, c) \in -1..LastSection
  BY SdtNumbered DEF Sdt!SdtAssumption
<1>2. -1 \notin SdtVersions
  <2>1. -1 \notin Nat OBVIOUS
  <2> QED BY <1>1, <2>1
<1>3. 0 \in 0..LastSection BY <1>1
<1> QED BY <1>1, <1>2, <1>3

\* What the kinds of tables are told apart by.
LEMMA SdtKinds ==
  /\ \A s \in Sdt!Sections : /\ s.version \in SdtVersions /\ s.number \in 0..LastSection
                             /\ s.applicable \in BOOLEAN
                             /\ s # Sdt!Nothing /\ s # Sdt!OtherTable
  /\ Sdt!Nothing # Sdt!OtherTable
  /\ \A v \in SdtVersions, n \in 0..LastSection, a \in BOOLEAN :
        Sdt!Section(v, n, a) \in Sdt!Sections /\ Sdt!Section(v, n, a).applicable = a
<1>1. ASSUME NEW s \in Sdt!Sections
      PROVE  /\ s.version \in SdtVersions /\ s.number \in 0..LastSection
             /\ s.applicable \in BOOLEAN
             /\ s # Sdt!Nothing /\ s # Sdt!OtherTable
  <2>1. PICK v \in SdtVersions, n \in 0..LastSection, a \in BOOLEAN : s = Sdt!Section(v, n, a)
    BY DEF Sdt!Sections
  <2>2. s.kind = "section" /\ s.version = v /\ s.number = n /\ s.applicable = a
    BY <2>1 DEF Sdt!Section
  <2>3. Sdt!Nothing.kind = "nothing" /\ Sdt!OtherTable.kind = "other" BY DEF Sdt!Nothing, Sdt!OtherTable
  <2> QED BY <2>2, <2>3
<1>2. Sdt!Nothing # Sdt!OtherTable
  <2>1. Sdt!Nothing.kind = "nothing" /\ Sdt!OtherTable.kind = "other" BY DEF Sdt!Nothing, Sdt!OtherTable
  <2> QED BY <2>1
<1>3. ASSUME NEW v \in SdtVersions, NEW n \in 0..LastSection, NEW a \in BOOLEAN
      PROVE  Sdt!Section(v, n, a) \in Sdt!Sections /\ Sdt!Section(v, n, a).applicable = a
  BY DEF Sdt!Sections, Sdt!Section
<1> QED BY <1>1, <1>2, <1>3

LEMMA SdtInitial == Sdt!Init => SdtInv
<1> SUFFICES ASSUME Sdt!Init PROVE SdtInv OBVIOUS
<1>1. /\ air_version = 0 /\ assembling = Sdt!Nothing /\ full_sdt = Sdt!Nothing /\ full_sdt_ok = FALSE
      /\ sdt_version = -1 /\ sdt_needs_update = TRUE /\ sdt_need_others = FALSE
      /\ sections_seen = {} /\ sdt_ready = {}
      /\ generated_sdt = [c \in SdtChannels |-> Sdt!Blank]
      /\ generated_sdt_version = [c \in SdtChannels |-> -1]
      /\ sdt_rewrite_skip = [c \in SdtChannels |-> FALSE]
      /\ sdt_sent = [c \in SdtChannels |-> Sdt!Nothing] /\ seen_versions = {} /\ failed = {}
      /\ late_ready = {} /\ unlucky = {} /\ early = FALSE
  BY DEF Sdt!Init
<1>2. SdtTypes
  <2>1. generated_sdt \in [SdtChannels -> SdtTables] BY <1>1 DEF SdtTables
  <2>2. sdt_sent \in [SdtChannels -> SdtTables \cup {Sdt!Nothing, Sdt!Original}] BY <1>1
  <2>3. generated_sdt_version \in [SdtChannels -> SdtVersions \cup {-1}]
        /\ sdt_rewrite_skip \in [SdtChannels -> BOOLEAN]
    BY <1>1
  <2> QED BY <1>1, <2>1, <2>2, <2>3, SdtNumbers DEF SdtTypes
<1>3. SdtSource BY <1>1, SdtKinds, SdtNumbers DEF SdtSource
<1>4. SdtSkipped /\ SdtUnseen /\ SdtOwned BY <1>1 DEF SdtSkipped, SdtUnseen, SdtOwned
<1> QED BY <1>2, <1>3, <1>4 DEF SdtInv

-----------------------------------------------------------------------------
(* The source after a packet that starts s and with which get_ts_packet gives d. *)

SdtNewer(s) == ~sdt_needs_update /\ s \in Sdt!Sections /\ s.version # sdt_version /\ s.applicable

\* A section is read.
SdtReads(src, s, d) ==
    /\ d \in Sdt!Sections /\ d.applicable
    /\ src.full = d /\ src.ok = TRUE /\ src.version = d.version /\ src.needs = FALSE /\ src.others = FALSE
    /\ src.seen = (IF SdtNewer(s) THEN {} ELSE sections_seen) \cup {d.number}
    /\ src.versions = (IF SdtNewer(s) THEN {} ELSE seen_versions) \cup {d.version}
    /\ src.updated = ~sdt_need_others
    /\ sdt_needs_update \/ SdtNewer(s) \/ sdt_need_others

\* No section is read; the source may be kept or replaced by one that is of no use.
SdtKeeps(src, s, d) ==
    /\ src.ok = full_sdt_ok /\ src.version = sdt_version /\ src.others = sdt_need_others
    /\ src.updated = FALSE
    /\ src.seen = (IF SdtNewer(s) THEN {} ELSE sections_seen)
    /\ src.versions = (IF SdtNewer(s) THEN {} ELSE seen_versions)
    /\ \/ src.full = full_sdt
       \/ src.full = Sdt!OtherTable /\ src.needs
       \/ src.full \in Sdt!Sections /\ ~src.full.applicable
    /\ src.needs \in BOOLEAN /\ (sdt_needs_update \/ SdtNewer(s) => src.needs)
    /\ \/ ~src.needs \/ sdt_needs_update \/ SdtNewer(s)
       \/ src.full = Sdt!OtherTable /\ sdt_need_others

LEMMA SdtSources ==
  ASSUME SdtInv, NEW s, NEW d \in Sdt!Sections \cup {Sdt!Nothing, Sdt!OtherTable}
  PROVE  SdtReads(Sdt!Source(s, d), s, d) \/ SdtKeeps(Sdt!Source(s, d), s, d)
<1> DEFINE newer == SdtNewer(s)
           wanted == sdt_needs_update \/ newer \/ sdt_need_others
           seenNow == IF newer THEN {} ELSE sections_seen
           src == [full |-> full_sdt, ok |-> full_sdt_ok, version |-> sdt_version,
                   needs |-> sdt_needs_update \/ newer, others |-> sdt_need_others, seen |-> seenNow,
                   versions |-> IF newer THEN {} ELSE seen_versions, updated |-> FALSE]
<1>1. Sdt!Source(s, d) =
        CASE ~wanted \/ d = Sdt!Nothing -> src
          [] wanted /\ d = Sdt!OtherTable -> [src EXCEPT !.full = d, !.needs = TRUE]
          [] wanted /\ d \in Sdt!Sections /\ ~d.applicable -> [src EXCEPT !.full = d]
          [] OTHER -> [full |-> d, ok |-> TRUE, version |-> d.version, needs |-> FALSE,
                       others |-> FALSE, seen |-> seenNow \cup {d.number},
                       versions |-> src.versions \cup {d.version}, updated |-> ~sdt_need_others]
  BY DEF Sdt!Source, SdtNewer, Sdt!Starts
<1>2. SdtTypes BY DEF SdtInv
<1>3. CASE ~wanted \/ d = Sdt!Nothing
  <2>1. Sdt!Source(s, d) = src
    BY <1>1, <1>3, SdtKinds
  <2>2. /\ src.full = full_sdt /\ src.ok = full_sdt_ok /\ src.version = sdt_version
        /\ src.others = sdt_need_others /\ src.seen = seenNow /\ src.updated = FALSE
        /\ src.versions = (IF newer THEN {} ELSE seen_versions)
        /\ src.needs = (sdt_needs_update \/ newer)
    OBVIOUS
  <2>3. src.needs \in BOOLEAN BY <2>2
  <2> HIDE DEF src
  <2> QED BY <2>1, <2>2, <2>3 DEF SdtKeeps
<1>4. CASE wanted /\ d = Sdt!OtherTable
  <2>1. Sdt!Source(s, d) = [src EXCEPT !.full = d, !.needs = TRUE] BY <1>1, <1>4, SdtKinds
  <2> QED BY <2>1, <1>4 DEF SdtKeeps
<1>5. CASE wanted /\ d \in Sdt!Sections /\ ~d.applicable
  <2>1. Sdt!Source(s, d) = [src EXCEPT !.full = d] BY <1>1, <1>5, SdtKinds
  <2> QED BY <2>1, <1>5, SdtKinds DEF SdtKeeps
<1>6. CASE wanted /\ d \in Sdt!Sections /\ d.applicable
  <2>1. Sdt!Source(s, d) = [full |-> d, ok |-> TRUE, version |-> d.version, needs |-> FALSE,
                       others |-> FALSE, seen |-> seenNow \cup {d.number},
                       versions |-> src.versions \cup {d.version}, updated |-> ~sdt_need_others]
    BY <1>1, <1>6, SdtKinds
  <2> QED BY <2>1, <1>6 DEF SdtReads
<1>7. d \in Sdt!Sections => d.applicable \in BOOLEAN BY SdtKinds
<1> QED BY <1>3, <1>4, <1>5, <1>6, <1>7

\* A source from which no channel gets the description of a version other than the one read last.
SdtUseful(src) ==
    \/ early
    \/ src.full \in Sdt!Sections /\ ~src.full.applicable
    \/ src.full \in Sdt!Sections /\ src.full.applicable /\ src.full.version = src.version

\* What the source is after either.
LEMMA SdtSourced ==
  ASSUME SdtInv, NEW s, NEW d \in Sdt!Sections \cup {Sdt!Nothing, Sdt!OtherTable}, NEW src,
         SdtReads(src, s, d) \/ SdtKeeps(src, s, d)
  PROVE  /\ src.full \in Sdt!Sections \cup {Sdt!Nothing, Sdt!OtherTable}
         /\ src.ok \in BOOLEAN /\ src.needs \in BOOLEAN /\ src.others \in BOOLEAN /\ src.updated \in BOOLEAN
         /\ src.version \in SdtVersions \cup {-1} /\ src.seen \subseteq 0..LastSection
         /\ ~src.ok => src.needs /\ src.seen = {}
         /\ src.ok => src.version \in SdtVersions
         /\ src.full = Sdt!OtherTable => src.needs
         /\ src.needs /\ ~src.others => src.seen = {}
         /\ src.others => src.seen # 0..LastSection
         /\ src.seen = {} <=> src.versions = {}
         /\ src.versions # {} => src.version \in src.versions
         /\ src.updated => /\ src.full \in Sdt!Sections /\ src.seen = {src.full.number}
                           /\ src.version = src.full.version /\ ~src.needs /\ src.ok
         /\ ~src.needs => SdtUseful(src)
<1>1. SdtTypes /\ SdtSource BY DEF SdtInv
<1>2. CASE SdtReads(src, s, d)
  <2>1. /\ d \in Sdt!Sections /\ d.applicable
        /\ src.full = d /\ src.ok = TRUE /\ src.version = d.version /\ src.needs = FALSE /\ src.others = FALSE
        /\ src.seen = (IF SdtNewer(s) THEN {} ELSE sections_seen) \cup {d.number}
        /\ src.versions = (IF SdtNewer(s) THEN {} ELSE seen_versions) \cup {d.version}
        /\ src.updated = ~sdt_need_others
        /\ sdt_needs_update \/ SdtNewer(s) \/ sdt_need_others
    BY <1>2 DEF SdtReads
  <2>2. d.version \in SdtVersions /\ d.number \in 0..LastSection /\ d # Sdt!OtherTable BY <2>1, SdtKinds
  <2>3. src.updated => src.seen = {d.number}
    <3>1. src.updated => (IF SdtNewer(s) THEN {} ELSE sections_seen) = {} BY <1>1, <2>1 DEF SdtSource
    <3> QED BY <2>1, <3>1
  <2>4. src.seen \subseteq 0..LastSection BY <1>1, <2>1, <2>2 DEF SdtTypes
  <2>5. src.updated \in BOOLEAN BY <2>1
  <2>6. SdtUseful(src) BY <2>1 DEF SdtUseful
  <2> QED BY <2>1, <2>2, <2>3, <2>4, <2>5, <2>6
<1>3. CASE SdtKeeps(src, s, d)
  <2>1. /\ src.ok = full_sdt_ok /\ src.version = sdt_version /\ src.others = sdt_need_others
        /\ src.updated = FALSE
        /\ src.seen = (IF SdtNewer(s) THEN {} ELSE sections_seen)
        /\ src.versions = (IF SdtNewer(s) THEN {} ELSE seen_versions)
        /\ \/ src.full = full_sdt
           \/ src.full = Sdt!OtherTable /\ src.needs
           \/ src.full \in Sdt!Sections /\ ~src.full.applicable
        /\ src.needs \in BOOLEAN /\ (sdt_needs_update \/ SdtNewer(s) => src.needs)
        /\ \/ ~src.needs \/ sdt_needs_update \/ SdtNewer(s)
           \/ src.full = Sdt!OtherTable /\ sdt_need_others
    BY <1>3 DEF SdtKeeps
  <2>2. /\ src.full \in Sdt!Sections \cup {Sdt!Nothing, Sdt!OtherTable}
        /\ src.ok \in BOOLEAN /\ src.needs \in BOOLEAN /\ src.others \in BOOLEAN /\ src.updated \in BOOLEAN
        /\ src.version \in SdtVersions \cup {-1} /\ src.seen \subseteq 0..LastSection
    BY <1>1, <2>1 DEF SdtTypes
  <2>3. \A x \in Sdt!Sections : x # Sdt!OtherTable BY SdtKinds
  <2>4. 0..LastSection # {} BY SdtNumbers
  <2>5. /\ ~src.ok => src.needs /\ src.seen = {}
        /\ src.ok => src.version \in SdtVersions
        /\ src.full = Sdt!OtherTable => src.needs
        /\ src.needs /\ ~src.others => src.seen = {}
        /\ src.others => src.seen # 0..LastSection
    BY <1>1, <2>1, <2>3, <2>4 DEF SdtSource
  <2>6. /\ src.seen = {} <=> src.versions = {}
        /\ src.versions # {} => src.version \in src.versions
    BY <1>1, <2>1 DEF SdtSource
  <2>7. ~src.needs => SdtUseful(src)
    BY <1>1, <2>1 DEF SdtSource, SdtUseful
  <2> QED BY <2>1, <2>2, <2>5, <2>6, <2>7
<1> QED BY <1>2, <1>3

\* Of the numbers before one there is a greatest.
LEMMA SdtGreatest ==
  ASSUME NEW S \in SUBSET Nat, S # {}, NEW c \in Nat, \A b \in S : b < c
  PROVE  Sdt!Max(S) \in S
<1> DEFINE T == {n \in Nat : c - n \in S}
<1>1. T # {}
  <2>1. PICK b \in S : TRUE OBVIOUS
  <2>2. b \in Nat /\ b < c BY <2>1
  <2>3. c - b \in Nat /\ c - (c - b) = b BY <2>2
  <2>4. c - b \in T BY <2>1, <2>3
  <2> QED BY <2>4
<1>2. PICK m \in T : \A n \in T : ~(<<n, m>> \in OpToRel(<, Nat))
  BY <1>1, NatLessThanWellFounded, WFMin
<1>3. m \in Nat /\ c - m \in S BY <1>2
<1>4. ASSUME NEW b \in S PROVE c - m >= b
  <2>1. b \in Nat /\ b < c BY <1>4
  <2>2. c - b \in Nat /\ c - (c - b) = b BY <2>1
  <2>3. c - b \in T BY <2>2
  <2>4. ~(c - b < m) BY <1>2, <1>3, <2>2, <2>3 DEF OpToRel
  <2> QED BY <1>3, <2>1, <2>2, <2>4
<1>5. \E x \in S : \A y \in S : x >= y BY <1>3, <1>4
<1> QED BY <1>5 DEF Sdt!Max

LEMMA SdtPackets ==
  ASSUME SdtInv, NEW s \in Sdt!OnAir \cup {Sdt!Nothing}, NEW isGiven \in BOOLEAN, Sdt!Packet(s, isGiven)
  PROVE  SdtInv'
<1> DEFINE d == IF isGiven THEN assembling ELSE Sdt!Nothing
           src == Sdt!Source(s, d)
           skip == IF src.updated THEN [c \in SdtChannels |-> FALSE] ELSE sdt_rewrite_skip
           rewritten == Sdt!Rewritten(src, skip)
           found == Sdt!Found(src, skip)
           done == Sdt!Done(src, skip)
           gen == [c \in SdtChannels |->
                      IF c \in found THEN Sdt!Sdt(c, src.full.version) ELSE generated_sdt[c]]
           genv == [c \in SdtChannels |-> IF c \in done THEN src.version ELSE generated_sdt_version[c]]
           sends == {c \in sdt_ready : ~skip[c] /\ src.ok /\ genv[c] = src.version}
<1>1. /\ assembling' \in {Sdt!Nothing, s, assembling}
      /\ full_sdt' = src.full /\ full_sdt_ok' = src.ok /\ sdt_version' = src.version
      /\ sdt_needs_update' = (src.needs \/ (src.full = Sdt!OtherTable /\ rewritten # {}))
      /\ sdt_need_others' = (src.others \/ (src.full # Sdt!OtherTable /\ rewritten # done))
      /\ sections_seen' = src.seen
      /\ generated_sdt' = gen /\ generated_sdt_version' = genv
      /\ sdt_rewrite_skip' = [c \in SdtChannels |-> IF c \in done THEN c \notin found ELSE skip[c]]
      /\ sdt_sent' = [c \in SdtChannels |->
                         IF c \in sdt_ready /\ skip[c] THEN Sdt!PacketAt(c, sends, gen)
                         ELSE IF c \in sends THEN gen[c] ELSE Sdt!Nothing]
      /\ late_ready' = IF src.updated THEN {} ELSE late_ready
      /\ seen_versions' = src.versions /\ failed' = (failed \cup done) \ found
      /\ unlucky' = {c \in SdtChannels :
                        /\ sdt_rewrite_skip'[c]
                        /\ IF sdt_rewrite_skip[c] /\ ~src.updated THEN c \in unlucky
                           ELSE c \in late_ready' \/ seen_versions' # {src.version}}
      /\ early' = (early \/ (src.full \in Sdt!Sections /\ ~src.full.applicable /\ ~src.needs))
      /\ UNCHANGED <<air_version, sdt_ready>>
  BY DEF Sdt!Packet
<1>2. SdtTypes /\ SdtSource /\ SdtSkipped /\ SdtUnseen /\ SdtOwned BY DEF SdtInv
<1>3. d \in Sdt!Sections \cup {Sdt!Nothing, Sdt!OtherTable} BY <1>2 DEF SdtTypes
<1>4. SdtReads(src, s, d) \/ SdtKeeps(src, s, d) BY <1>3, SdtSources
<1>5. /\ rewritten = {c \in sdt_ready : ~skip[c] /\ src.ok /\ ~src.needs /\ generated_sdt_version[c] # src.version}
      /\ found = {c \in rewritten : Sdt!Describes(src.full, c)}
      /\ done = {c \in rewritten : src.full # Sdt!OtherTable /\
                     (Sdt!Describes(src.full, c) \/ src.seen = 0..LastSection)}
  BY DEF Sdt!Rewritten, Sdt!Found, Sdt!Done
<1> HIDE DEF rewritten, found, done
<1>6. /\ skip \in [SdtChannels -> BOOLEAN]
      /\ \A c \in SdtChannels : skip[c] => sdt_rewrite_skip[c] /\ ~src.updated
      /\ \A c \in SdtChannels : ~src.updated => skip[c] = sdt_rewrite_skip[c]
  BY <1>2 DEF SdtTypes
<1> HIDE DEF skip, src, d
<1>7. /\ src.full \in Sdt!Sections \cup {Sdt!Nothing, Sdt!OtherTable}
      /\ src.ok \in BOOLEAN /\ src.needs \in BOOLEAN /\ src.others \in BOOLEAN /\ src.updated \in BOOLEAN
      /\ src.version \in SdtVersions \cup {-1} /\ src.seen \subseteq 0..LastSection
      /\ ~src.ok => src.needs /\ src.seen = {}
      /\ src.ok => src.version \in SdtVersions
      /\ src.full = Sdt!OtherTable => src.needs
      /\ src.needs /\ ~src.others => src.seen = {}
      /\ src.others => src.seen # 0..LastSection
      /\ src.seen = {} <=> src.versions = {}
      /\ src.versions # {} => src.version \in src.versions
      /\ src.updated => /\ src.full \in Sdt!Sections /\ src.seen = {src.full.number}
                        /\ src.version = src.full.version /\ ~src.needs /\ src.ok
      /\ ~src.needs => SdtUseful(src)
  BY <1>3, <1>4, SdtSourced
<1>8. \A section, c : Sdt!Describes(section, c) <=>
          section \in Sdt!Sections /\ SectionOf(section.version, c) = section.number
  BY DEF Sdt!Describes
<1>9. found \subseteq done /\ done \subseteq rewritten /\ rewritten \subseteq sdt_ready /\ sdt_ready \subseteq SdtChannels
  <2>1. \A x \in Sdt!Sections : x # Sdt!OtherTable BY SdtKinds
  <2> QED BY <1>2, <1>5, <1>8, <2>1 DEF SdtTypes
<1>10. /\ rewritten # {} => ~src.needs /\ src.ok /\ src.full # Sdt!OtherTable
       /\ rewritten # done => src.seen # 0..LastSection
       /\ done # found => src.seen = 0..LastSection
  <2>1. rewritten # {} => ~src.needs /\ src.ok /\ src.full # Sdt!OtherTable BY <1>5, <1>7
  <2> QED BY <1>5, <2>1
<1>11. /\ sdt_needs_update' = src.needs
       /\ sdt_need_others' = (src.others \/ rewritten # done)
  <2>1. ~(src.full = Sdt!OtherTable /\ rewritten # {}) BY <1>10
  <2>2. rewritten # done => src.full # Sdt!OtherTable BY <1>9, <1>10
  <2> QED BY <1>1, <1>7, <2>1, <2>2
<1>12. \A c \in SdtChannels :
         /\ c \in found => gen[c] = Sdt!Sdt(c, src.full.version)
         /\ c \notin found => gen[c] = generated_sdt[c]
         /\ c \in done => genv[c] = src.version
         /\ c \notin done => genv[c] = generated_sdt_version[c]
         /\ c \in sends <=> c \in sdt_ready /\ ~skip[c] /\ src.ok /\ genv[c] = src.version
  OBVIOUS
<1>13. gen \in [SdtChannels -> SdtTables] /\ genv \in [SdtChannels -> SdtVersions \cup {-1}]
  <2>1. \A c \in SdtChannels : gen[c] \in SdtTables
    <3> SUFFICES ASSUME NEW c \in SdtChannels PROVE gen[c] \in SdtTables OBVIOUS
    <3>1. CASE c \in found
      <4>1. src.full \in Sdt!Sections BY <3>1, <1>5, <1>8
      <4>2. src.full.version \in SdtVersions BY <4>1, SdtKinds
      <4> QED BY <3>1, <4>2, <1>12 DEF SdtTables
    <3>2. CASE c \notin found BY <3>2, <1>2, <1>12 DEF SdtTypes
    <3> QED BY <3>1, <3>2
  <2>2. \A c \in SdtChannels : genv[c] \in SdtVersions \cup {-1} BY <1>2, <1>7, <1>12 DEF SdtTypes
  <2> QED BY <2>1, <2>2
<1>14. sends \subseteq SdtChannels BY <1>9
<1> HIDE DEF gen, genv, sends
<1>15. \A c \in SdtChannels : sdt_rewrite_skip'[c] <=> IF c \in done THEN c \notin found ELSE skip[c]
  BY <1>1
<1>16. \A c \in SdtChannels :
         /\ c \in sdt_ready /\ skip[c] => sdt_sent'[c] = Sdt!PacketAt(c, sends, gen)
         /\ ~(c \in sdt_ready /\ skip[c]) /\ c \in sends => sdt_sent'[c] = gen[c]
         /\ ~(c \in sdt_ready /\ skip[c]) /\ c \notin sends => sdt_sent'[c] = Sdt!Nothing
  BY <1>1
<1>17. \A c \in SdtChannels : skip[c] => c \notin done
  BY <1>5, <1>9
<1>20. SdtTypes'
  <2>1. assembling' \in Sdt!Sections \cup {Sdt!Nothing, Sdt!OtherTable}
    <3>1. s \in Sdt!Sections \cup {Sdt!Nothing, Sdt!OtherTable}
      <4>1. air_version \in SdtVersions BY <1>2 DEF SdtTypes
      <4>2. 0 \in 0..LastSection BY SdtNumbers
      <4> QED BY <4>1, <4>2, SdtKinds DEF Sdt!OnAir
    <3> QED BY <1>1, <1>2, <3>1 DEF SdtTypes
  <2>2. /\ full_sdt' \in Sdt!Sections \cup {Sdt!Nothing, Sdt!OtherTable}
        /\ full_sdt_ok' \in BOOLEAN /\ sdt_needs_update' \in BOOLEAN
        /\ sdt_version' \in SdtVersions \cup {-1} /\ sections_seen' \subseteq 0..LastSection
    BY <1>1, <1>7, <1>11
  <2>3. sdt_need_others' \in BOOLEAN BY <1>11
  <2>4. early' \in BOOLEAN BY <1>1
  <2>5. sdt_rewrite_skip' \in [SdtChannels -> BOOLEAN]
    <3>1. \A c \in SdtChannels : (IF c \in done THEN c \notin found ELSE skip[c]) \in BOOLEAN BY <1>6
    <3> QED BY <1>1, <3>1
  <2>6. sdt_sent' \in [SdtChannels -> SdtTables \cup {Sdt!Nothing, Sdt!Original}]
    <3>1. ASSUME NEW c \in SdtChannels PROVE Sdt!PacketAt(c, sends, gen) \in SdtTables \cup {Sdt!Original}
      <4> DEFINE before == {b \in sends : b < c}
      <4>1. Sdt!PacketAt(c, sends, gen) = IF before = {} THEN Sdt!Original ELSE gen[Sdt!Max(before)]
        BY DEF Sdt!PacketAt
      <4>2. before \in SUBSET Nat /\ c \in Nat BY <1>14, SdtNumbers
      <4>3. before # {} => Sdt!Max(before) \in before BY <4>2, SdtGreatest
      <4>4. before # {} => Sdt!Max(before) \in SdtChannels BY <4>3, <1>14
      <4> HIDE DEF before
      <4> QED BY <4>1, <4>4, <1>13
    <3>2. \A c \in SdtChannels :
             (IF c \in sdt_ready /\ skip[c] THEN Sdt!PacketAt(c, sends, gen)
              ELSE IF c \in sends THEN gen[c] ELSE Sdt!Nothing) \in SdtTables \cup {Sdt!Nothing, Sdt!Original}
      BY <1>13, <3>1
    <3> QED BY <1>1, <3>2
  <2> QED BY <1>1, <1>2, <1>13, <2>1, <2>2, <2>3, <2>4, <2>5, <2>6 DEF SdtTypes
<1>21. SdtSource'
  <2>1. /\ ~src.needs /\ ~early' =>
              src.full \in Sdt!Sections /\ src.full.applicable /\ src.full.version = src.version
    <3>1. ~early' /\ ~src.needs => ~early /\ ~(src.full \in Sdt!Sections /\ ~src.full.applicable) BY <1>1
    <3> QED BY <3>1, <1>7 DEF SdtUseful
  <2>2. src.needs /\ ~sdt_need_others' => src.seen = {} BY <1>7, <1>11
  <2>3. sdt_need_others' => src.seen # 0..LastSection BY <1>7, <1>10, <1>11
  <2> QED BY <1>1, <1>7, <1>11, <2>1, <2>2, <2>3 DEF SdtSource
\* A channel that is rewritten and not described is in none of the sections seen.
<1>22. ASSUME NEW c \in rewritten \ found, c \notin late_ready', src.versions = {src.version}
       PROVE  SectionOf(src.version, c) \notin src.seen
  <2>1. c \in sdt_ready /\ ~skip[c] /\ generated_sdt_version[c] # src.version /\ ~src.needs
        /\ ~Sdt!Describes(src.full, c) /\ c \in SdtChannels
    BY <1>5, <1>9, <1>22
  <2>2. CASE src.updated
    <3>1. src.full \in Sdt!Sections /\ src.seen = {src.full.number} /\ src.version = src.full.version
      BY <2>2, <1>7
    <3> QED BY <3>1, <2>1, <1>8
  <2>3. CASE ~src.updated /\ SdtReads(src, s, d)
    <3>1. /\ d \in Sdt!Sections /\ src.full = d /\ src.version = d.version
          /\ src.seen = (IF SdtNewer(s) THEN {} ELSE sections_seen) \cup {d.number}
          /\ src.versions = (IF SdtNewer(s) THEN {} ELSE seen_versions) \cup {d.version}
      BY <2>3 DEF SdtReads
    <3>2. SectionOf(src.version, c) # d.number BY <3>1, <2>1, <1>8
    <3>3. c \notin late_ready /\ ~sdt_rewrite_skip[c] BY <2>1, <2>3, <1>1, <1>6, <1>22
    <3>4. CASE SdtNewer(s) \/ seen_versions = {}
      <4>1. src.seen = {d.number} BY <3>1, <3>4, <1>2 DEF SdtSource
      <4> QED BY <4>1, <3>2
    <3>5. CASE ~SdtNewer(s) /\ seen_versions # {}
      <4>1. seen_versions = {src.version} /\ sdt_version = src.version
        BY <3>1, <3>5, <1>2, <1>22 DEF SdtSource
      <4>2. SectionOf(src.version, c) \notin sections_seen
        BY <4>1, <3>3, <2>1, <1>2 DEF SdtUnseen
      <4> QED BY <4>2, <3>1, <3>2, <3>5
    <3> QED BY <3>4, <3>5
  <2>4. CASE SdtKeeps(src, s, d)
    <3>1. /\ src.version = sdt_version /\ src.updated = FALSE /\ src.seen = sections_seen
          /\ src.versions = seen_versions
      BY <2>1, <2>4 DEF SdtKeeps
    <3>2. c \notin late_ready /\ ~sdt_rewrite_skip[c] BY <2>1, <3>1, <1>1, <1>6, <1>22
    <3> QED BY <3>1, <3>2, <2>1, <1>2, <1>22 DEF SdtUnseen
  <2> QED BY <2>2, <2>3, <2>4, <1>4, <1>7
<1>23. SdtSkipped'
  <2> SUFFICES ASSUME NEW c \in SdtChannels, sdt_rewrite_skip'[c]
               PROVE  /\ c \in failed' /\ ~sdt_need_others'
                      /\ (sdt_needs_update' \/ sections_seen' = 0..LastSection)
                      /\ c \notin unlucky' => SectionOf(sdt_version', c) = -1
    BY DEF SdtSkipped
  <2>1. c \in unlucky' <=> IF sdt_rewrite_skip[c] /\ ~src.updated THEN c \in unlucky
                           ELSE c \in late_ready' \/ src.versions # {src.version}
    BY <1>1
  <2>2. CASE c \in done
    <3>1. c \notin found /\ c \in rewritten /\ ~skip[c] BY <2>2, <1>9, <1>15, <1>17
    <3>2. src.seen = 0..LastSection BY <2>2, <3>1, <1>10
    <3>3. ~sdt_need_others' BY <3>2, <1>7, <1>10, <1>11
    <3>4. c \in failed' BY <2>2, <3>1, <1>1
    <3>5. c \notin unlucky' => SectionOf(src.version, c) = -1
      <4>1. c \notin unlucky' => c \notin late_ready' /\ src.versions = {src.version}
        BY <2>1, <3>1, <1>6
      <4>2. c \notin unlucky' => SectionOf(src.version, c) \notin 0..LastSection
        BY <4>1, <3>1, <3>2, <1>22
      <4>3. src.version \in SdtVersions BY <3>1, <1>7, <1>10
      <4>4. SectionOf(src.version, c) \in -1..LastSection /\ LastSection \in Nat BY <4>3, SdtNumbers
      <4>5. SectionOf(src.version, c) \notin 0..LastSection => SectionOf(src.version, c) = -1 BY <4>4
      <4> QED BY <4>2, <4>5
    <3> QED BY <1>1, <3>2, <3>3, <3>4, <3>5
  <2>3. CASE c \notin done
    <3>1. skip[c] /\ sdt_rewrite_skip[c] /\ ~src.updated /\ c \notin found BY <2>3, <1>6, <1>9, <1>15
    <3>2. /\ c \in failed /\ ~sdt_need_others
          /\ (sdt_needs_update \/ sections_seen = 0..LastSection)
          /\ c \notin unlucky => SectionOf(sdt_version, c) = -1
      BY <3>1, <1>2 DEF SdtSkipped
    <3>3. SdtKeeps(src, s, d)
      <4>1. SdtReads(src, s, d) => src.updated = ~sdt_need_others BY DEF SdtReads
      <4> QED BY <4>1, <3>1, <3>2, <1>4
    <3>4. src.others = FALSE /\ src.version = sdt_version
          /\ (src.needs \/ src.seen = 0..LastSection)
      BY <3>2, <3>3, <1>2 DEF SdtKeeps, SdtTypes
    <3>5. rewritten = done
      <4>1. src.needs => rewritten = {} /\ done = {} BY <1>9, <1>10
      <4> QED BY <4>1, <3>4, <1>10
    <3>6. c \in failed' BY <3>1, <3>2, <1>1
    <3> QED BY <1>1, <1>11, <2>1, <3>1, <3>2, <3>4, <3>5, <3>6
  <2> QED BY <2>2, <2>3
<1>24. SdtUnseen'
  <2> SUFFICES ASSUME src.versions = {src.version}, NEW c \in sdt_ready \ late_ready',
                      ~sdt_rewrite_skip'[c], genv[c] # src.version
               PROVE  SectionOf(src.version, c) \notin src.seen
    BY <1>1 DEF SdtUnseen
  <2>1. c \in SdtChannels BY <1>9
  <2>2. c \notin done /\ ~skip[c] /\ generated_sdt_version[c] # src.version BY <2>1, <1>12, <1>15
  <2>3. c \notin found BY <2>2, <1>9
  <2>4. CASE SdtReads(src, s, d)
    <3>1. src.ok /\ ~src.needs BY <2>4 DEF SdtReads
    <3>2. c \in rewritten BY <3>1, <2>2, <1>5
    <3> QED BY <3>2, <2>3, <1>22
  <2>5. CASE SdtKeeps(src, s, d) /\ ~SdtNewer(s)
    <3>1. /\ src.version = sdt_version /\ src.updated = FALSE /\ src.seen = sections_seen
          /\ src.versions = seen_versions
      BY <2>5 DEF SdtKeeps
    <3>2. c \notin late_ready /\ ~sdt_rewrite_skip[c] BY <2>1, <2>2, <3>1, <1>1, <1>6
    <3> QED BY <3>1, <3>2, <2>2, <1>2 DEF SdtUnseen
  <2>6. CASE SdtKeeps(src, s, d) /\ SdtNewer(s)
    <3>1. src.seen = {} BY <2>6 DEF SdtKeeps
    <3> QED BY <3>1
  <2> QED BY <2>4, <2>5, <2>6, <1>4
<1>25. SdtOwned'
  <2> SUFFICES ASSUME ~early', NEW c \in SdtChannels \ failed'
               PROVE  /\ genv[c] # -1 => gen[c] = Sdt!Sdt(c, genv[c])
                      /\ sdt_sent'[c] \in {Sdt!Nothing, Sdt!Sdt(c, src.version)}
    BY <1>1 DEF SdtOwned
  <2>1. c \in SdtChannels /\ ~early BY <1>1
  <2>2. CASE c \in found
    <3>1. c \in done /\ ~skip[c] /\ ~src.needs /\ src.full \in Sdt!Sections
      BY <2>1, <2>2, <1>5, <1>8, <1>9
    <3>2. src.full.version = src.version
      <4>1. ~(src.full \in Sdt!Sections /\ ~src.full.applicable) BY <3>1, <1>1
      <4> QED BY <4>1, <3>1, <2>1, <1>7 DEF SdtUseful
    <3>3. gen[c] = Sdt!Sdt(c, src.version) /\ genv[c] = src.version BY <2>1, <2>2, <3>1, <3>2, <1>12
    <3> QED BY <2>1, <3>1, <3>3, <1>16
  <2>3. CASE c \notin found
    <3>1. c \notin failed /\ c \notin done BY <2>3, <1>1
    <3>2. gen[c] = generated_sdt[c] /\ genv[c] = generated_sdt_version[c] BY <2>1, <2>3, <3>1, <1>12
    <3>3. genv[c] # -1 => gen[c] = Sdt!Sdt(c, genv[c]) BY <3>1, <3>2, <2>1, <1>2 DEF SdtOwned
    <3>4. ~skip[c] BY <2>1, <3>1, <1>2, <1>6 DEF SdtSkipped
    <3>5. c \in sends => gen[c] = Sdt!Sdt(c, src.version)
      <4>1. c \in sends => src.ok /\ genv[c] = src.version BY <2>1, <1>12
      <4>2. c \in sends => genv[c] # -1 BY <4>1, <1>7, SdtNumbers
      <4> QED BY <4>1, <4>2, <3>3
    <3> QED BY <2>1, <3>3, <3>4, <3>5, <1>16
  <2> QED BY <2>2, <2>3
<1> QED BY <1>20, <1>21, <1>23, <1>24, <1>25 DEF SdtInv

LEMMA SdtReadies ==
  ASSUME SdtInv, NEW c \in SdtChannels, Sdt!Ready(c)
  PROVE  SdtInv'
<1>1. /\ sdt_ready' = sdt_ready \cup {c}
      /\ late_ready' = IF full_sdt_ok THEN late_ready \cup {c} ELSE late_ready
      /\ UNCHANGED <<air_version, assembling, full_sdt, full_sdt_ok, sdt_version,
                     sdt_needs_update, sdt_need_others, sections_seen, generated_sdt,
                     generated_sdt_version, sdt_rewrite_skip, sdt_sent, seen_versions, failed,
                     unlucky, early>>
  BY DEF Sdt!Ready
<1>2. SdtTypes /\ SdtSource /\ SdtSkipped /\ SdtUnseen /\ SdtOwned BY DEF SdtInv
<1>3. SdtTypes' BY <1>1, <1>2 DEF SdtTypes
<1>4. SdtSource' BY <1>1, <1>2 DEF SdtSource
<1>5. SdtSkipped' BY <1>1, <1>2 DEF SdtSkipped
<1>6. SdtOwned' BY <1>1, <1>2 DEF SdtOwned
<1>7. SdtUnseen'
  <2> SUFFICES ASSUME seen_versions = {sdt_version}, NEW b \in sdt_ready' \ late_ready',
                      ~sdt_rewrite_skip[b], generated_sdt_version[b] # sdt_version
               PROVE  SectionOf(sdt_version, b) \notin sections_seen
    BY <1>1 DEF SdtUnseen
  <2>1. full_sdt_ok BY <1>2 DEF SdtSource
  <2>2. b \in sdt_ready \ late_ready BY <2>1, <1>1
  <2> QED BY <2>2, <1>2 DEF SdtUnseen
<1> QED BY <1>3, <1>4, <1>5, <1>6, <1>7 DEF SdtInv

LEMMA SdtStays ==
  ASSUME SdtInv, air_version' \in SdtVersions,
         UNCHANGED <<assembling, full_sdt, full_sdt_ok, sdt_version, sdt_needs_update,
                     sdt_need_others, sections_seen, sdt_ready, generated_sdt,
                     generated_sdt_version, sdt_rewrite_skip, sdt_sent, seen_versions, failed,
                     late_ready, unlucky, early>>
  PROVE  SdtInv'
<1>1. SdtTypes' BY DEF SdtInv, SdtTypes
<1>2. SdtSource' BY DEF SdtInv, SdtSource
<1>3. SdtSkipped' /\ SdtUnseen' BY DEF SdtInv, SdtSkipped, SdtUnseen
<1>4. SdtOwned' BY DEF SdtInv, SdtOwned
<1> QED BY <1>1, <1>2, <1>3, <1>4 DEF SdtInv

LEMMA SdtStep == SdtInv /\ (Sdt!Next \/ UNCHANGED sdtVars) => SdtInv'
<1> SUFFICES ASSUME SdtInv, Sdt!Next \/ UNCHANGED sdtVars PROVE SdtInv' OBVIOUS
<1>1. CASE Sdt!NewVersion BY <1>1, SdtStays DEF Sdt!NewVersion
<1>2. ASSUME NEW c \in SdtChannels, Sdt!Ready(c) PROVE SdtInv' BY <1>2, SdtReadies
<1>3. ASSUME NEW s \in Sdt!OnAir \cup {Sdt!Nothing}, NEW isGiven \in BOOLEAN, Sdt!Packet(s, isGiven)
      PROVE  SdtInv'
  BY <1>3, SdtPackets
<1>4. CASE UNCHANGED sdtVars
  <2>1. air_version' \in SdtVersions BY <1>4 DEF sdtVars, SdtInv, SdtTypes
  <2> QED BY <1>4, <2>1, SdtStays DEF sdtVars
<1> QED BY <1>1, <1>2, <1>3, <1>4 DEF Sdt!Next

LEMMA SdtGoals == SdtInv => Sdt!TypeOK /\ Sdt!OwnSdt
<1> SUFFICES ASSUME SdtInv PROVE Sdt!TypeOK /\ Sdt!OwnSdt OBVIOUS
<1>1. SdtTypes /\ SdtSkipped /\ SdtOwned BY DEF SdtInv
<1>2. SdtTables \subseteq Sdt!Outputs \ {Sdt!Nothing, Sdt!Original}
  <2>1. \A c, v : Sdt!Sdt(c, v).kind = "sdt" BY DEF Sdt!Sdt
  <2>2. Sdt!Nothing.kind = "nothing" /\ Sdt!Original.kind = "original" /\ Sdt!Blank.kind = "blank"
    BY DEF Sdt!Nothing, Sdt!Original, Sdt!Blank
  <2>3. \A x \in SdtTables : x # Sdt!Nothing /\ x # Sdt!Original BY <2>1, <2>2 DEF SdtTables
  <2>4. SdtTables \subseteq Sdt!Outputs BY DEF SdtTables, Sdt!Outputs
  <2> QED BY <2>3, <2>4
<1>3. {Sdt!Nothing, Sdt!Original} \subseteq Sdt!Outputs BY DEF Sdt!Outputs
<1>4. Sdt!TypeOK
  <2>1. generated_sdt \in [SdtChannels -> Sdt!Outputs \ {Sdt!Nothing, Sdt!Original}]
    BY <1>1, <1>2 DEF SdtTypes
  <2>2. sdt_sent \in [SdtChannels -> Sdt!Outputs] BY <1>1, <1>2, <1>3 DEF SdtTypes
  <2> QED BY <1>1, <2>1, <2>2 DEF SdtTypes, Sdt!TypeOK
<1>5. Sdt!OwnSdt BY <1>1 DEF SdtSkipped, SdtOwned, Sdt!OwnSdt, Sdt!NoSection
<1> QED BY <1>4, <1>5

-----------------------------------------------------------------------------
(* EitRewrite                                                               *)

EitElements ==
    {p \in [key : Keys, version : EitVersions, last : Nat, stored : SUBSET Nat] :
        p.last = EitLast[p.version] /\ p.stored \subseteq 0..p.last /\ p.stored # {}}

EitTypes ==
    /\ eit_air \in [Keys -> EitVersions] /\ eit_assembling \in Eit!Eits \cup {Eit!NoEit}
    /\ eit_needs_update \in BOOLEAN /\ eit_packets \in Seq(EitElements)
    /\ table_to_send \in [EitChannels -> Eit!ToSet(Tables)]
    /\ section_to_send \in [EitChannels -> Nat]
    /\ eit_sent \in [EitChannels -> Eit!Eits \cup {Eit!NoEit}]
    /\ given_twice \in [Keys -> 0..2]

\* A channel sent what is about its own service.
EitOwned == \A c \in EitChannels : eit_sent[c] # Eit!NoEit => eit_sent[c].key[1] = c

EitTwice == \A k \in Keys : \E i, j \in Nat : Eit!PlacesOf(eit_packets, k) \subseteq {i, j}

\* Once a section of the version on air was stored, the section that is received is not of an
\* older one, and the first place has the version unless it is not the last element.
EitGiven ==
    \A k \in Keys : given_twice[k] > 0 =>
        /\ eit_assembling # Eit!NoEit /\ eit_assembling.key = k => eit_assembling.version = eit_air[k]
        /\ Eit!PlacesOf(eit_packets, k) # {}
        /\ \/ eit_packets[Eit!Find(eit_packets, k)].version = eit_air[k]
           \/ given_twice[k] = 1 /\ Eit!Find(eit_packets, k) < Len(eit_packets)

EitInv == EitTypes /\ EitOwned /\ EitTwice /\ EitGiven

LEMMA EitNumbers ==
  /\ Keys \subseteq Nat \X Nat /\ Tables \in Seq(Nat) /\ Tables # <<>>
  /\ EitVersions \subseteq Nat /\ 0 \in EitVersions /\ EitLast \in [EitVersions -> Nat]
  /\ Len(Tables) \in Nat /\ Len(Tables) > 0
  /\ <<>> \notin Keys
<1>1. /\ Keys \subseteq Nat \X Nat /\ Tables \in Seq(Nat) /\ Tables # <<>>
      /\ EitVersions \subseteq Nat /\ 0 \in EitVersions /\ EitLast \in [EitVersions -> Nat]
  BY EitNumbered DEF Eit!EitAssumption
<1>2. Len(Tables) \in Nat /\ Len(Tables) > 0 BY <1>1, EmptySeq, LenProperties
<1>3. <<>> \notin Nat \X Nat
  <2>1. \A a, b : <<a, b>> # <<>>
    <3>1. \A a, b : Len(<<a, b>>) = 2 OBVIOUS
    <3>2. Len(<<>>) = 0 OBVIOUS
    <3> QED BY <3>1, <3>2
  <2> QED BY <2>1
<1> QED BY <1>1, <1>2, <1>3

\* The least of a set of numbers.
LEMMA EitLeast ==
  ASSUME NEW S \in SUBSET Nat, S # {}
  PROVE  Eit!Min(S) \in S /\ \A y \in S : Eit!Min(S) <= y
<1>1. PICK m \in S : \A n \in S : ~(<<n, m>> \in OpToRel(<, Nat))
  BY NatLessThanWellFounded, WFMin
<1>2. ASSUME NEW n \in S, n < m PROVE FALSE
  <2>1. <<n, m>> \in OpToRel(<, Nat) BY <1>2 DEF OpToRel
  <2> QED BY <1>1, <2>1
<1>3. \A n \in S : m <= n BY <1>2
<1>4. \E x \in S : \A y \in S : x <= y BY <1>3
<1> QED BY <1>4 DEF Eit!Min

LEMMA EitFinds ==
  ASSUME NEW list \in Seq(EitElements), NEW k
  PROVE  /\ Eit!PlacesOf(list, k) \subseteq 1..Len(list) /\ Len(list) \in Nat
         /\ Eit!PlacesOf(list, k) = {} => Eit!Find(list, k) = 0
         /\ Eit!PlacesOf(list, k) # {} =>
               /\ Eit!Find(list, k) \in Eit!PlacesOf(list, k)
               /\ \A i \in Eit!PlacesOf(list, k) : Eit!Find(list, k) <= i
               /\ list[Eit!Find(list, k)] \in EitElements /\ list[Eit!Find(list, k)].key = k
<1>1. Len(list) \in Nat /\ \A i \in 1..Len(list) : list[i] \in EitElements BY LenProperties, ElementOfSeq
<1>2. Eit!PlacesOf(list, k) \subseteq 1..Len(list)
      /\ \A i \in Eit!PlacesOf(list, k) : list[i].key = k
  BY DEF Eit!PlacesOf
<1>3. Eit!PlacesOf(list, k) \in SUBSET Nat BY <1>1, <1>2
<1>4. Eit!PlacesOf(list, k) # {} =>
               /\ Eit!Find(list, k) \in Eit!PlacesOf(list, k)
               /\ \A i \in Eit!PlacesOf(list, k) : Eit!Find(list, k) <= i
  BY <1>3, EitLeast DEF Eit!Find
<1>5. Eit!PlacesOf(list, k) = {} => Eit!Find(list, k) = 0 BY DEF Eit!Find
<1> QED BY <1>1, <1>2, <1>4, <1>5

\* The kinds of sections.
LEMMA EitKinds ==
  /\ \A e \in Eit!Eits : /\ e.key \in Keys /\ e.version \in EitVersions /\ e.section \in Nat
                         /\ e.section <= EitLast[e.version] /\ e # Eit!NoEit
  /\ \A k \in Keys, v \in EitVersions, n \in Nat : n <= EitLast[v] => Eit!Eit(k, v, n) \in Eit!Eits
  /\ \A k, v, n : Eit!Eit(k, v, n) = [key |-> k, version |-> v, section |-> n]
<1>1. ASSUME NEW e \in Eit!Eits
      PROVE  /\ e.key \in Keys /\ e.version \in EitVersions /\ e.section \in Nat
             /\ e.section <= EitLast[e.version] /\ e # Eit!NoEit
  <2>1. PICK k \in Keys, v \in EitVersions : e \in {Eit!Eit(k, v, n) : n \in 0..EitLast[v]}
    BY DEF Eit!Eits
  <2>2. PICK n \in 0..EitLast[v] : e = Eit!Eit(k, v, n) BY <2>1
  <2>3. e.key = k /\ e.version = v /\ e.section = n BY <2>2 DEF Eit!Eit
  <2>4. Eit!NoEit.key = <<>> BY DEF Eit!NoEit
  <2>5. EitLast[v] \in Nat BY EitNumbers
  <2> QED BY <2>3, <2>4, <2>5, EitNumbers
<1>2. ASSUME NEW k \in Keys, NEW v \in EitVersions, NEW n \in Nat, n <= EitLast[v]
      PROVE  Eit!Eit(k, v, n) \in Eit!Eits
  <2>1. EitLast[v] \in Nat BY EitNumbers
  <2>2. n \in 0..EitLast[v] BY <1>2, <2>1
  <2>3. Eit!Eit(k, v, n) \in {Eit!Eit(k, v, m) : m \in 0..EitLast[v]} BY <2>2
  <2> DEFINE U == {{Eit!Eit(l, w, m) : m \in 0..EitLast[w]} : l \in Keys, w \in EitVersions}
  <2>4. {Eit!Eit(k, v, m) : m \in 0..EitLast[v]} \in U OBVIOUS
  <2>5. Eit!Eits = UNION U BY DEF Eit!Eits
  <2> HIDE DEF U
  <2> QED BY <2>3, <2>4, <2>5
<1> QED BY <1>1, <1>2 DEF Eit!Eit

LEMMA EitInitial == Eit!Init => EitInv
<1> SUFFICES ASSUME Eit!Init PROVE EitInv OBVIOUS
<1>1. /\ eit_air = [k \in Keys |-> 0] /\ eit_assembling = Eit!NoEit /\ eit_needs_update = FALSE
      /\ eit_packets = <<>> /\ table_to_send = [c \in EitChannels |-> Tables[1]]
      /\ section_to_send = [c \in EitChannels |-> 0]
      /\ eit_sent = [c \in EitChannels |-> Eit!NoEit] /\ given_twice = [k \in Keys |-> 0]
  BY DEF Eit!Init
<1>2. Tables[1] \in Eit!ToSet(Tables) BY EitNumbers DEF Eit!ToSet
<1>3. eit_packets \in Seq(EitElements) /\ Len(eit_packets) = 0 BY <1>1, EmptySeq
<1>4. EitTypes
  <2>1. table_to_send \in [EitChannels -> Eit!ToSet(Tables)] BY <1>1, <1>2
  <2>2. section_to_send \in [EitChannels -> Nat] /\ given_twice \in [Keys -> 0..2]
        /\ eit_air \in [Keys -> EitVersions]
    BY <1>1, EitNumbers
  <2>3. eit_sent \in [EitChannels -> Eit!Eits \cup {Eit!NoEit}] BY <1>1
  <2> QED BY <1>1, <1>3, <2>1, <2>2, <2>3 DEF EitTypes
<1>5. EitOwned BY <1>1 DEF EitOwned
<1>6. EitTwice
  <2>1. \A k : Eit!PlacesOf(eit_packets, k) = {} BY <1>3 DEF Eit!PlacesOf
  <2>2. 0 \in Nat OBVIOUS
  <2> QED BY <2>1, <2>2 DEF EitTwice
<1>7. EitGiven BY <1>1 DEF EitGiven
<1> QED BY <1>4, <1>5, <1>6, <1>7 DEF EitInv

-----------------------------------------------------------------------------
(* What storing a section does to the list.                                 *)

\* The list after section e was stored at place i.
EitAfter(list, new, e, i) ==
    /\ new \in Seq(EitElements) /\ i \in 1..Len(list) + 1 /\ i \in 1..Len(new)
    /\ new[i].key = e.key /\ new[i].version = e.version
    /\ \A j \in 1..Len(list) : j # i => new[j] = list[j]
    /\ Len(new) = IF i = Len(list) + 1 THEN Len(list) + 1 ELSE Len(list)
    /\ Eit!PlacesOf(new, e.key) = Eit!PlacesOf(list, e.key) \cup {i}
    /\ \A k : k # e.key => Eit!PlacesOf(new, k) = Eit!PlacesOf(list, k)
    /\ i = Len(list) + 1 => Eit!PlacesOf(list, e.key) \subseteq {Len(list)}
    /\ i # Len(list) + 1 => /\ i \in Eit!PlacesOf(list, e.key) /\ i < Len(list)
                            /\ \A j \in Eit!PlacesOf(list, e.key) : i <= j

LEMMA EitStores ==
  ASSUME NEW list \in Seq(EitElements), NEW e \in Eit!Eits
  PROVE  EitAfter(list, Eit!Stored(list, e), e, Eit!PlaceFor(list, e.key))
<1> DEFINE i == Eit!PlaceFor(list, e.key)
           new == Eit!Stored(list, e)
           before == Eit!PlacesOf(list, e.key) \ {Len(list)}
           old == IF i <= Len(list) /\ list[i].version = e.version THEN list[i].stored ELSE {}
           p == [key |-> e.key, version |-> e.version, last |-> EitLast[e.version],
                 stored |-> old \cup {e.section}]
<1>1. Len(list) \in Nat /\ \A j \in 1..Len(list) : list[j] \in EitElements BY LenProperties, ElementOfSeq
<1>2. Eit!PlacesOf(list, e.key) \subseteq 1..Len(list)
      /\ \A j \in Eit!PlacesOf(list, e.key) : list[j].key = e.key
  BY DEF Eit!PlacesOf
<1>3. i = IF before = {} THEN Len(list) + 1 ELSE Eit!Min(before) BY DEF Eit!PlaceFor
<1>4. new = IF i <= Len(list) THEN [list EXCEPT ![i] = p] ELSE Append(list, p) BY DEF Eit!Stored
<1>5. before # {} => /\ i \in before /\ \A y \in before : i <= y
  <2>1. before \in SUBSET Nat BY <1>1, <1>2
  <2> QED BY <2>1, <1>3, EitLeast
<1>6. /\ i = Len(list) + 1 => Eit!PlacesOf(list, e.key) \subseteq {Len(list)}
      /\ i # Len(list) + 1 => /\ i \in Eit!PlacesOf(list, e.key) /\ i < Len(list) /\ i \in 1..Len(list)
                              /\ \A j \in Eit!PlacesOf(list, e.key) : i <= j
  <2>1. CASE before = {} BY <2>1, <1>3
  <2>2. CASE before # {}
    <3>1. i \in Eit!PlacesOf(list, e.key) /\ i # Len(list) BY <2>2, <1>5
    <3>2. i \in 1..Len(list) /\ i < Len(list) BY <3>1, <1>1, <1>2
    <3>3. \A j \in Eit!PlacesOf(list, e.key) : j \in before \/ j = Len(list) OBVIOUS
    <3>4. \A j \in Eit!PlacesOf(list, e.key) : i <= j BY <2>2, <3>2, <3>3, <1>1, <1>5
    <3> QED BY <3>1, <3>2, <3>4, <1>1
  <2> QED BY <2>1, <2>2
<1>7. i \in 1..Len(list) + 1 BY <1>1, <1>6
<1>8. e.key \in Keys /\ e.version \in EitVersions /\ e.section \in Nat /\ e.section <= EitLast[e.version]
      /\ EitLast[e.version] \in Nat
  BY EitKinds, EitNumbers
<1> HIDE DEF i, new, before
<1>9. p \in EitElements
  <2>1. old \subseteq 0..EitLast[e.version]
    <3>1. CASE i <= Len(list) /\ list[i].version = e.version
      <4>1. list[i] \in EitElements BY <3>1, <1>1, <1>7
      <4>2. list[i].stored \subseteq 0..EitLast[e.version] BY <3>1, <4>1 DEF EitElements
      <4> QED BY <3>1, <4>2
    <3> QED BY <3>1
  <2> DEFINE stored == old \cup {e.section}
  <2>2. stored \subseteq 0..EitLast[e.version] /\ stored # {} /\ stored \in SUBSET Nat BY <2>1, <1>8
  <2>3. p = [key |-> e.key, version |-> e.version, last |-> EitLast[e.version], stored |-> stored] OBVIOUS
  <2> HIDE DEF stored, p
  <2>4. p \in [key : Keys, version : EitVersions, last : Nat, stored : SUBSET Nat] BY <2>2, <2>3, <1>8
  <2>5. p.version = e.version /\ p.last = EitLast[e.version] /\ p.stored = stored BY <2>3
  <2> QED BY <2>2, <2>4, <2>5 DEF EitElements
<1>10. p.key = e.key /\ p.version = e.version OBVIOUS
<1> HIDE DEF p
<1>11. /\ new \in Seq(EitElements) /\ i \in 1..Len(new) /\ new[i] = p
       /\ \A j \in 1..Len(list) : j # i => new[j] = list[j]
       /\ Len(new) = IF i = Len(list) + 1 THEN Len(list) + 1 ELSE Len(list)
  <2>1. CASE i = Len(list) + 1
    <3>1. new = Append(list, p) BY <2>1, <1>1, <1>4
    <3> QED BY <2>1, <3>1, <1>1, <1>9, AppendProperties
  <2>2. CASE i # Len(list) + 1
    <3>1. i \in 1..Len(list) /\ new = [list EXCEPT ![i] = p] BY <2>2, <1>1, <1>4, <1>7
    <3>2. new \in Seq(EitElements) /\ Len(new) = Len(list) BY <3>1, <1>9, ExceptSeq
    <3>3. new[i] = p /\ \A j \in 1..Len(list) : j # i => new[j] = list[j] BY <3>1, <1>9, ExceptSeq
    <3> QED BY <2>2, <3>1, <3>2, <3>3
  <2> QED BY <2>1, <2>2
<1>12. \A k : Eit!PlacesOf(new, k) = {j \in 1..Len(new) : new[j].key = k}
       /\ Eit!PlacesOf(list, k) = {j \in 1..Len(list) : list[j].key = k}
  BY DEF Eit!PlacesOf
<1>13. Eit!PlacesOf(new, e.key) = Eit!PlacesOf(list, e.key) \cup {i}
  <2>1. \A j \in 1..Len(new) : j = i \/ (j \in 1..Len(list) /\ new[j] = list[j]) BY <1>1, <1>7, <1>11
  <2>2. \A j \in 1..Len(list) : j \in 1..Len(new) BY <1>1, <1>11
  <2> QED BY <2>1, <2>2, <1>10, <1>11, <1>12
<1>14. ASSUME NEW k, k # e.key PROVE Eit!PlacesOf(new, k) = Eit!PlacesOf(list, k)
  <2>1. \A j \in 1..Len(new) : j = i \/ (j \in 1..Len(list) /\ new[j] = list[j]) BY <1>1, <1>7, <1>11
  <2>2. \A j \in 1..Len(list) : j \in 1..Len(new) BY <1>1, <1>11
  <2>3. new[i].key # k BY <1>10, <1>11, <1>14
  <2>4. i \in 1..Len(list) => list[i].key # k
    <3>1. i \in 1..Len(list) => i # Len(list) + 1 BY <1>1
    <3> QED BY <3>1, <1>2, <1>6, <1>14
  <2>5. \A j \in 1..Len(new) : new[j].key = k => j \in 1..Len(list) /\ list[j].key = k
    BY <2>1, <2>3
  <2>6. \A j \in 1..Len(list) : list[j].key = k => j # i /\ new[j] = list[j]
    BY <2>4, <1>11
  <2>7. \A j \in 1..Len(list) : list[j].key = k => j \in 1..Len(new) /\ new[j].key = k
    BY <2>2, <2>6
  <2> QED BY <2>5, <2>7, <1>12
<1>15. EitAfter(list, new, e, i) BY <1>6, <1>7, <1>10, <1>11, <1>13, <1>14 DEF EitAfter
<1> QED BY <1>15 DEF i, new

-----------------------------------------------------------------------------
(* What a channel sends.                                                    *)

LEMMA EitMod ==
  ASSUME NEW n \in Nat, n > 0, NEW k \in Nat
  PROVE  k % n \in 0..n - 1 /\ (k < n => k % n = k /\ (k + n) % n = k)
<1>1. k % n \in 0..n - 1 BY SMT
<1>2. k < n => k % n = k BY SMT
<1>3. k < n => (k + n) % n = k BY SMT
<1> QED BY <1>1, <1>2, <1>3

LEMMA EitTables ==
  ASSUME NEW t \in Eit!ToSet(Tables)
  PROVE  /\ Eit!IndexOfTable(t) \in 1..Len(Tables)
         /\ \A j \in Nat : Tables[((Eit!IndexOfTable(t) - 1 + j) % Len(Tables)) + 1] \in Eit!ToSet(Tables)
         /\ Eit!NextTable(t) \in Eit!ToSet(Tables)
         /\ \A c : \A list \in Seq(EitElements) : Eit!TableFrom(list, c, t) \in Eit!ToSet(Tables)
<1> DEFINE n == Len(Tables)
<1>1. n \in Nat /\ n > 0 BY EitNumbers
<1>2. Eit!ToSet(Tables) = {Tables[i] : i \in 1..n} BY EitNumbers DEF Eit!ToSet
<1> HIDE DEF n
<1>3. Eit!IndexOfTable(t) \in 1..n
  <2>1. \E i \in 1..n : Tables[i] = t BY <1>2
  <2> QED BY <2>1 DEF Eit!IndexOfTable, n
<1>4. \A k \in Nat : Tables[(k % n) + 1] \in Eit!ToSet(Tables)
  <2> SUFFICES ASSUME NEW k \in Nat PROVE Tables[(k % n) + 1] \in Eit!ToSet(Tables) OBVIOUS
  <2>1. k % n \in 0..n - 1 BY <1>1, EitMod
  <2>2. (k % n) + 1 \in 1..n BY <2>1, <1>1
  <2> QED BY <2>2, <1>2
<1>5. \A j \in Nat : Tables[((Eit!IndexOfTable(t) - 1 + j) % n) + 1] \in Eit!ToSet(Tables)
  <2> SUFFICES ASSUME NEW j \in Nat
               PROVE  Tables[((Eit!IndexOfTable(t) - 1 + j) % n) + 1] \in Eit!ToSet(Tables)
    OBVIOUS
  <2>1. Eit!IndexOfTable(t) - 1 + j \in Nat BY <1>1, <1>3
  <2> QED BY <2>1, <1>4
<1>6. Eit!NextTable(t) \in Eit!ToSet(Tables)
  <2>1. Eit!IndexOfTable(t) \in Nat BY <1>1, <1>3
  <2>2. Eit!NextTable(t) = Tables[(Eit!IndexOfTable(t) % n) + 1] BY DEF Eit!NextTable, n
  <2> QED BY <2>1, <2>2, <1>4
<1>7. ASSUME NEW list \in Seq(EitElements), NEW c
      PROVE  Eit!TableFrom(list, c, t) \in Eit!ToSet(Tables)
  <2> DEFINE from(j) == Tables[((Eit!IndexOfTable(t) - 1 + j) % Len(Tables)) + 1]
             stored == {j \in 0..Len(Tables) - 1 : Eit!Find(list, <<c, from(j)>>) # 0}
  <2>1. Eit!TableFrom(list, c, t) = IF stored = {} THEN t ELSE from(Eit!Min(stored))
    BY DEF Eit!TableFrom
  <2>2. stored \in SUBSET Nat BY <1>1 DEF n
  <2>3. stored # {} => Eit!Min(stored) \in stored BY <2>2, EitLeast
  <2>4. stored # {} => Eit!Min(stored) \in Nat BY <2>2, <2>3
  <2>5. stored # {} => from(Eit!Min(stored)) \in Eit!ToSet(Tables) BY <2>4, <1>5 DEF n
  <2> QED BY <2>1, <2>5
<1> QED BY <1>3, <1>5, <1>6, <1>7 DEF n

\* The first stored section from one on, round the others.
LEMMA EitSection ==
  ASSUME NEW l \in Nat, NEW stored, stored \subseteq 0..l, stored # {}, NEW a \in Nat
  PROVE  LET start == a % (l + 1)
             n == (start + Eit!Min({j \in 0..l : (start + j) % (l + 1) \in stored})) % (l + 1)
         IN  n \in 0..l /\ (n + 1) % (l + 1) \in Nat
<1> DEFINE m == l + 1
           start == a % m
           S == {j \in 0..l : (start + j) % m \in stored}
<1>1. m \in Nat /\ m > 0 /\ m - 1 = l OBVIOUS
<1> HIDE DEF m
<1>2. start \in 0..l BY <1>1, EitMod
<1> HIDE DEF start
<1>3. S # {}
  <2>1. PICK x \in stored : TRUE OBVIOUS
  <2>2. x \in Nat /\ x < m BY <1>1
  <2>3. CASE x >= start
    <3>1. x - start \in 0..l /\ start + (x - start) = x BY <2>2, <2>3, <1>1, <1>2
    <3>2. x % m = x BY <2>2, <1>1, EitMod
    <3>3. x - start \in S BY <3>1, <3>2
    <3> QED BY <3>3
  <2>4. CASE x < start
    <3>1. x + m - start \in 0..l /\ start + (x + m - start) = x + m BY <2>2, <2>4, <1>1, <1>2
    <3>2. (x + m) % m = x BY <2>2, <1>1, EitMod
    <3>3. x + m - start \in S BY <3>1, <3>2
    <3> QED BY <3>3
  <2>5. x >= start \/ x < start BY <2>2, <1>2
  <2> QED BY <2>3, <2>4, <2>5
<1>4. S \subseteq 0..l OBVIOUS
<1>5. Eit!Min(S) \in S
  <2>1. S \in SUBSET Nat BY <1>4
  <2> QED BY <2>1, <1>3, EitLeast
<1> HIDE DEF S
<1>6. start + Eit!Min(S) \in Nat
  <2>1. Eit!Min(S) \in 0..l BY <1>4, <1>5
  <2>2. start \in Nat /\ Eit!Min(S) \in Nat BY <2>1, <1>2
  <2> QED BY <2>2
<1> DEFINE n == (start + Eit!Min(S)) % m
<1>7. n \in 0..l BY <1>1, <1>6, EitMod
<1>8. (n + 1) % m \in Nat
  <2>1. n + 1 \in Nat BY <1>7
  <2> HIDE DEF n
  <2>2. (n + 1) % m \in 0..m - 1 BY <2>1, <1>1, EitMod
  <2> QED BY <2>2, <1>1
<1> QED BY <1>7, <1>8 DEF m, start, S

LEMMA EitTurn ==
  ASSUME EitTypes, EitOwned, NEW list \in Seq(EitElements), NEW c \in EitChannels
  PROVE  LET turn == Eit!Turn(list, c)
         IN  /\ turn.table \in Eit!ToSet(Tables) /\ turn.section \in Nat
             /\ turn.sent \in Eit!Eits \cup {Eit!NoEit}
             /\ turn.sent # Eit!NoEit => turn.sent.key[1] = c
<1> DEFINE t == Eit!TableFrom(list, c, table_to_send[c])
           i == Eit!Find(list, <<c, t>>)
           p == list[i]
           start == section_to_send[c] % (p.last + 1)
           S == {j \in 0..p.last : (start + j) % (p.last + 1) \in p.stored}
           n == (start + Eit!Min(S)) % (p.last + 1)
           then == (n + 1) % (p.last + 1)
<1>1. Eit!Turn(list, c) =
        IF i = 0 THEN [table |-> t, section |-> section_to_send[c], sent |-> eit_sent[c]]
        ELSE [table |-> IF then = 0 THEN Eit!NextTable(t) ELSE t, section |-> then,
              sent |-> Eit!Eit(p.key, p.version, n)]
  BY DEF Eit!Turn
<1>2. section_to_send[c] \in Nat /\ table_to_send[c] \in Eit!ToSet(Tables)
      /\ eit_sent[c] \in Eit!Eits \cup {Eit!NoEit}
  BY DEF EitTypes
<1>3. t \in Eit!ToSet(Tables) /\ Eit!NextTable(t) \in Eit!ToSet(Tables) BY <1>2, EitTables
<1> HIDE DEF t
<1>4. CASE i = 0
  <2>1. Eit!Turn(list, c) = [table |-> t, section |-> section_to_send[c], sent |-> eit_sent[c]]
    BY <1>1, <1>4
  <2> QED BY <2>1, <1>2, <1>3 DEF EitOwned
<1>5. CASE i # 0
  <2>1. p \in EitElements /\ p.key = <<c, t>> BY <1>5, EitFinds
  <2> HIDE DEF p
  <2>2. p.last \in Nat /\ p.last = EitLast[p.version] /\ p.stored \subseteq 0..p.last /\ p.stored # {}
        /\ p.key \in Keys /\ p.version \in EitVersions
    BY <2>1 DEF EitElements
  <2> DEFINE l == p.last
  <2>3. l \in Nat /\ p.stored \subseteq 0..l BY <2>2
  <2>4. n \in 0..l /\ then \in Nat BY <2>2, <2>3, <1>2, EitSection
  <2> HIDE DEF n, then
  <2>10. Eit!Eit(p.key, p.version, n) \in Eit!Eits BY <2>2, <2>4, EitKinds
  <2>11. Eit!Eit(p.key, p.version, n).key = <<c, t>> BY <2>1, EitKinds
  <2>12. Eit!Turn(list, c).table \in Eit!ToSet(Tables) /\ Eit!Turn(list, c).section = then
         /\ Eit!Turn(list, c).sent = Eit!Eit(p.key, p.version, n)
    BY <1>1, <1>3, <1>5
  <2> QED BY <2>4, <2>10, <2>11, <2>12
<1> QED BY <1>4, <1>5

-----------------------------------------------------------------------------
(* The steps.                                                               *)

\* Where the sections of a service and table are found after one of another was stored.
LEMMA EitElsewhere ==
  ASSUME NEW list \in Seq(EitElements), NEW new, NEW e \in Eit!Eits, NEW i, EitAfter(list, new, e, i),
         NEW k, k # e.key, Eit!PlacesOf(list, k) # {}
  PROVE  /\ Eit!PlacesOf(new, k) # {} /\ Eit!Find(new, k) = Eit!Find(list, k)
         /\ new[Eit!Find(new, k)] = list[Eit!Find(list, k)] /\ Len(list) <= Len(new)
<1>1. /\ new \in Seq(EitElements) /\ i \in 1..Len(new) /\ new[i].key = e.key
      /\ \A j \in 1..Len(list) : j # i => new[j] = list[j]
      /\ Len(new) = IF i = Len(list) + 1 THEN Len(list) + 1 ELSE Len(list)
      /\ Eit!PlacesOf(new, k) = Eit!PlacesOf(list, k)
  BY DEF EitAfter
<1>2. Len(list) \in Nat /\ Eit!Find(list, k) \in Eit!PlacesOf(list, k)
      /\ Eit!Find(list, k) \in 1..Len(list)
  BY EitFinds
<1>3. Eit!Find(new, k) = Eit!Find(list, k) BY <1>1 DEF Eit!Find
<1>4. new[Eit!Find(list, k)].key = k BY <1>1, <1>2 DEF Eit!PlacesOf
<1>5. Eit!Find(list, k) # i BY <1>1, <1>4
<1>6. Len(list) <= Len(new) BY <1>1, <1>2
<1> QED BY <1>1, <1>2, <1>3, <1>5, <1>6

\* And after one of the same was stored: the first place has the version stored, unless the list
\* got a second place for it.
LEMMA EitHere ==
  ASSUME NEW list \in Seq(EitElements), NEW new, NEW e \in Eit!Eits, NEW i, EitAfter(list, new, e, i)
  PROVE  /\ Eit!PlacesOf(new, e.key) # {}
         /\ \/ new[Eit!Find(new, e.key)].version = e.version
            \/ Eit!Find(new, e.key) < Len(new)
         /\ Eit!PlacesOf(list, e.key) # {}
            /\ (\/ list[Eit!Find(list, e.key)].version = e.version
                \/ Eit!Find(list, e.key) < Len(list))
            => new[Eit!Find(new, e.key)].version = e.version
<1> DEFINE k == e.key
           was == Eit!PlacesOf(list, k)
           is == Eit!PlacesOf(new, k)
<1>1. /\ new \in Seq(EitElements) /\ i \in 1..Len(list) + 1 /\ i \in 1..Len(new) /\ new[i].version = e.version
      /\ \A j \in 1..Len(list) : j # i => new[j] = list[j]
      /\ Len(new) = IF i = Len(list) + 1 THEN Len(list) + 1 ELSE Len(list)
      /\ is = was \cup {i}
      /\ i = Len(list) + 1 => was \subseteq {Len(list)}
      /\ i # Len(list) + 1 => i \in was /\ i < Len(list) /\ \A j \in was : i <= j
  BY DEF EitAfter
<1>2. Len(list) \in Nat /\ was \subseteq 1..Len(list)
      /\ (was # {} => Eit!Find(list, k) \in was /\ \A j \in was : Eit!Find(list, k) <= j)
  BY EitFinds
<1>3. is # {} => Eit!Find(new, k) \in is /\ \A j \in is : Eit!Find(new, k) <= j BY <1>1, EitFinds
<1> HIDE DEF k, was, is
<1>4. Eit!Find(new, k) \in is /\ \A j \in is : Eit!Find(new, k) <= j BY <1>1, <1>3
<1>5. CASE i # Len(list) + 1
  <2>1. Eit!Find(new, k) = i
    <3>1. i \in was /\ i \in is /\ i \in Nat /\ (\A j \in was : i <= j) BY <1>1, <1>2, <1>5
    <3> DEFINE f == Eit!Find(new, k)
    <3>2. f \in is /\ f <= i BY <3>1, <1>4
    <3>3. is = was BY <3>1, <1>1
    <3> HIDE DEF f
    <3>4. f \in was BY <3>2, <3>3
    <3>6. f \in 1..Len(list) BY <3>4, <1>2
    <3>7. f \in Nat /\ i <= f BY <3>1, <3>4, <3>6, <1>2
    <3>5. f = i BY <3>1, <3>2, <3>7
    <3> QED BY <3>5 DEF f
  <2> QED BY <2>1, <1>1, <1>4 DEF k, was, is
<1>6. CASE i = Len(list) + 1 /\ was = {}
  <2>1. Eit!Find(new, k) = i BY <1>1, <1>4, <1>6
  <2> QED BY <2>1, <1>1, <1>4, <1>6 DEF k, was, is
<1>7. CASE i = Len(list) + 1 /\ was # {}
  <2>1. was = {Len(list)} BY <1>1, <1>7
  <2>2. Eit!Find(list, k) = Len(list) BY <2>1, <1>2
  <2>3. Eit!Find(new, k) = Len(list)
    <3>1. is = {Len(list), Len(list) + 1} BY <2>1, <1>1, <1>7
    <3>2. Eit!Find(new, k) <= Len(list) BY <3>1, <1>4
    <3> QED BY <3>1, <3>2, <1>2, <1>4
  <2>4. Len(new) = Len(list) + 1 BY <1>1, <1>7
  <2>5. Len(list) \in 1..Len(list) /\ Len(list) # i BY <2>1, <1>2, <1>7
  <2>6. new[Len(list)] = list[Len(list)] BY <2>5, <1>1
  <2>7. ~(Len(list) < Len(list)) /\ Len(list) < Len(new) BY <2>4, <1>2
  <2> QED BY <2>2, <2>3, <2>6, <2>7, <1>4 DEF k, was, is
<1> QED BY <1>5, <1>6, <1>7

LEMMA EitTwo ==
  ASSUME NEW g \in 0..2
  PROVE  Eit!Min({2, g + 1}) \in 1..2 /\ (g = 0 => Eit!Min({2, g + 1}) = 1)
<1>1. {2, g + 1} \in SUBSET Nat /\ {2, g + 1} # {} OBVIOUS
<1>2. Eit!Min({2, g + 1}) \in {2, g + 1} /\ \A y \in {2, g + 1} : Eit!Min({2, g + 1}) <= y
  BY <1>1, EitLeast
<1> DEFINE m == Eit!Min({2, g + 1})
<1>3. (m = 2 \/ m = g + 1) /\ m <= 2 /\ m <= g + 1 BY <1>2
<1> HIDE DEF m
<1>4. m \in 1..2 /\ (g = 0 => m = 1) BY <1>3
<1> QED BY <1>4 DEF m

LEMMA EitPackets ==
  ASSUME EitInv, NEW s \in Eit!Eits \cup {Eit!NoEit}, NEW isGiven \in BOOLEAN, Eit!Packet(s, isGiven),
         s # Eit!NoEit => s.version = eit_air[s.key]
  PROVE  EitInv'
<1> DEFINE e == eit_assembling
           wanted == eit_needs_update \/ Eit!NeedUpdate(eit_packets, s)
           stores == wanted /\ isGiven /\ Eit!NeedUpdate(eit_packets, e)
           list == IF stores THEN Eit!Stored(eit_packets, e) ELSE eit_packets
           counts == stores /\ e.version = eit_air[e.key]
           i == Eit!PlaceFor(eit_packets, e.key)
<1>1. /\ eit_packets' = list /\ eit_needs_update' = (wanted /\ ~stores)
      /\ eit_assembling' = IF ~wanted THEN Eit!NoEit ELSE IF s # Eit!NoEit THEN s
                           ELSE IF isGiven THEN Eit!NoEit ELSE eit_assembling
      /\ given_twice' = IF counts THEN [given_twice EXCEPT ![e.key] = Eit!Min({2, @ + 1})]
                        ELSE given_twice
      /\ IF s # Eit!NoEit
         THEN /\ table_to_send' = [c \in EitChannels |-> Eit!Turn(list, c).table]
              /\ section_to_send' = [c \in EitChannels |-> Eit!Turn(list, c).section]
              /\ eit_sent' = [c \in EitChannels |-> Eit!Turn(list, c).sent]
         ELSE UNCHANGED <<table_to_send, section_to_send, eit_sent>>
      /\ eit_air' = eit_air
  BY DEF Eit!Packet
<1>2. EitTypes /\ EitOwned /\ EitTwice /\ EitGiven BY DEF EitInv
<1>3. stores => e \in Eit!Eits
  <2>1. stores => e # Eit!NoEit BY DEF Eit!NeedUpdate
  <2> QED BY <2>1, <1>2 DEF EitTypes
<1>4. eit_packets \in Seq(EitElements) BY <1>2 DEF EitTypes
<1>5. stores => EitAfter(eit_packets, list, e, i) BY <1>3, <1>4, EitStores
<1>6. ~stores => list = eit_packets /\ given_twice' = given_twice BY <1>1
<1>7. eit_assembling' \in {Eit!NoEit, s} \/ (eit_assembling' = eit_assembling /\ ~stores) BY <1>1
<1>8. /\ eit_needs_update' \in BOOLEAN /\ (counts => stores)
      /\ (stores /\ ~counts => e.version # eit_air[e.key])
      /\ (counts => e.version = eit_air[e.key])
  BY <1>1, <1>2 DEF EitTypes
<1> HIDE DEF stores, counts, wanted, list, e, i
<1>9. list \in Seq(EitElements) BY <1>4, <1>5, <1>6 DEF EitAfter
<1>10. \A c \in EitChannels : /\ Eit!Turn(list, c).table \in Eit!ToSet(Tables)
                              /\ Eit!Turn(list, c).section \in Nat
                              /\ Eit!Turn(list, c).sent \in Eit!Eits \cup {Eit!NoEit}
                              /\ Eit!Turn(list, c).sent # Eit!NoEit => Eit!Turn(list, c).sent.key[1] = c
  BY <1>2, <1>9, EitTurn
<1>11. given_twice \in [Keys -> 0..2] BY <1>2 DEF EitTypes
<1>12. counts => e \in Eit!Eits /\ e.key \in Keys BY <1>3, <1>8, EitKinds
<1>13. /\ given_twice' \in [Keys -> 0..2]
       /\ \A k \in Keys : /\ ~(counts /\ k = e.key) => given_twice'[k] = given_twice[k]
                          /\ counts /\ k = e.key /\ given_twice[k] = 0 => given_twice'[k] = 1
  <2>1. CASE counts
    <3>1. given_twice[e.key] \in 0..2 BY <2>1, <1>11, <1>12
    <3> DEFINE m == Eit!Min({2, given_twice[e.key] + 1})
    <3>2. m \in 0..2 /\ (given_twice[e.key] = 0 => m = 1) BY <3>1, EitTwo
    <3>3. given_twice' = [given_twice EXCEPT ![e.key] = m] BY <2>1, <1>1
    <3> HIDE DEF m
    <3> QED BY <3>2, <3>3, <2>1, <1>11, <1>12
  <2>2. CASE ~counts BY <2>2, <1>1, <1>11
  <2> QED BY <2>1, <2>2
<1>20. EitTypes'
  <2>1. eit_assembling' \in Eit!Eits \cup {Eit!NoEit} BY <1>2, <1>7 DEF EitTypes
  <2>2. /\ table_to_send' \in [EitChannels -> Eit!ToSet(Tables)]
        /\ section_to_send' \in [EitChannels -> Nat]
        /\ eit_sent' \in [EitChannels -> Eit!Eits \cup {Eit!NoEit}]
    <3>1. CASE s # Eit!NoEit
      <4>1. /\ table_to_send' = [c \in EitChannels |-> Eit!Turn(list, c).table]
            /\ section_to_send' = [c \in EitChannels |-> Eit!Turn(list, c).section]
            /\ eit_sent' = [c \in EitChannels |-> Eit!Turn(list, c).sent]
        BY <3>1, <1>1
      <4>2. table_to_send' \in [EitChannels -> Eit!ToSet(Tables)] BY <4>1, <1>10
      <4>3. section_to_send' \in [EitChannels -> Nat] BY <4>1, <1>10
      <4>4. eit_sent' \in [EitChannels -> Eit!Eits \cup {Eit!NoEit}] BY <4>1, <1>10
      <4> QED BY <4>2, <4>3, <4>4
    <3>2. CASE s = Eit!NoEit BY <3>2, <1>1, <1>2 DEF EitTypes
    <3> QED BY <3>1, <3>2
  <2>3. eit_air' \in [Keys -> EitVersions] /\ eit_packets' \in Seq(EitElements)
    BY <1>1, <1>2, <1>9 DEF EitTypes
  <2> QED BY <2>1, <2>2, <2>3, <1>8, <1>13 DEF EitTypes
<1>21. EitOwned'
  <2>1. CASE s # Eit!NoEit
    <3>1. eit_sent' = [c \in EitChannels |-> Eit!Turn(list, c).sent] BY <2>1, <1>1
    <3> QED BY <3>1, <1>10 DEF EitOwned
  <2>2. CASE s = Eit!NoEit BY <2>2, <1>1, <1>2 DEF EitOwned
  <2> QED BY <2>1, <2>2
<1>22. EitTwice'
  <2> SUFFICES ASSUME NEW k \in Keys
               PROVE  \E a, b \in Nat : Eit!PlacesOf(list, k) \subseteq {a, b}
    BY <1>1 DEF EitTwice, Eit!PlacesOf
  <2>1. \E a, b \in Nat : Eit!PlacesOf(eit_packets, k) \subseteq {a, b} BY <1>2 DEF EitTwice
  <2>2. CASE ~stores BY <2>1, <2>2, <1>6
  <2>3. CASE stores /\ k # e.key BY <2>1, <2>3, <1>5 DEF EitAfter
  <2>4. CASE stores /\ k = e.key /\ i = Len(eit_packets) + 1
    <3>1. Eit!PlacesOf(list, k) \subseteq {Len(eit_packets), i} BY <2>4, <1>5 DEF EitAfter
    <3>2. Len(eit_packets) \in Nat BY <1>4, LenProperties
    <3>3. i \in Nat BY <3>2, <2>4
    <3> QED BY <3>1, <3>2, <3>3
  <2>5. CASE stores /\ k = e.key /\ i # Len(eit_packets) + 1
    <3>1. Eit!PlacesOf(list, k) = Eit!PlacesOf(eit_packets, k) BY <2>5, <1>5 DEF EitAfter
    <3> QED BY <3>1, <2>1
  <2> QED BY <2>2, <2>3, <2>4, <2>5
<1>23. EitGiven'
  <2> SUFFICES ASSUME NEW k \in Keys, given_twice'[k] > 0
               PROVE  /\ eit_assembling' # Eit!NoEit /\ eit_assembling'.key = k =>
                             eit_assembling'.version = eit_air[k]
                      /\ Eit!PlacesOf(list, k) # {}
                      /\ \/ list[Eit!Find(list, k)].version = eit_air[k]
                         \/ given_twice'[k] = 1 /\ Eit!Find(list, k) < Len(list)
    BY <1>1 DEF EitGiven, Eit!PlacesOf, Eit!Find
  <2>1. given_twice[k] \in 0..2 /\ given_twice'[k] \in 0..2 BY <1>11, <1>13
  <2>2. given_twice[k] > 0 =>
          /\ e # Eit!NoEit /\ e.key = k => e.version = eit_air[k]
          /\ Eit!PlacesOf(eit_packets, k) # {}
          /\ \/ eit_packets[Eit!Find(eit_packets, k)].version = eit_air[k]
             \/ given_twice[k] = 1 /\ Eit!Find(eit_packets, k) < Len(eit_packets)
    BY <1>2 DEF EitGiven, e
  <2>3. CASE ~stores
    <3>1. given_twice'[k] = given_twice[k] /\ list = eit_packets BY <2>3, <1>6
    <3>2. eit_assembling' # Eit!NoEit /\ eit_assembling'.key = k => eit_assembling'.version = eit_air[k]
      BY <3>1, <2>2, <1>7 DEF e
    <3> QED BY <3>1, <3>2, <2>2
  <2>4. CASE stores
    <3>1. eit_assembling' # Eit!NoEit /\ eit_assembling'.key = k => eit_assembling'.version = eit_air[k]
      BY <2>4, <1>7
    <3>2. e \in Eit!Eits /\ EitAfter(eit_packets, list, e, i) BY <2>4, <1>3, <1>5
    <3>3. CASE k # e.key
      <4>1. given_twice'[k] = given_twice[k] /\ given_twice[k] > 0 BY <3>3, <1>13
      <4>2. Eit!PlacesOf(eit_packets, k) # {} BY <4>1, <2>2
      <4>3. /\ Eit!PlacesOf(list, k) # {} /\ Eit!Find(list, k) = Eit!Find(eit_packets, k)
            /\ list[Eit!Find(list, k)] = eit_packets[Eit!Find(eit_packets, k)]
            /\ Len(eit_packets) <= Len(list)
        BY <3>2, <3>3, <4>2, <1>4, EitElsewhere
      <4>4. Eit!Find(list, k) \in Nat /\ Len(list) \in Nat /\ Len(eit_packets) \in Nat
        BY <4>3, <1>4, <1>9, EitFinds
      <4>5. Eit!Find(eit_packets, k) < Len(eit_packets) => Eit!Find(list, k) < Len(list)
        BY <4>3, <4>4
      <4> QED BY <3>1, <4>1, <4>3, <4>5, <2>2
    <3>4. CASE k = e.key
      <4>1. /\ Eit!PlacesOf(list, k) # {}
            /\ \/ list[Eit!Find(list, k)].version = e.version
               \/ Eit!Find(list, k) < Len(list)
            /\ Eit!PlacesOf(eit_packets, k) # {}
               /\ (\/ eit_packets[Eit!Find(eit_packets, k)].version = e.version
                   \/ Eit!Find(eit_packets, k) < Len(eit_packets))
               => list[Eit!Find(list, k)].version = e.version
        BY <3>2, <3>4, <1>4, EitHere
      <4>2. counts
        <5>1. ~counts => given_twice[k] > 0 BY <1>13
        <5>2. e # Eit!NoEit BY <3>2, EitKinds
        <5> QED BY <5>1, <5>2, <3>4, <2>2, <2>4, <1>8
      <4>3. e.version = eit_air[k] BY <4>2, <3>4, <1>8
      <4>4. CASE given_twice[k] = 0
        <5>1. given_twice'[k] = 1 BY <4>2, <4>4, <3>4, <1>13
        <5> QED BY <5>1, <4>1, <4>3, <3>1
      <4>5. CASE given_twice[k] > 0
        <5>1. list[Eit!Find(list, k)].version = eit_air[k] BY <4>1, <4>3, <4>5, <2>2
        <5> QED BY <5>1, <4>1, <3>1
      <4> QED BY <4>4, <4>5, <2>1
    <3> QED BY <3>3, <3>4
  <2> QED BY <2>3, <2>4
<1> QED BY <1>20, <1>21, <1>22, <1>23 DEF EitInv

LEMMA EitEvents ==
  ASSUME EitInv, NEW k \in Keys, Eit!NewEvents(k)
  PROVE  EitInv'
<1>1. /\ eit_air[k] + 1 \in EitVersions /\ eit_air' = [eit_air EXCEPT ![k] = @ + 1]
      /\ given_twice' = [given_twice EXCEPT ![k] = 0]
      /\ UNCHANGED <<eit_assembling, eit_needs_update, eit_packets, table_to_send,
                     section_to_send, eit_sent>>
  BY DEF Eit!NewEvents
<1>2. EitTypes /\ EitOwned /\ EitTwice /\ EitGiven BY DEF EitInv
<1>3. EitTypes'
  <2>1. eit_air' \in [Keys -> EitVersions] /\ given_twice' \in [Keys -> 0..2] BY <1>1, <1>2 DEF EitTypes
  <2> QED BY <2>1, <1>1, <1>2 DEF EitTypes
<1>4. EitOwned' BY <1>1, <1>2 DEF EitOwned
<1>5. EitTwice' BY <1>1, <1>2 DEF EitTwice, Eit!PlacesOf
<1>6. EitGiven'
  <2> SUFFICES ASSUME NEW l \in Keys, given_twice'[l] > 0
               PROVE  /\ eit_assembling # Eit!NoEit /\ eit_assembling.key = l =>
                             eit_assembling.version = eit_air'[l]
                      /\ Eit!PlacesOf(eit_packets, l) # {}
                      /\ \/ eit_packets[Eit!Find(eit_packets, l)].version = eit_air'[l]
                         \/ given_twice'[l] = 1 /\ Eit!Find(eit_packets, l) < Len(eit_packets)
    BY <1>1 DEF EitGiven, Eit!PlacesOf, Eit!Find
  <2>1. l # k BY <1>1, <1>2 DEF EitTypes
  <2>2. given_twice'[l] = given_twice[l] /\ eit_air'[l] = eit_air[l] BY <2>1, <1>1, <1>2 DEF EitTypes
  <2> QED BY <2>2, <1>2 DEF EitGiven
<1> QED BY <1>3, <1>4, <1>5, <1>6 DEF EitInv

LEMMA EitStep == EitInv /\ (Eit!Next \/ UNCHANGED eitVars) => EitInv'
<1> SUFFICES ASSUME EitInv, Eit!Next \/ UNCHANGED eitVars PROVE EitInv' OBVIOUS
<1>1. ASSUME NEW k \in Keys, Eit!NewEvents(k) PROVE EitInv' BY <1>1, EitEvents
<1>2. ASSUME NEW isGiven \in BOOLEAN, Eit!Packet(Eit!NoEit, isGiven) PROVE EitInv' BY <1>2, EitPackets
<1>3. ASSUME NEW k \in Keys, NEW n \in 0..EitLast[eit_air[k]], NEW isGiven \in BOOLEAN,
             Eit!Packet(Eit!Eit(k, eit_air[k], n), isGiven)
      PROVE  EitInv'
  <2>1. eit_air[k] \in EitVersions BY DEF EitInv, EitTypes
  <2>2. EitLast[eit_air[k]] \in Nat BY <2>1, EitNumbers
  <2>3. n \in Nat /\ n <= EitLast[eit_air[k]] BY <2>2
  <2> DEFINE s == Eit!Eit(k, eit_air[k], n)
  <2>4. s \in Eit!Eits BY <2>1, <2>3, EitKinds
  <2>5. s.version = eit_air[s.key] BY EitKinds
  <2>6. Eit!Packet(s, isGiven) BY <1>3
  <2> HIDE DEF s
  <2> QED BY <2>4, <2>5, <2>6, EitPackets
<1>4. CASE UNCHANGED eitVars
  <2>1. UNCHANGED <<eit_air, eit_assembling, eit_needs_update, eit_packets, table_to_send,
                    section_to_send, eit_sent, given_twice>>
    BY <1>4 DEF eitVars
  <2>2. EitTypes' /\ EitOwned' BY <2>1 DEF EitInv, EitTypes, EitOwned
  <2>3. EitTwice' BY <2>1 DEF EitInv, EitTwice, Eit!PlacesOf
  <2>4. EitGiven' BY <2>1 DEF EitInv, EitGiven, Eit!PlacesOf, Eit!Find
  <2> QED BY <2>2, <2>3, <2>4 DEF EitInv
<1> QED BY <1>1, <1>2, <1>3, <1>4 DEF Eit!Next

LEMMA EitGoals == EitInv => Eit!TypeOK /\ Eit!OwnEit
<1> SUFFICES ASSUME EitInv PROVE Eit!TypeOK /\ Eit!OwnEit OBVIOUS
<1>1. EitTypes /\ EitOwned /\ EitTwice /\ EitGiven BY DEF EitInv
<1>2. Eit!TypeOK
  <2>1. \A i \in 1..Len(eit_packets) : eit_packets[i] \in EitElements
    BY <1>1, ElementOfSeq DEF EitTypes
  <2>2. \A p \in EitElements :
           p.key \in Keys /\ p.version \in EitVersions /\ p.stored \subseteq 0..EitLast[p.version]
    BY DEF EitElements
  <2> QED BY <2>1, <2>2, <1>1 DEF EitTypes, Eit!TypeOK
<1>3. ASSUME NEW k \in Keys PROVE Eit!Cardinality(Eit!PlacesOf(eit_packets, k)) <= 2
  <2>1. PICK i, j \in Nat : Eit!PlacesOf(eit_packets, k) \subseteq {i, j} BY <1>1 DEF EitTwice
  <2>2. IsFiniteSet({i}) /\ Cardinality({i}) = 1 BY FS_Singleton
  <2>3. {i, j} = {i} \cup {j} OBVIOUS
  <2>4. IsFiniteSet({i, j}) /\ Cardinality({i, j}) <= 2 /\ Cardinality({i, j}) \in Nat
    <3>1. IsFiniteSet({i} \cup {j})
          /\ Cardinality({i} \cup {j}) = IF j \in {i} THEN Cardinality({i}) ELSE Cardinality({i}) + 1
      BY <2>2, FS_AddElement
    <3> QED BY <3>1, <2>2, <2>3
  <2>5. Cardinality(Eit!PlacesOf(eit_packets, k)) <= Cardinality({i, j})
        /\ Cardinality(Eit!PlacesOf(eit_packets, k)) \in Nat
    BY <2>1, <2>4, FS_Subset, FS_CardinalityType
  <2>6. Eit!Cardinality(Eit!PlacesOf(eit_packets, k)) = Cardinality(Eit!PlacesOf(eit_packets, k))
    BY DEF Eit!Cardinality, Cardinality
  <2> QED BY <2>4, <2>5, <2>6
<1>4. ASSUME NEW k \in Keys, given_twice[k] = 2
      PROVE  eit_packets[Eit!Find(eit_packets, k)].version = eit_air[k]
  BY <1>1, <1>4 DEF EitGiven
<1>5. ASSUME NEW c \in EitChannels, eit_sent[c] # Eit!NoEit
      PROVE  eit_sent[c].key[1] = c /\ eit_sent[c].section <= EitLast[eit_sent[c].version]
  <2>1. eit_sent[c] \in Eit!Eits BY <1>1, <1>5 DEF EitTypes
  <2> QED BY <2>1, <1>1, <1>5, EitKinds DEF EitOwned
<1>6. Eit!OwnEit BY <1>3, <1>4, <1>5 DEF Eit!OwnEit
<1> QED BY <1>2, <1>6

-----------------------------------------------------------------------------
(* Datagrams                                                                *)

(* rtp and the socket are what the configuration says once the channel was *)
(* READY, and before that nothing is in the buffer and nothing was sent: a *)
(* buffer that is being filled never gets a header it has no room for.     *)
DgSettled ==
    \/ /\ rtp = (net_options.multicast /\ net_options.rtp_header)
       /\ socketOut = net_options.multicast
    \/ ~dg_ready /\ ~rtp /\ ~socketOut /\ nb_bytes = 0 /\ datagrams = <<>>

\* The number that is prepared follows the last one that was sent.
DgNextFollows ==
    rtp /\ datagrams # <<>> =>
        rtp_packet_num = (datagrams[Len(datagrams)].number + 1) % SequenceNumbers

DgInv == D!TypeOK /\ DgSettled /\ D!NeverTooLong /\ D!NothingLost /\ DgNextFollows /\ D!Numbered

LEMMA DgInitial == D!Init => DgInv
<1> USE DatagramSizes
<1> SUFFICES ASSUME D!Init PROVE DgInv OBVIOUS
<1>1. D!TypeOK
  <2>1. /\ dg_ready \in BOOLEAN /\ rtp \in BOOLEAN /\ socketOut \in BOOLEAN
        /\ net_options \in [multicast : BOOLEAN, rtp_header : BOOLEAN, dont_send_scrambled : BOOLEAN]
    BY DEF D!Init
  <2>2. nb_bytes \in Nat /\ came \in Nat /\ rtp_packet_num \in 0..SequenceNumbers - 1
    BY DEF D!Init, D!SizesAssumption
  <2>3. /\ buffer \in Seq(Nat) /\ taken \in Seq(Nat) /\ out \in Seq(Nat)
        /\ datagrams \in Seq([number : Int, size : Nat])
    BY EmptySeq DEF D!Init
  <2> QED BY <2>1, <2>2, <2>3 DEF D!TypeOK
<1>2. DgSettled BY DEF D!Init, DgSettled
<1>3. D!NeverTooLong BY DEF D!Init, D!SizesAssumption, D!NeverTooLong, D!Header
<1>4. D!NothingLost BY DEF D!Init, D!NothingLost
<1>5. DgNextFollows /\ D!Numbered BY DEF D!Init, DgNextFollows, D!Numbered
<1> QED BY <1>1, <1>2, <1>3, <1>4, <1>5 DEF DgInv

-----------------------------------------------------------------------------
(* What send_func does with packets that fit, and then buffer_func         *)

DgDatagram == [number : Int, size : Nat]

\* A sequence of datagrams that are short enough, and one more
LEMMA DgOneMore ==
  ASSUME NEW S, NEW s \in Seq(S), NEW d \in S, NEW bound,
         \A k \in 1..Len(s) : s[k].size <= bound, d.size <= bound
  PROVE  /\ Append(s, d) \in Seq(S) /\ Append(s, d) # <<>>
         /\ Len(s) \in Nat /\ Len(Append(s, d)) = Len(s) + 1
         /\ \A k \in 1..Len(s) : Append(s, d)[k] = s[k]
         /\ Append(s, d)[Len(s) + 1] = d
         /\ \A k \in 1..Len(Append(s, d)) : Append(s, d)[k].size <= bound
<1>1. /\ Append(s, d) \in Seq(S) /\ Append(s, d) # <<>>
      /\ Len(Append(s, d)) = Len(s) + 1
      /\ \A k \in 1..Len(s) : Append(s, d)[k] = s[k]
      /\ Append(s, d)[Len(s) + 1] = d
  BY AppendProperties
<1>2. Len(s) \in Nat BY LenProperties
<1>3. ASSUME NEW k \in 1..Len(Append(s, d)) PROVE Append(s, d)[k].size <= bound
  <2>1. k \in 1..Len(s) \/ k = Len(s) + 1 BY <1>1, <1>2
  <2>2. CASE k \in 1..Len(s)
    <3>1. Append(s, d)[k] = s[k] BY <1>1, <2>2
    <3>2. s[k].size <= bound BY <2>2
    <3> QED BY <3>1, <3>2
  <2>3. CASE k = Len(s) + 1 BY <1>1, <2>3
  <2> QED BY <2>1, <2>2, <2>3
<1> QED BY <1>1, <1>2, <1>3

\* What the two functions leave alone
DgConfigured == UNCHANGED <<net_options, dg_ready, rtp, socketOut>>

\* The values of the variables that the two functions change
DgStored ==
    /\ nb_bytes \in Nat /\ buffer \in Seq(Nat) /\ out \in Seq(Nat)
    /\ rtp_packet_num \in 0..SequenceNumbers - 1
    /\ datagrams \in Seq([number : Int, size : Nat])

LEMMA DgSends ==
  ASSUME NEW b \in Seq(Nat), NEW n \in Nat,
         D!SizesAssumption, DgInv, n + D!Header <= MAX_UDP_SIZE, D!Send(b, n), DgConfigured
  PROVE  /\ DgStored' /\ D!NeverTooLong' /\ DgNextFollows' /\ D!Numbered'
         /\ out' \o buffer' = out \o b
<1> USE DEF D!SizesAssumption
<1>1. D!TypeOK /\ D!NeverTooLong /\ DgNextFollows /\ D!Numbered BY DEF DgInv
<1>2. buffer' = <<>> /\ nb_bytes' = 0 /\ out' = out \o b BY DEF D!Send
<1>3. out \o b \in Seq(Nat) BY <1>1, ConcatProperties DEF D!TypeOK
<1>4. out' \o buffer' = out \o b BY <1>2, <1>3, ConcatEmptySeq
<1>5. nb_bytes' \in Nat /\ buffer' \in Seq(Nat) /\ out' \in Seq(Nat)
  BY <1>2, <1>3, EmptySeq
<1>6. nb_bytes' + D!Header' + TS_PACKET_SIZE <= MAX_UDP_SIZE
  BY <1>2 DEF D!Header
<1>7. CASE socketOut /\ rtp /\ D!SendRtp(n)
  <2> DEFINE d == [number |-> rtp_packet_num, size |-> n + RTP_HEADER_LEN]
  <2>1. datagrams' = Append(datagrams, d) /\ rtp_packet_num' = D!NextNumber /\ rtp'
    BY <1>7 DEF D!SendRtp, DgConfigured
  <2>2. d \in DgDatagram /\ d.size <= MAX_UDP_SIZE
    BY <1>1, <1>7 DEF D!TypeOK, D!Header, DgDatagram
  <2>3. rtp_packet_num' \in 0..SequenceNumbers - 1
    BY <1>1, <2>1 DEF D!TypeOK, D!NextNumber
  <2> HIDE DEF d
  <2>4. /\ datagrams' \in Seq(DgDatagram) /\ datagrams' # <<>>
        /\ Len(datagrams) \in Nat /\ Len(datagrams') = Len(datagrams) + 1
        /\ \A k \in 1..Len(datagrams) : datagrams'[k] = datagrams[k]
        /\ datagrams'[Len(datagrams) + 1] = d
        /\ \A k \in 1..Len(datagrams') : datagrams'[k].size <= MAX_UDP_SIZE
    <3>1. datagrams \in Seq(DgDatagram) BY <1>1 DEF D!TypeOK, DgDatagram
    <3>2. \A k \in 1..Len(datagrams) : datagrams[k].size <= MAX_UDP_SIZE
      BY <1>1 DEF D!NeverTooLong
    <3> QED BY <2>1, <2>2, <3>1, <3>2, DgOneMore
  <2>5. Len(datagrams) \in Nat BY <2>4
  <2>6. d.number = rtp_packet_num BY DEF d
  <2>7. DgNextFollows'
    <3>1. datagrams'[Len(datagrams')] = d BY <2>4
    <3>2. rtp_packet_num' = (d.number + 1) % SequenceNumbers BY <2>1, <2>6 DEF D!NextNumber
    <3> QED BY <3>1, <3>2 DEF DgNextFollows
  <2>8. ASSUME NEW k \in 2..Len(datagrams')
        PROVE  datagrams'[k].number = (datagrams'[k - 1].number + 1) % SequenceNumbers
    <3>1. CASE k <= Len(datagrams)
      <4>1. k \in 2..Len(datagrams) /\ k \in 1..Len(datagrams) /\ k - 1 \in 1..Len(datagrams)
        BY <2>5, <3>1
      <4>2. datagrams[k].number = (datagrams[k - 1].number + 1) % SequenceNumbers
        BY <1>1, <1>7, <4>1 DEF D!Numbered
      <4>3. datagrams'[k] = datagrams[k] /\ datagrams'[k - 1] = datagrams[k - 1]
        BY <2>4, <4>1
      <4> QED BY <4>2, <4>3
    <3>2. CASE k = Len(datagrams) + 1
      <4>1. datagrams # <<>> /\ k - 1 = Len(datagrams) /\ k - 1 \in 1..Len(datagrams)
        BY <2>4, <2>5, <3>2
      <4>2. rtp_packet_num = (datagrams[k - 1].number + 1) % SequenceNumbers
        BY <1>1, <1>7, <4>1 DEF DgNextFollows
      <4>3. datagrams'[k] = d /\ datagrams'[k - 1] = datagrams[k - 1]
        BY <2>4, <3>2, <4>1
      <4> QED BY <2>6, <4>2, <4>3
    <3> QED BY <2>4, <2>5, <3>1, <3>2
  <2>9. D!Numbered' BY <2>8 DEF D!Numbered
  <2> QED BY <1>4, <1>5, <1>6, <2>3, <2>4, <2>7, <2>9 DEF DgStored, D!NeverTooLong, DgDatagram
<1>8. CASE socketOut /\ ~rtp /\ D!SendPlain(n)
  <2> DEFINE d == [number |-> D!NoNumber, size |-> n]
  <2>1. datagrams' = Append(datagrams, d) /\ rtp_packet_num' = rtp_packet_num /\ ~rtp'
    BY <1>8 DEF D!SendPlain, DgConfigured
  <2>2. d \in DgDatagram /\ d.size <= MAX_UDP_SIZE
    BY <1>1, <1>8 DEF D!TypeOK, D!Header, D!NoNumber, DgDatagram
  <2> HIDE DEF d
  <2>3. /\ datagrams' \in Seq(DgDatagram)
        /\ \A k \in 1..Len(datagrams') : datagrams'[k].size <= MAX_UDP_SIZE
    <3>1. datagrams \in Seq(DgDatagram) BY <1>1 DEF D!TypeOK, DgDatagram
    <3>2. \A k \in 1..Len(datagrams) : datagrams[k].size <= MAX_UDP_SIZE
      BY <1>1 DEF D!NeverTooLong
    <3> QED BY <2>1, <2>2, <3>1, <3>2, DgOneMore
  <2>4. DgNextFollows' /\ D!Numbered' BY <2>1 DEF DgNextFollows, D!Numbered
  <2> QED BY <1>1, <1>4, <1>5, <1>6, <2>1, <2>3, <2>4 DEF DgStored, D!NeverTooLong, D!TypeOK, DgDatagram
<1>9. CASE ~socketOut /\ UNCHANGED <<datagrams, rtp_packet_num>>
  <2>1. D!Numbered' /\ DgNextFollows' /\ \A k \in 1..Len(datagrams') : datagrams'[k].size <= MAX_UDP_SIZE
    BY <1>1, <1>9 DEF D!Numbered, DgNextFollows, D!NeverTooLong, DgConfigured
  <2> QED BY <1>1, <1>4, <1>5, <1>6, <1>9, <2>1 DEF DgStored, D!NeverTooLong, D!TypeOK
<1> QED BY <1>7, <1>8, <1>9 DEF D!Send

LEMMA DgStores ==
  ASSUME NEW b \in Seq(Nat), NEW n \in Nat,
         D!SizesAssumption, DgInv, n + D!Header <= MAX_UDP_SIZE, D!Store(b, n), DgConfigured
  PROVE  /\ DgStored' /\ D!NeverTooLong' /\ DgNextFollows' /\ D!Numbered'
         /\ out' \o buffer' = out \o b
<1>1. CASE D!Full(n) BY <1>1, DgSends DEF D!Store
<1>2. CASE ~D!Full(n)
  <2>1. /\ buffer' = b /\ nb_bytes' = n
        /\ UNCHANGED <<out, datagrams, rtp_packet_num>>
    BY <1>2 DEF D!Store
  <2>2. nb_bytes' + D!Header' + TS_PACKET_SIZE <= MAX_UDP_SIZE
    BY <1>2, <2>1 DEF D!Full, D!Header, DgConfigured, D!SizesAssumption
  <2>3. D!NeverTooLong' BY <2>1, <2>2 DEF DgInv, D!NeverTooLong
  <2>4. DgNextFollows' /\ D!Numbered' BY <2>1 DEF DgInv, DgNextFollows, D!Numbered, DgConfigured
  <2>5. DgStored' BY <2>1 DEF DgInv, D!TypeOK, DgStored
  <2> QED BY <2>1, <2>3, <2>4, <2>5
<1> QED BY <1>1, <1>2

-----------------------------------------------------------------------------
(* The steps                                                               *)

LEMMA DgUpdates == D!SizesAssumption /\ DgInv /\ D!UpdateChanNet => DgInv'
<1> SUFFICES ASSUME D!SizesAssumption, DgInv, D!UpdateChanNet PROVE DgInv' OBVIOUS
<1> USE DEF DgInv
<1>1. UNCHANGED <<net_options, nb_bytes, buffer, rtp_packet_num, came, taken, out, datagrams>>
  BY DEF D!UpdateChanNet
<1>2. dg_ready' \in BOOLEAN /\ rtp' \in BOOLEAN /\ socketOut' \in BOOLEAN
  BY DEF D!UpdateChanNet, D!TypeOK
<1>3. D!TypeOK' BY <1>1, <1>2 DEF D!TypeOK
<1>4. /\ rtp' = (net_options.multicast /\ net_options.rtp_header)
      /\ socketOut' = net_options.multicast
  BY DEF D!UpdateChanNet, DgSettled, D!TypeOK
<1>5. DgSettled' BY <1>1, <1>4 DEF DgSettled
<1>6. CASE rtp' = rtp
  <2>1. D!NeverTooLong' /\ DgNextFollows' /\ D!Numbered'
    BY <1>1, <1>6 DEF D!NeverTooLong, DgNextFollows, D!Numbered, D!Header
  <2> QED BY <1>1, <1>3, <1>5, <2>1 DEF D!NothingLost
<1>7. CASE rtp' # rtp
  <2>1. nb_bytes = 0 /\ datagrams = <<>> BY <1>4, <1>7 DEF DgSettled
  <2>2. D!NeverTooLong' BY <1>1, <2>1 DEF D!NeverTooLong, D!Header, D!SizesAssumption
  <2>3. DgNextFollows' /\ D!Numbered' BY <1>1, <2>1 DEF DgNextFollows, D!Numbered
  <2> QED BY <1>1, <1>3, <1>5, <2>2, <2>3 DEF D!NothingLost
<1> QED BY <1>6, <1>7

LEMMA DgPackets ==
  ASSUME NEW scrambled \in BOOLEAN, D!SizesAssumption, DgInv, D!Packet(scrambled)
  PROVE  DgInv'
<1> USE DEF DgInv
<1>1. dg_ready /\ DgConfigured /\ came' \in Nat BY DEF D!Packet, DgConfigured, D!TypeOK
<1>2. DgSettled'
  BY <1>1 DEF DgSettled, DgConfigured
<1>3. CASE net_options.dont_send_scrambled /\ scrambled
  <2>1. D!Store(buffer, nb_bytes) /\ taken' = taken BY <1>3 DEF D!Packet
  <2>2. buffer \in Seq(Nat) /\ nb_bytes \in Nat /\ nb_bytes + D!Header <= MAX_UDP_SIZE
    BY DEF D!TypeOK, D!NeverTooLong, D!Header, D!SizesAssumption
  <2>3. /\ DgStored' /\ D!NeverTooLong' /\ DgNextFollows' /\ D!Numbered'
        /\ out' \o buffer' = out \o buffer
    BY <1>1, <2>1, <2>2, DgStores
  <2>4. D!NothingLost' BY <2>1, <2>3 DEF D!NothingLost
  <2>5. D!TypeOK' BY <1>1, <2>1, <2>3 DEF D!TypeOK, DgStored, DgConfigured
  <2> QED BY <1>2, <2>3, <2>4, <2>5
<1>4. CASE ~(net_options.dont_send_scrambled /\ scrambled)
  <2>1. /\ D!Store(Append(buffer, came), nb_bytes + TS_PACKET_SIZE)
        /\ taken' = Append(taken, came)
    BY <1>4 DEF D!Packet
  <2>2. /\ buffer \in Seq(Nat) /\ out \in Seq(Nat) /\ taken \in Seq(Nat) /\ came \in Nat
        /\ nb_bytes + TS_PACKET_SIZE \in Nat
        /\ nb_bytes + TS_PACKET_SIZE + D!Header <= MAX_UDP_SIZE
    BY DEF D!TypeOK, D!NeverTooLong, D!Header, D!SizesAssumption
  <2>3. Append(buffer, came) \in Seq(Nat) /\ taken' \in Seq(Nat)
    BY <2>1, <2>2, AppendProperties
  <2>4. /\ DgStored' /\ D!NeverTooLong' /\ DgNextFollows' /\ D!Numbered'
        /\ out' \o buffer' = out \o Append(buffer, came)
    BY <1>1, <2>1, <2>2, <2>3, DgStores
  <2>5. out \o Append(buffer, came) = Append(taken, came)
    <3>1. <<came>> \in Seq(Nat) BY <2>2
    <3>2. /\ Append(buffer, came) = buffer \o <<came>>
          /\ Append(taken, came) = taken \o <<came>>
      <4>1. buffer \in Seq(Nat) /\ taken \in Seq(Nat) /\ came \in Nat BY <2>2
      <4>2. Append(buffer, came) = buffer \o <<came>> BY <4>1, AppendIsConcat
      <4>3. Append(taken, came) = taken \o <<came>> BY <4>1, AppendIsConcat
      <4> QED BY <4>2, <4>3
    <3>3. (out \o buffer) \o <<came>> = out \o (buffer \o <<came>>)
      <4>1. out \in Seq(Nat) /\ buffer \in Seq(Nat) BY <2>2
      <4> QED BY <4>1, <3>1, ConcatAssociative
    <3> QED BY <3>2, <3>3 DEF D!NothingLost
  <2>6. D!NothingLost' BY <2>1, <2>4, <2>5 DEF D!NothingLost
  <2>7. D!TypeOK' BY <1>1, <2>3, <2>4 DEF D!TypeOK, DgStored, DgConfigured
  <2> QED BY <1>2, <2>4, <2>6, <2>7
<1> QED BY <1>3, <1>4

LEMMA DgStep == DgInv /\ (D!Next \/ UNCHANGED dgVars) => DgInv'
<1> USE DatagramSizes
<1> SUFFICES ASSUME DgInv, D!Next \/ UNCHANGED dgVars PROVE DgInv' OBVIOUS
<1>1. CASE D!UpdateChanNet BY <1>1, DgUpdates
<1>2. CASE D!Remove
  <2>1. UNCHANGED <<net_options, rtp, socketOut, nb_bytes, buffer, rtp_packet_num, came, taken,
                    out, datagrams>> /\ dg_ready /\ dg_ready' = FALSE
    BY <1>2 DEF D!Remove
  <2>2. D!TypeOK' BY <2>1 DEF DgInv, D!TypeOK
  <2>3. DgSettled' BY <2>1 DEF DgInv, DgSettled
  <2>4. D!NeverTooLong' /\ D!NothingLost' /\ DgNextFollows' /\ D!Numbered'
    BY <2>1 DEF DgInv, D!NeverTooLong, D!NothingLost, DgNextFollows, D!Numbered, D!Header
  <2> QED BY <2>2, <2>3, <2>4 DEF DgInv
<1>3. ASSUME NEW scrambled \in BOOLEAN, D!Packet(scrambled) PROVE DgInv'
  BY <1>3, DgPackets
<1>4. CASE UNCHANGED dgVars
  <2>1. UNCHANGED <<net_options, dg_ready, rtp, socketOut, nb_bytes, buffer, rtp_packet_num,
                    came, taken, out, datagrams>>
    BY <1>4 DEF dgVars
  <2>2. D!TypeOK' /\ DgSettled' BY <2>1 DEF DgInv, D!TypeOK, DgSettled
  <2>3. D!NeverTooLong' /\ D!NothingLost' /\ DgNextFollows' /\ D!Numbered'
    BY <2>1 DEF DgInv, D!NeverTooLong, D!NothingLost, DgNextFollows, D!Numbered, D!Header
  <2> QED BY <2>2, <2>3 DEF DgInv
<1> QED BY <1>1, <1>2, <1>3, <1>4 DEF D!Next

LEMMA DgGoals == DgInv => D!TypeOK /\ D!NeverTooLong /\ D!NothingLost /\ D!Numbered
BY DEF DgInv

\* The invariant that the theorems below rest on, of buffer_func, send_func and
\* update_chan_net together.
THEOREM DatagramsInvariant == D!Spec => []DgInv
<1>1. D!Init => DgInv BY DgInitial
<1>2. DgInv /\ [D!Next]_(D!dgVars) => DgInv' BY DgStep DEF dgVars, D!dgVars
<1> QED BY <1>1, <1>2, PTL DEF D!Spec

\* Whatever the sizes, buffer_func never writes past the buffer, and no datagram is longer
\* than MAX_UDP_SIZE with its header.
THEOREM DatagramsNeverTooLong == D!Spec => []D!NeverTooLong
<1>1. DgInv => D!NeverTooLong BY DEF DgInv
<1> QED BY <1>1, DatagramsInvariant, PTL

\* send_func sends every packet that buffer_func keeps, once and in order.
THEOREM DatagramsNothingLost == D!Spec => []D!NothingLost
<1>1. DgInv => D!NothingLost BY DEF DgInv
<1> QED BY <1>1, DatagramsInvariant, PTL

\* The numbers of rtp_update_sequence_number follow each other, where they wrap too.
THEOREM DatagramsNumbered == D!Spec => []D!Numbered
<1>1. DgInv => D!Numbered BY DEF DgInv
<1> QED BY <1>1, DatagramsInvariant, PTL
=============================================================================
