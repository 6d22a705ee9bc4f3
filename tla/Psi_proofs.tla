----------------------------- MODULE Psi_proofs -----------------------------
(***************************************************************************)
(* What the main thread guarantees when it follows the tables of a         *)
(* transponder, for any services, PIDs and PMTs, any number of sections    *)
(* and of changes: the invariants of Psi.                                  *)
(***************************************************************************)
EXTENDS Psi, SequenceTheorems, WellFoundedInduction, TLAPS

-----------------------------------------------------------------------------
(* Types *)

PmtSections == [sid : Services, version : Nat, current : BOOLEAN,
                streams : Seq(Streams), pcr : Pids, ecm : Pids \cup {NoPid}]
Pmts == PmtSections \cup {NoSection}

Channel ==
    [ready : REMOVED .. READY_EXISTING, pmt_pid : Pids \cup {NoPid}, pids : Seq(Pids),
     type : Types, free_ca : BOOLEAN, ca_sys : BOOLEAN, pmt_version : Nat \cup {-1},
     pmt_need_update : BOOLEAN, pmt_packet : Pmts, autoconf_pmt : BOOLEAN,
     need_cam_ask : Asks, need_scam_ask : Asks, scam_support : BOOLEAN,
     scam_packet : Pmts, scam_started : BOOLEAN, sockets : BOOLEAN,
     generated_pat : [version : Int, programs : SUBSET Pids]]

IsList(list) == DOMAIN list \subseteq Services /\ list \in [DOMAIN list -> Channel]

AutoState == [pat : Table, sdt : Table, cat : Table, emm : Pids \cup {NoPid},
              need_filter_chan_update : BOOLEAN]
Filters == [Pids -> {"NOT_ASKED", "FILTERED"}]
Configs == {Config(m) : m \in Modes}

IsMain(x) ==
    /\ x = [auto |-> x.auto, channels |-> x.channels, asked_pid |-> x.asked_pid,
            config |-> x.config]
    /\ x.auto \in AutoState /\ IsList(x.channels)
    /\ x.asked_pid \in Filters /\ x.config \in Configs

IsRewrite(r) ==
    /\ r = [version |-> r.version, need |-> r.need, ok |-> r.ok, progs |-> r.progs]
    /\ r.version \in Int /\ r.need \in BOOLEAN /\ r.ok \in BOOLEAN
    /\ DOMAIN r.progs \subseteq Services
    /\ \A s \in DOMAIN r.progs : r.progs[s] \in PmtPids[s]

Air == [pat : [version : Nat, progs : [Services -> Pids \cup {NoPid}]],
        sdt : [version : Nat, kinds : [Services -> [type : Types, ca : BOOLEAN]]],
        cat : Nat, pmt : [Services -> Nat]]

-----------------------------------------------------------------------------
(* A channel: `sent' is the PMT its CAM got last, `prog' the PMT PID its   *)
(* service has on the transponder, `fixed' that this PID never changed     *)
(* since the channel is in the list.                                       *)

PmtKept(s, c) ==
    /\ c.pmt_packet # NoSection =>
          c.pmt_packet.sid = s /\ PidsOf(c.pmt_packet) \cap PmtPids[s] = {}
    /\ c.pmt_version # -1 => c.pmt_packet # NoSection /\ c.pmt_packet.version = c.pmt_version

CamAsked(c, sent) == c.need_cam_ask = "ASKED" => SamePmt(sent, c.pmt_packet)

PmtPidKept(s, c, prog) ==
    /\ prog \in {NoPid, c.pmt_pid}
    /\ c.pids[1] = c.pmt_pid
    /\ \A i \in DOMAIN c.pids : c.pids[i] \in PmtPids[s] => c.pids[i] = c.pids[1]
    /\ c.generated_pat.programs \subseteq {c.pids[1]}

ChannelOk(s, c, sent, prog, fixed) ==
    /\ Streaming(c) => c.sockets
    /\ c.pids # <<>>
    /\ c.pmt_pid \in PmtPids[s]
    /\ PmtKept(s, c)
    /\ CamAsked(c, sent)
    /\ fixed => PmtPidKept(s, c, prog)

ChannelsOk(x, sent, progs, gone) ==
    \A s \in DOMAIN x.channels : ChannelOk(s, x.channels[s], sent[s], progs[s], s \notin gone)

-----------------------------------------------------------------------------
(* The main thread *)

Filtered(x) ==
    \A s \in DOMAIN x.channels : Streaming(x.channels[s]) =>
        \A p \in ToSet(x.channels[s].pids) : x.asked_pid[p] # "NOT_ASKED"

SdtAfterPat(x) == x.auto.sdt.version # -1 => x.auto.pat.all_seen

EmmOk(x) == \A s \in Services : x.auto.emm \notin PmtPids[s]

FiltersSet(x) == x.auto.sdt.version # -1 /\ x.auto.sdt.all_seen => Filtered(x)

(* What is known of the transponder `a', when no section was sent ahead *)
SectionOf(s) == s % (LastSection + 1)
On(a) == {s \in Services : a.pat.progs[s] # NoPid}
AllSections(table) == table.all_seen => table.seen = 0 .. LastSection

\* The services of the PAT that was read
PatKnown(x, a) ==
    /\ x.auto.pat.version <= a.pat.version
    /\ x.auto.pat.version = a.pat.version =>
        \A s \in On(a) : SectionOf(s) \in x.auto.pat.seen =>
            s \in DOMAIN x.channels /\ x.channels[s].ready \notin {REMOVED, READY_EXISTING}

InForce(x, a) == x.auto.pat.version = a.pat.version /\ x.auto.sdt.version = a.sdt.version

\* Their kinds, when the SDT was read after that PAT
SdtKnown(x, a) ==
    /\ x.auto.sdt.version <= a.sdt.version
    /\ InForce(x, a) =>
        \A s \in On(a) : SectionOf(s) \in x.auto.sdt.seen =>
            /\ x.channels[s].free_ca = a.sdt.kinds[s].ca
            /\ x.channels[s].type = a.sdt.kinds[s].type

Scrambled(x, kind) == kind.ca /\ ~ x.config.scrambled

\* The status of those services, once the SDT was read
StatusKnown(x, a) ==
    InForce(x, a) /\ x.auto.sdt.all_seen =>
        \A s \in On(a) :
            /\ Scrambled(x, a.sdt.kinds[s]) => x.channels[s].ready = NO_STREAMING
            /\ ~ Scrambled(x, a.sdt.kinds[s]) /\ a.sdt.kinds[s].type = "tv"
                  => x.channels[s].ready = READY

TablesRead(x, a) ==
    /\ AllSections(x.auto.pat) /\ AllSections(x.auto.sdt)
    /\ PatKnown(x, a) /\ SdtKnown(x, a)

TablesKnown(x, a) == TablesRead(x, a) /\ StatusKnown(x, a)

(* The services that are not on the transponder any more, without oscam *)
Gone(x, c) ==
    \/ c.ready \in {READY, READY_EXISTING, REMOVED}
    \/ c.ready = NO_STREAMING /\ c.free_ca /\ ~ x.config.scrambled

GoneChannels(x, a, left) ==
    /\ x.auto.pat.all_seen => \A s \in DOMAIN x.channels : x.channels[s].ready # READY_EXISTING
    /\ \A s \in DOMAIN x.channels \ (On(a) \cup left) :
          /\ Gone(x, x.channels[s])
          /\ x.auto.pat.version = a.pat.version => x.channels[s].ready # READY

GoneKnown(x, a, left) == ~ x.auto.need_filter_chan_update /\ GoneChannels(x, a, left)

(* All of it: `sent' are the PMTs the CAM got, `gone' and `left' the       *)
(* services that moved, or left too early; `known' tells that no section   *)
(* was sent ahead.                                                         *)
MainOk(x, a, sent, gone, left, known) ==
    /\ IsMain(x)
    /\ ChannelsOk(x, sent, a.pat.progs, gone)
    /\ EmmOk(x) /\ SdtAfterPat(x) /\ FiltersSet(x)
    /\ known => TablesKnown(x, a)
    /\ known /\ ~ x.config.scam => GoneKnown(x, a, left)

-----------------------------------------------------------------------------
(* The inductive invariant *)

Bounded ==
    /\ events \in Nat /\ odd \in Nat
    /\ \E m \in Modes : events <= MaxEvents[m]
    /\ \A s \in Services : air.pmt[s] <= events
    /\ air.cat <= FirstCat + events

AirIs(a) ==
    /\ a \in Air
    /\ \A s \in Services : a.pat.progs[s] \in PmtPids[s] \cup {NoPid}

OthersOk ==
    /\ packet.pid \in Pids \cup {-1, 0}
    /\ cam \in [Services -> Pmts] /\ oscam \in [Services -> Pmts]
    /\ sending \subseteq Services /\ ahead \in BOOLEAN

IInv ==
    /\ AirIs(air) /\ Bounded /\ IsRewrite(rewrite) /\ OthersOk
    /\ MainOk(st, air, cam, moved, early, ~ ahead)

-----------------------------------------------------------------------------
(* Induction on a set of naturals, from the least one that is not in it.   *)

LEMMA Induction ==
  ASSUME NEW S, 0 \in S, \A n \in Nat : n \in S => n + 1 \in S
  PROVE  Nat \subseteq S
<1> DEFINE T == Nat \ S
           R == OpToRel(<, Nat)
<1> SUFFICES ASSUME T # {} PROVE FALSE OBVIOUS
<1>1. IsWellFoundedOn(R, Nat) BY NatLessThanWellFounded
<1>2. T \subseteq Nat OBVIOUS
<1>3. \E x \in T : \A y \in T : <<y, x>> \notin R
  <2> HIDE DEF T, R
  <2> QED BY <1>1, <1>2, WFMin
<1>4. PICK x \in T : \A y \in T : <<y, x>> \notin R BY <1>3
<1>5. x \in Nat /\ x # 0 OBVIOUS
<1>6. x - 1 \in Nat /\ x - 1 < x /\ (x - 1) + 1 = x BY <1>5
<1>7. <<x - 1, x>> \in R BY <1>5, <1>6 DEF OpToRel
<1>8. x - 1 \in S BY <1>4, <1>6, <1>7
<1> QED BY <1>6, <1>8

-----------------------------------------------------------------------------
(* The PIDs of a PMT (autoconf_get_pmt_pids) *)

\* f holds the PIDs kept of the first n streams
IsKept(f, streams, n) == f[0] = <<>> /\ \A i \in 1 .. n : f[i] = f[i - 1] \o KeptOf(streams[i])
StreamsPids(streams) == {streams[i].pid : i \in DOMAIN streams}

LEMMA KeptExists ==
  ASSUME NEW streams \in Seq(Streams)
  PROVE  \E f \in [0 .. Len(streams) -> Seq(StreamsPids(streams))] :
            IsKept(f, streams, Len(streams))
<1> DEFINE P == StreamsPids(streams)
           S == {n \in Nat : n =< Len(streams) =>
                                \E f \in [0 .. n -> Seq(P)] : IsKept(f, streams, n)}
<1>0. Len(streams) \in Nat BY LenProperties
<1>1. ASSUME NEW i \in 1 .. Len(streams) PROVE KeptOf(streams[i]) \in Seq(P)
  <2>1. streams[i].pid \in P BY LenProperties DEF StreamsPids
  <2> HIDE DEF P
  <2>2. <<streams[i].pid>> \in Seq(P) /\ <<>> \in Seq(P) BY <2>1, EmptySeq
  <2> QED BY <2>2 DEF KeptOf
<1> HIDE DEF P
<1>2. 0 \in S
  <2>1. <<>> \in Seq(P) BY EmptySeq
  <2>2. [i \in 0 .. 0 |-> <<>>] \in [0 .. 0 -> Seq(P)] /\ IsKept([i \in 0 .. 0 |-> <<>>], streams, 0)
    BY <2>1 DEF IsKept
  <2> QED BY <2>2
<1>3. ASSUME NEW n \in Nat, n \in S PROVE n + 1 \in S
  <2> SUFFICES ASSUME n + 1 =< Len(streams)
               PROVE  \E f \in [0 .. n + 1 -> Seq(P)] : IsKept(f, streams, n + 1)
    OBVIOUS
  <2>1. PICK f \in [0 .. n -> Seq(P)] : IsKept(f, streams, n) BY <1>0, <1>3
  <2> DEFINE last == f[n] \o KeptOf(streams[n + 1])
             g == [i \in 0 .. n + 1 |-> IF i = n + 1 THEN last ELSE f[i]]
  <2>2. last \in Seq(P)
    <3>1. f[n] \in Seq(P) /\ KeptOf(streams[n + 1]) \in Seq(P) BY <1>0, <1>1
    <3> QED BY <3>1, ConcatProperties
  <2> HIDE DEF last
  <2>3. g \in [0 .. n + 1 -> Seq(P)] BY <2>2
  <2>4. g[0] = <<>> BY <2>1 DEF IsKept
  <2>5. ASSUME NEW i \in 1 .. n + 1 PROVE g[i] = g[i - 1] \o KeptOf(streams[i])
    <3>1. CASE i = n + 1
      <4>1. g[i] = last /\ g[i - 1] = f[n] BY <3>1
      <4> QED BY <3>1, <4>1 DEF last
    <3>2. CASE i # n + 1
      <4>1. i \in 1 .. n /\ g[i] = f[i] /\ g[i - 1] = f[i - 1] BY <3>2
      <4> QED BY <2>1, <4>1 DEF IsKept
    <3> QED BY <3>1, <3>2
  <2> HIDE DEF g
  <2> QED BY <2>3, <2>4, <2>5 DEF IsKept
<1>4. Nat \subseteq S
  <2> HIDE DEF S
  <2> QED BY <1>2, <1>3, Induction
<1> QED BY <1>0, <1>4 DEF P

LEMMA KeptPids ==
  ASSUME NEW section \in PmtSections
  PROVE  StreamPids(section) \in Seq(StreamsPids(section.streams))
<1> DEFINE streams == section.streams
           n == Len(streams)
<1>0. streams \in Seq(Streams) /\ n \in Nat BY LenProperties DEF PmtSections
<1> HIDE DEF streams
<1>1. PICK f \in [0 .. n -> Seq(StreamsPids(streams))] : IsKept(f, streams, n)
  BY <1>0, KeptExists
<1>2. f = [i \in 0 .. Len(streams) |-> IF i = 0 THEN <<>> ELSE f[i - 1] \o KeptOf(streams[i])]
  <2>1. ASSUME NEW i \in 0 .. n
        PROVE  f[i] = IF i = 0 THEN <<>> ELSE f[i - 1] \o KeptOf(streams[i])
    <3>1. CASE i = 0 BY <1>1, <3>1 DEF IsKept
    <3>2. CASE i # 0
      <4>1. i \in 1 .. n BY <1>0, <3>2
      <4> QED BY <1>1, <3>2, <4>1 DEF IsKept
    <3> QED BY <3>1, <3>2
  <2>2. f = [i \in 0 .. n |-> f[i]] BY <1>1
  <2> QED BY <2>1, <2>2, Zenon
<1>3. KeptUpTo(streams) = [i \in 0 .. Len(streams) |->
             IF i = 0 THEN <<>> ELSE KeptUpTo(streams)[i - 1] \o KeptOf(streams[i])]
  BY <1>2 DEF KeptUpTo
<1> DEFINE g == KeptUpTo(streams)
           S == {i \in Nat : i =< n => g[i] = f[i]}
<1> HIDE DEF g
<1>4. g = [i \in 0 .. n |->
             IF i = 0 THEN <<>> ELSE g[i - 1] \o KeptOf(streams[i])]
  BY <1>3 DEF g
<1>5. 0 \in S BY <1>0, <1>2, <1>4
<1>6. ASSUME NEW i \in Nat, i \in S PROVE i + 1 \in S
  <2> SUFFICES ASSUME i + 1 =< n PROVE g[i + 1] = f[i + 1] OBVIOUS
  <2> DEFINE j == i + 1
  <2>1. j \in 0 .. n /\ j # 0 /\ j - 1 = i /\ g[i] = f[i] BY <1>0, <1>6
  <2> HIDE DEF j
  <2>2. g[j] = g[j - 1] \o KeptOf(streams[j])
    BY <1>4, <2>1
  <2>3. f[j] = f[j - 1] \o KeptOf(streams[j])
    BY <1>2, <2>1
  <2>4. g[j] = f[j] BY <2>1, <2>2, <2>3
  <2> QED BY <2>4 DEF j
<1>7. Nat \subseteq S
  <2> HIDE DEF S
  <2> QED BY <1>5, <1>6, Induction
<1>8. g[n] = f[n] BY <1>0, <1>7
<1> QED BY <1>0, <1>1, <1>8 DEF StreamPids, g, streams

LEMMA PmtPidsOf ==
  ASSUME NEW section \in PmtSections, NEW auto \in AutoState
  PROVE  /\ autoconf_get_pmt_pids(auto, section) \in Seq(Pids)
         /\ \A i \in DOMAIN autoconf_get_pmt_pids(auto, section) :
               autoconf_get_pmt_pids(auto, section)[i]
                  \in StreamsPids(section.streams) \cup ({section.ecm, auto.emm} \ {NoPid})
<1> DEFINE P == StreamsPids(section.streams) \cup ({section.ecm, auto.emm} \ {NoPid})
<1>1. P \subseteq Pids
  <2>1. section.streams \in Seq(Streams) /\ section.ecm \in Pids \cup {NoPid} BY DEF PmtSections
  <2>2. auto.emm \in Pids \cup {NoPid} BY DEF AutoState
  <2>3. \A i \in DOMAIN section.streams : section.streams[i] \in Streams
    BY <2>1, LenProperties, ElementOfSeq
  <2> QED BY <2>1, <2>2, <2>3 DEF StreamsPids, Streams
<1>2. StreamPids(section) \in Seq(P)
  <2>1. StreamsPids(section.streams) \subseteq P OBVIOUS
  <2> HIDE DEF P
  <2> QED BY <2>1, KeptPids, SeqMonotonic
<1>3. CaPids(auto, section) \in Seq(P)
  <2>1. section.ecm # NoPid => section.ecm \in P OBVIOUS
  <2>2. auto.emm # NoPid => auto.emm \in P OBVIOUS
  <2> HIDE DEF P
  <2> DEFINE ecm == IF section.ecm = NoPid THEN <<>> ELSE <<section.ecm>>
             emm == IF section.ecm = NoPid \/ auto.emm = NoPid THEN <<>> ELSE <<auto.emm>>
  <2>3. ecm \in Seq(P) BY <2>1, EmptySeq
  <2>4. emm \in Seq(P) BY <2>2, EmptySeq
  <2>5. CaPids(auto, section) = ecm \o emm BY DEF CaPids
  <2> HIDE DEF ecm, emm
  <2> QED BY <2>3, <2>4, <2>5, ConcatProperties
<1> DEFINE pids == autoconf_get_pmt_pids(auto, section)
<1>4. pids \in Seq(P)
  <2> HIDE DEF P
  <2> QED BY <1>2, <1>3, ConcatProperties DEF autoconf_get_pmt_pids
<1> HIDE DEF pids, P
<1>5. pids \in Seq(Pids) BY <1>1, <1>4, SeqMonotonic
<1>6. \A i \in DOMAIN pids : pids[i] \in P BY <1>4, LenProperties, ElementOfSeq
<1> QED BY <1>5, <1>6 DEF pids, P

-----------------------------------------------------------------------------
(* What each operation makes of a channel *)

Statuses == REMOVED .. READY_EXISTING

LEMMA StatusNumbers ==
  /\ REMOVED = -3 /\ NO_STREAMING = -2 /\ NOT_READY = -1 /\ ALMOST_READY = 0
  /\ READY = 1 /\ READY_EXISTING = 2 /\ Statuses = -3 .. 2
  /\ \A c : Streaming(c) <=> c.ready >= 1
BY DEF REMOVED, NO_STREAMING, NOT_READY, ALMOST_READY, READY, READY_EXISTING, Statuses, Streaming

LEMMA NewChannelIs ==
  /\ NewChannel \in Channel /\ NewChannel.ready = NOT_READY /\ NewChannel.pids = <<>>
  /\ NewChannel.pmt_packet = NoSection /\ NewChannel.need_cam_ask = "NO_ASK"
  /\ NewChannel.generated_pat = NoPat
<1> DEFINE c ==
        [ready |-> NOT_READY, pmt_pid |-> NoPid, pids |-> <<>>, type |-> "none",
         free_ca |-> FALSE, ca_sys |-> FALSE, pmt_version |-> -1, pmt_need_update |-> FALSE,
         pmt_packet |-> NoSection, autoconf_pmt |-> FALSE, need_cam_ask |-> "NO_ASK",
         need_scam_ask |-> "NO_ASK", scam_support |-> FALSE, scam_packet |-> NoSection,
         scam_started |-> FALSE, sockets |-> FALSE, generated_pat |-> NoPat]
<1>1. <<>> \in Seq(Pids) BY EmptySeq
<1>2. NoPat \in [version : Int, programs : SUBSET Pids] BY DEF NoPat
<1>3. NoSection \in Pmts BY DEF Pmts
<1>4. "NO_ASK" \in Asks /\ "none" \in Types BY DEF Asks, Types
<1>5. NOT_READY \in REMOVED .. READY_EXISTING BY StatusNumbers DEF Statuses
<1>6. NoPid \in Pids \cup {NoPid} /\ -1 \in Nat \cup {-1} OBVIOUS
<1>7. c \in Channel BY <1>1, <1>2, <1>3, <1>4, <1>5, <1>6 DEF Channel
<1>8. /\ c.ready = NOT_READY /\ c.pids = <<>> /\ c.pmt_packet = NoSection
      /\ c.need_cam_ask = "NO_ASK"
  OBVIOUS
<1>9. NewChannel = [c EXCEPT !.generated_pat = NoPat] BY DEF NewChannel, mumu_init_chan
<1> HIDE DEF c
<1> QED BY <1>2, <1>7, <1>8, <1>9 DEF Channel

\* The parts of a channel that most operations leave alone
SamePids(c, d) ==
    d.pmt_pid = c.pmt_pid /\ d.pids = c.pids /\ d.generated_pat = c.generated_pat
SamePmtState(c, d) ==
    /\ d.pmt_packet = c.pmt_packet /\ d.pmt_version = c.pmt_version
    /\ d.need_cam_ask = c.need_cam_ask
SameStatus(c, d) == d.ready = c.ready /\ d.sockets = c.sockets
SameKind(c, d) == d.type = c.type /\ d.free_ca = c.free_ca

LEMMA PatUpdateIs ==
  ASSUME NEW list, NEW s, NEW pid \in Pids,
         NEW c \in Channel, c = IF s \in DOMAIN list THEN list[s] ELSE NewChannel
  PROVE  LET d == autoconf_pat_update_chan(list, s, pid) IN
         /\ d \in Channel
         /\ d.ready = CASE c.ready = READY_EXISTING -> READY
                        [] c.ready = REMOVED -> NOT_READY
                        [] OTHER -> c.ready
         /\ d.pmt_pid = pid /\ d.pmt_version = -1
         /\ d.pids = IF pid \in ToSet(c.pids) THEN c.pids ELSE Append(c.pids, pid)
         /\ d.pmt_packet = c.pmt_packet /\ d.need_cam_ask = c.need_cam_ask
         /\ d.sockets = c.sockets /\ SameKind(c, d)
         /\ d.generated_pat \in {c.generated_pat, NoPat}
<1> DEFINE back == CASE c.ready = READY_EXISTING -> [c EXCEPT !.ready = READY]
                     [] c.ready = REMOVED -> mumu_init_chan([c EXCEPT !.ready = NOT_READY])
                     [] OTHER -> c
           pids == IF pid \in ToSet(back.pids) THEN back.pids ELSE Append(back.pids, pid)
<1>1. autoconf_pat_update_chan(list, s, pid) =
        [back EXCEPT !.pmt_pid = pid, !.pmt_version = -1, !.pids = pids]
  BY DEF autoconf_pat_update_chan
<1>2. NoPat \in [version : Int, programs : SUBSET Pids] BY DEF NoPat
<1>3. /\ back \in Channel
      /\ back.ready = CASE c.ready = READY_EXISTING -> READY
                        [] c.ready = REMOVED -> NOT_READY
                        [] OTHER -> c.ready
      /\ back.pids = c.pids /\ back.pmt_packet = c.pmt_packet
      /\ back.need_cam_ask = c.need_cam_ask /\ back.sockets = c.sockets
      /\ SameKind(c, back)
      /\ back.generated_pat \in {c.generated_pat, NoPat}
  <2>1. CASE c.ready = READY_EXISTING
    <3>1. back = [c EXCEPT !.ready = READY]
      BY <2>1 DEF READY_EXISTING, REMOVED
    <3>2. READY \in REMOVED .. READY_EXISTING BY StatusNumbers
    <3>3. READY_EXISTING # REMOVED BY DEF READY_EXISTING, REMOVED
    <3> HIDE DEF back
    <3> QED BY <2>1, <3>1, <3>2, <3>3 DEF Channel, SameKind
  <2>2. CASE c.ready = REMOVED
    <3>1. READY_EXISTING # REMOVED BY DEF READY_EXISTING, REMOVED
    <3>2. back = [c EXCEPT !.ready = NOT_READY, !.generated_pat = NoPat]
      BY <2>2, <3>1 DEF mumu_init_chan, Channel
    <3>3. NOT_READY \in REMOVED .. READY_EXISTING BY StatusNumbers
    <3> HIDE DEF back
    <3> QED BY <1>2, <2>2, <3>1, <3>2, <3>3 DEF Channel, SameKind
  <2>3. CASE c.ready \notin {READY_EXISTING, REMOVED}
    <3>1. back = c BY <2>3
    <3> HIDE DEF back
    <3> QED BY <2>3, <3>1 DEF SameKind
  <2> QED BY <2>1, <2>2, <2>3
<1>4. pids \in Seq(Pids)
  <2>1. back.pids \in Seq(Pids) BY <1>3 DEF Channel
  <2> QED BY <2>1, AppendProperties
<1> HIDE DEF back
<1>5. pids = IF pid \in ToSet(c.pids) THEN c.pids ELSE Append(c.pids, pid) BY <1>3
<1> HIDE DEF pids
<1> QED BY <1>1, <1>3, <1>4, <1>5 DEF Channel, SameKind

LEMMA ReadPmtIs ==
  ASSUME NEW c \in Channel, c.pids # <<>>, c.pmt_packet \in PmtSections,
         NEW auto \in AutoState, NEW stale \in BOOLEAN
  PROVE  LET d == autoconf_read_pmt(auto, c, stale) IN
         /\ d \in Channel /\ d.pids # <<>> /\ d.pids[1] = c.pids[1]
         /\ \A i \in DOMAIN d.pids :
               i = 1 \/ d.pids[i] \in StreamsPids(c.pmt_packet.streams)
                           \cup ({c.pmt_packet.ecm, auto.emm} \ {NoPid}) \cup {c.pmt_packet.pcr}
         /\ d.pmt_pid = c.pmt_pid /\ d.generated_pat = c.generated_pat
         /\ SamePmtState(c, d) /\ SameStatus(c, d) /\ SameKind(c, d)
<1> DEFINE temp == autoconf_get_pmt_pids(auto, c.pmt_packet)
           pcr == c.pmt_packet.pcr
           P == StreamsPids(c.pmt_packet.streams)
                   \cup ({c.pmt_packet.ecm, auto.emm} \ {NoPid})
           found == \/ \E i \in DOMAIN temp : i <= Len(c.pids) /\ temp[i] = pcr
                    \/ stale /\ Len(c.pids) > Len(temp)
           more == IF found THEN <<>> ELSE <<pcr>>
           pids == <<c.pids[1]>> \o temp \o more
<1>1. temp \in Seq(Pids) /\ \A i \in DOMAIN temp : temp[i] \in P BY PmtPidsOf
<1>2. pcr \in Pids BY DEF PmtSections
<1>3. autoconf_read_pmt(auto, c, stale) =
        [c EXCEPT !.pids = pids, !.ca_sys = c.pmt_packet.ecm # NoPid, !.autoconf_pmt = FALSE]
  BY DEF autoconf_read_pmt
<1>4. c.pids[1] \in Pids
  <2>1. c.pids \in Seq(Pids) BY DEF Channel
  <2> QED BY <2>1, EmptySeq, LenProperties, ElementOfSeq
<1> HIDE DEF found, temp, pcr, P
<1>5. more \in Seq(Pids) /\ \A i \in DOMAIN more : more[i] = pcr BY <1>2, EmptySeq
<1> HIDE DEF more
<1> DEFINE both == temp \o more
           first == <<c.pids[1]>>
<1>6. both \in Seq(Pids) /\ \A i \in DOMAIN both : both[i] \in P \cup {pcr}
  <2>1. /\ both \in Seq(Pids) /\ Len(both) = Len(temp) + Len(more)
        /\ \A i \in 1 .. Len(temp) + Len(more) :
              both[i] = IF i <= Len(temp) THEN temp[i] ELSE more[i - Len(temp)]
    BY <1>1, <1>5, ConcatProperties
  <2>2. /\ Len(temp) \in Nat /\ Len(more) \in Nat /\ DOMAIN temp = 1 .. Len(temp)
        /\ DOMAIN more = 1 .. Len(more) /\ DOMAIN both = 1 .. Len(both)
    BY <1>1, <1>5, <2>1, LenProperties
  <2> HIDE DEF both
  <2>3. ASSUME NEW i \in DOMAIN both PROVE both[i] \in P \cup {pcr}
    <3>1. i \in 1 .. Len(temp) + Len(more) BY <2>1, <2>2
    <3>2. CASE i <= Len(temp) BY <1>1, <2>1, <2>2, <3>1, <3>2
    <3>3. CASE ~ (i <= Len(temp))
      <4>1. i - Len(temp) \in 1 .. Len(more) BY <2>2, <3>1, <3>3
      <4> QED BY <1>5, <2>1, <2>2, <3>1, <3>3, <4>1
    <3> QED BY <3>2, <3>3
  <2> QED BY <2>1, <2>3
<1>7. pids = first \o both
  <2>1. first \in Seq(Pids) BY <1>4
  <2>2. \A r, t, m \in Seq(Pids) : (r \o t) \o m = r \o (t \o m) BY ConcatAssociative
  <2> HIDE DEF first
  <2>3. (first \o temp) \o more = first \o (temp \o more) BY <1>1, <1>5, <2>1, <2>2
  <2> QED BY <2>3 DEF first
<1>8. /\ first \in Seq(Pids) /\ Len(first) = 1 /\ first[1] = c.pids[1] BY <1>4
<1> HIDE DEF first, both, pids
<1>9. /\ pids \in Seq(Pids) /\ pids # <<>> /\ pids[1] = c.pids[1]
      /\ \A i \in DOMAIN pids : i = 1 \/ pids[i] \in P \cup {pcr}
  <2>1. /\ pids \in Seq(Pids) /\ Len(pids) = 1 + Len(both)
        /\ \A i \in 1 .. 1 + Len(both) :
              pids[i] = IF i <= 1 THEN first[i] ELSE both[i - 1]
    <3>1. /\ first \o both \in Seq(Pids)
          /\ Len(first \o both) = Len(first) + Len(both)
          /\ \A i \in 1 .. Len(first) + Len(both) :
                (first \o both)[i] = IF i <= Len(first) THEN first[i] ELSE both[i - Len(first)]
      BY <1>6, <1>8, ConcatProperties
    <3> QED BY <1>7, <1>8, <3>1
  <2>2. Len(both) \in Nat /\ DOMAIN both = 1 .. Len(both) /\ DOMAIN pids = 1 .. Len(pids)
    BY <1>6, <2>1, LenProperties
  <2>3. pids[1] = c.pids[1] BY <1>8, <2>1, <2>2
  <2>4. pids # <<>> BY <2>1, <2>2, EmptySeq
  <2>5. ASSUME NEW i \in DOMAIN pids, i # 1 PROVE pids[i] \in P \cup {pcr}
    <3>1. i \in 1 .. 1 + Len(both) /\ i - 1 \in 1 .. Len(both) /\ ~ (i <= 1)
      BY <2>1, <2>2, <2>5
    <3> QED BY <1>6, <2>1, <2>2, <3>1
  <2> QED BY <2>1, <2>3, <2>4, <2>5
<1>10. /\ autoconf_read_pmt(auto, c, stale) \in Channel
       /\ autoconf_read_pmt(auto, c, stale).pids = pids
       /\ autoconf_read_pmt(auto, c, stale).pmt_pid = c.pmt_pid
       /\ autoconf_read_pmt(auto, c, stale).generated_pat = c.generated_pat
       /\ SamePmtState(c, autoconf_read_pmt(auto, c, stale))
       /\ SameStatus(c, autoconf_read_pmt(auto, c, stale))
       /\ SameKind(c, autoconf_read_pmt(auto, c, stale))
  BY <1>3, <1>9 DEF Channel, SamePmtState, SameStatus, SameKind
<1> QED BY <1>9, <1>10 DEF P, pcr

LEMMA StatusIs ==
  ASSUME NEW c \in Channel, NEW config, config.scrambled \in BOOLEAN
  PROVE  LET d == [c EXCEPT !.ready = Status(config, c)] IN
         /\ d \in Channel /\ d.ready = Status(config, c) /\ d.sockets = c.sockets
         /\ SamePids(c, d) /\ SamePmtState(c, d) /\ SameKind(c, d)
<1>1. Status(config, c) \in REMOVED .. READY_EXISTING
  <2>1. c.ready \in REMOVED .. READY_EXISTING BY DEF Channel
  <2> QED BY <2>1, StatusNumbers DEF Status
<1> QED BY <1>1 DEF Channel, SamePids, SamePmtState, SameKind

\* The channel once update_chan_net was there
WithNet(c) == IF c.ready # ALMOST_READY THEN c ELSE [OpenSockets(c) EXCEPT !.ready = READY]

LEMMA NetIs ==
  ASSUME NEW c \in Channel
  PROVE  LET d == WithNet(c) IN
         /\ d \in Channel
         /\ d.ready = IF c.ready = ALMOST_READY THEN READY ELSE c.ready
         /\ d.sockets = (c.sockets \/ c.ready = ALMOST_READY)
         /\ SamePids(c, d) /\ SamePmtState(c, d) /\ SameKind(c, d)
<1>1. READY \in REMOVED .. READY_EXISTING BY StatusNumbers
<1>2. CASE c.ready = ALMOST_READY
  BY <1>1, <1>2 DEF WithNet, OpenSockets, Channel, SamePids, SamePmtState, SameKind
<1>3. CASE c.ready # ALMOST_READY
  BY <1>3 DEF WithNet, Channel, SamePids, SamePmtState, SameKind
<1> QED BY <1>2, <1>3

-----------------------------------------------------------------------------
(* A section of the PAT, of the SDT, of the CAT and a PMT as the           *)
(* transponder `a' sends them                                              *)

IsSection(section) ==
    /\ section.n \in 0 .. LastSection /\ section.last = LastSection
    /\ section.version \in Nat /\ section.current \in BOOLEAN

IsPat(section, a) ==
    /\ IsSection(section)
    /\ DOMAIN section.progs \subseteq On(a)
    /\ \A s \in DOMAIN section.progs : section.progs[s] = a.pat.progs[s]
    /\ section.current =>
        /\ section.version = a.pat.version
        /\ \A s \in On(a) : SectionOf(s) = section.n => s \in DOMAIN section.progs

IsSdt(section, a) ==
    /\ IsSection(section)
    /\ DOMAIN section.kinds \subseteq On(a)
    /\ \A s \in DOMAIN section.kinds : section.kinds[s] = a.sdt.kinds[s]
    /\ section.current =>
        /\ section.version = a.sdt.version
        /\ \A s \in On(a) : SectionOf(s) = section.n => s \in DOMAIN section.kinds

IsCat(section) ==
    /\ section.n = 0 /\ section.last = 0
    /\ section.version \in Nat /\ section.current \in BOOLEAN
    /\ section.emm \in Pids \cup {NoPid}
    /\ \A s \in Services : section.emm \notin PmtPids[s]

IsPmt(section) ==
    /\ section \in PmtSections
    /\ \A s \in Services : section.sid = s =>
          PidsOf(section) \cap PmtPids[s] = {}

-----------------------------------------------------------------------------
(* The tables *)

LEMMA TableIs ==
  ASSUME NEW table \in Table, NEW section, section.version \in Nat, section.n \in 0 .. LastSection
  PROVE  /\ Mark(table, section) \in Table /\ Done(table) \in Table
         /\ Done(table).version = table.version /\ Done(table).seen = table.seen
         /\ Done(table).all_seen
         /\ Mark(table, section).version = section.version
         /\ Mark(table, section).seen = IF IsNew(table, section) THEN {section.n}
                                        ELSE table.seen \cup {section.n}
         /\ Mark(table, section).all_seen = (table.all_seen /\ ~ IsNew(table, section))
<1>1. Done(table) \in Table /\ Done(table).version = table.version
      /\ Done(table).seen = table.seen /\ Done(table).all_seen
  BY DEF Table, Done
<1>2. CASE IsNew(table, section)
  <2>1. Mark(table, section) = [table EXCEPT !.version = section.version,
                                             !.seen = {section.n}, !.all_seen = FALSE]
    BY <1>2 DEF Mark
  <2>2. section.version \in Int /\ {section.n} \subseteq 0 .. LastSection OBVIOUS
  <2> QED BY <1>1, <1>2, <2>1, <2>2 DEF Table
<1>3. CASE ~ IsNew(table, section)
  <2>1. Mark(table, section) = [table EXCEPT !.seen = table.seen \cup {section.n}]
    BY <1>3 DEF Mark
  <2>2. table.version = section.version BY <1>3 DEF IsNew
  <2> QED BY <1>1, <1>3, <2>1, <2>2 DEF Table
<1> QED BY <1>1, <1>2, <1>3

LEMMA NeedUpdateIs ==
  ASSUME NEW table \in Table, NEW section, section.current \in BOOLEAN
  PROVE  /\ NeedUpdate(table, section) \in Table
         /\ NeedUpdate(table, section).version = table.version
         /\ NeedUpdate(table, section).seen = table.seen
         /\ NeedUpdate(table, section).all_seen = table.all_seen
         /\ NeedUpdate(table, section).need_update
               => IsNew(table, section) \/ ~ table.all_seen
BY DEF Table, NeedUpdate, IsNew

-----------------------------------------------------------------------------
(* The PAT is read (autoconf_read_pat) *)

Marked(c, new) == IF new /\ c.ready = READY THEN [c EXCEPT !.ready = READY_EXISTING] ELSE c
Completed(c) ==
    IF c.ready = READY_EXISTING THEN [c EXCEPT !.ready = REMOVED] ELSE [c EXCEPT !.pmt_version = -1]

LEMMA MarkedIs ==
  ASSUME NEW c \in Channel, NEW new \in BOOLEAN
  PROVE  LET d == Marked(c, new) IN
         /\ d \in Channel /\ d.ready = IF new /\ c.ready = READY THEN READY_EXISTING ELSE c.ready
         /\ d.sockets = c.sockets /\ SamePids(c, d) /\ SamePmtState(c, d) /\ SameKind(c, d)
<1>1. READY_EXISTING \in REMOVED .. READY_EXISTING BY StatusNumbers
<1> QED BY <1>1 DEF Marked, Channel, SamePids, SamePmtState, SameKind

LEMMA CompletedIs ==
  ASSUME NEW c \in Channel
  PROVE  LET d == Completed(c) IN
         /\ d \in Channel /\ d.ready = IF c.ready = READY_EXISTING THEN REMOVED ELSE c.ready
         /\ d.pmt_version \in {c.pmt_version, -1} /\ d.pmt_packet = c.pmt_packet
         /\ d.need_cam_ask = c.need_cam_ask /\ d.sockets = c.sockets
         /\ SamePids(c, d) /\ SameKind(c, d)
<1>1. REMOVED \in REMOVED .. READY_EXISTING BY StatusNumbers
<1>2. -1 \in Nat \cup {-1} OBVIOUS
<1> QED BY <1>1, <1>2 DEF Completed, Channel, SamePids, SameKind

\* What one channel becomes
PatChannel(x, section, s) ==
    LET new == IsNew(x.auto.pat, section)
        complete == section.current /\ AllSeen(Mark(x.auto.pat, section), section)
        c == IF s \in DOMAIN section.progs /\ section.current
             THEN autoconf_pat_update_chan(
                    [t \in DOMAIN x.channels |-> Marked(x.channels[t], new)], s, section.progs[s])
             ELSE Marked(x.channels[s], new)
    IN IF complete THEN Completed(c) ELSE c

\* y is x once the section is read.
PatRead(x, section, y) ==
    LET pat == Mark(x.auto.pat, section)
        new == IsNew(x.auto.pat, section)
        complete == section.current /\ AllSeen(pat, section)
    IN /\ y = [auto |-> y.auto, channels |-> y.channels, asked_pid |-> x.asked_pid,
               config |-> x.config]
       /\ y.auto = [x.auto EXCEPT !.pat = IF complete THEN Done(pat) ELSE pat,
                                  !.sdt.version = IF new \/ complete THEN -1 ELSE @]
       /\ y.channels = [s \in DOMAIN x.channels
                               \cup (IF section.current THEN DOMAIN section.progs ELSE {})
                          |-> PatChannel(x, section, s)]

LEMMA ReadPatIs ==
  ASSUME NEW x, IsMain(x), NEW section, ~ AlreadySeen(x.auto.pat, section)
  PROVE  PatRead(x, section, autoconf_read_pat(x, section))
<1> DEFINE y == autoconf_read_pat(x, section)
           pat == Mark(x.auto.pat, section)
           new == IsNew(x.auto.pat, section)
           complete == section.current /\ AllSeen(pat, section)
           list == x.channels
           marked == IF new THEN MarkExisting(list) ELSE list
           listed == [s \in DOMAIN marked \cup DOMAIN section.progs |->
                        IF s \in DOMAIN section.progs
                        THEN autoconf_pat_update_chan(marked, s, section.progs[s])
                        ELSE marked[s]]
<1>1. marked = [t \in DOMAIN list |-> Marked(list[t], new)]
  <2>1. list = [t \in DOMAIN list |-> list[t]] BY DEF IsMain, IsList
  <2>2. CASE new BY <2>2 DEF MarkExisting, Marked
  <2>3. CASE ~ new BY <2>1, <2>3 DEF Marked
  <2> QED BY <2>2, <2>3
<1>2. y = [x EXCEPT !.auto.pat = IF complete THEN Done(pat) ELSE pat,
                    !.auto.sdt.version = IF new \/ complete THEN -1 ELSE @,
                    !.channels = IF ~ section.current THEN marked
                                 ELSE IF complete THEN PatComplete(listed) ELSE listed]
  BY DEF autoconf_read_pat
<1> DEFINE channels == IF ~ section.current THEN marked
                       ELSE IF complete THEN PatComplete(listed) ELSE listed
<1>3. channels = [s \in DOMAIN list \cup (IF section.current THEN DOMAIN section.progs ELSE {})
                    |-> PatChannel(x, section, s)]
  <2> HIDE DEF marked
  <2>1. CASE ~ section.current
    BY <1>1, <2>1 DEF PatChannel
  <2>2. CASE section.current /\ ~ complete
    BY <1>1, <2>2 DEF PatChannel
  <2>3. CASE section.current /\ complete
    BY <1>1, <2>3 DEF PatChannel, PatComplete, Completed
  <2> QED BY <2>1, <2>2, <2>3
<1> HIDE DEF channels, marked, complete, new, pat
<1>4. /\ y = [auto |-> y.auto, channels |-> y.channels, asked_pid |-> x.asked_pid,
              config |-> x.config]
      /\ y.auto = [x.auto EXCEPT !.pat = IF complete THEN Done(pat) ELSE pat,
                                 !.sdt.version = IF new \/ complete THEN -1 ELSE @]
      /\ y.channels = channels
  BY <1>2 DEF IsMain, AutoState, Table, channels
<1> HIDE DEF y
<1>5. PatRead(x, section, y) BY <1>3, <1>4 DEF PatRead, channels, marked, complete, new, pat
<1> QED BY <1>5 DEF y

LEMMA OnPids ==
  ASSUME NEW a, AirIs(a), NEW s \in On(a)
  PROVE  s \in Services /\ a.pat.progs[s] \in PmtPids[s] /\ a.pat.progs[s] \in Pids
<1>1. s \in Services /\ a.pat.progs[s] \in PmtPids[s] BY DEF AirIs, On
<1>2. PmtPids[s] \subseteq Pids BY <1>1, PsiAssumption
<1> QED BY <1>1, <1>2

\* The channel of a service before the PAT is read
Before(x, s) == IF s \in DOMAIN x.channels THEN x.channels[s] ELSE NewChannel

Listed(section, s) == section.current /\ s \in DOMAIN section.progs

LEMMA PatChannelIs ==
  ASSUME NEW x, IsMain(x), NEW a, AirIs(a), NEW section, IsPat(section, a), NEW s,
         s \in DOMAIN x.channels \/ Listed(section, s)
  PROVE  LET c == Before(x, s)
             d == PatChannel(x, section, s)
             new == IsNew(x.auto.pat, section)
             complete == section.current /\ AllSeen(Mark(x.auto.pat, section), section)
         IN
         /\ c \in Channel /\ d \in Channel
         /\ d.pmt_packet = c.pmt_packet /\ d.need_cam_ask = c.need_cam_ask
         /\ d.pmt_version \in {c.pmt_version, -1}
         /\ d.sockets = c.sockets /\ SameKind(c, d)
         /\ d.generated_pat \in {c.generated_pat, NoPat}
         /\ ~ Listed(section, s) => s \in DOMAIN x.channels /\ SamePids(c, d)
         /\ Listed(section, s) =>
              /\ s \in On(a) /\ d.pmt_pid = a.pat.progs[s]
              /\ d.pids = IF a.pat.progs[s] \in ToSet(c.pids) THEN c.pids
                          ELSE Append(c.pids, a.pat.progs[s])
              /\ d.ready = IF c.ready = READY_EXISTING THEN READY
                           ELSE IF c.ready = REMOVED THEN NOT_READY ELSE c.ready
         /\ ~ Listed(section, s) =>
              d.ready = IF (new /\ c.ready = READY) \/ c.ready = READY_EXISTING
                        THEN IF complete THEN REMOVED ELSE READY_EXISTING
                        ELSE c.ready
<1> DEFINE c == Before(x, s)
           new == IsNew(x.auto.pat, section)
           complete == section.current /\ AllSeen(Mark(x.auto.pat, section), section)
           m == IF s \in DOMAIN x.channels THEN Marked(c, new) ELSE c
           u == IF Listed(section, s)
                THEN autoconf_pat_update_chan([t \in DOMAIN x.channels |-> Marked(x.channels[t], new)],
                                              s, section.progs[s])
                ELSE m
           d == PatChannel(x, section, s)
<1>0. new \in BOOLEAN BY DEF IsNew
<1>1. c \in Channel
  BY NewChannelIs DEF Before, IsMain, IsList
<1>2. c.ready = READY => c # NewChannel BY NewChannelIs, StatusNumbers
<1>3. /\ m \in Channel /\ m.ready = IF new /\ c.ready = READY THEN READY_EXISTING ELSE c.ready
      /\ m.sockets = c.sockets /\ SamePids(c, m) /\ SamePmtState(c, m) /\ SameKind(c, m)
  <2>1. CASE s \in DOMAIN x.channels BY <1>0, <1>1, <2>1, MarkedIs
  <2>2. CASE s \notin DOMAIN x.channels
    <3>1. m = c /\ c.ready # READY BY <1>2, <2>2 DEF Before
    <3> QED BY <1>1, <3>1 DEF SamePids, SamePmtState, SameKind
  <2> QED BY <2>1, <2>2
<1>4. d = IF complete THEN Completed(u) ELSE u
  <2>1. CASE Listed(section, s) BY <2>1 DEF PatChannel, Listed
  <2>2. CASE ~ Listed(section, s)
    <3>1. m = Marked(x.channels[s], new) BY <2>2 DEF Before
    <3> QED BY <2>2, <3>1 DEF PatChannel, Listed
  <2> QED BY <2>1, <2>2
<1>5. READY_EXISTING # REMOVED /\ READY_EXISTING # READY /\ READY # REMOVED
      /\ NOT_READY # READY_EXISTING
  BY StatusNumbers
<1>6. CASE Listed(section, s)
  <2>1. s \in On(a) /\ section.progs[s] = a.pat.progs[s] /\ a.pat.progs[s] \in Pids
    BY <1>6, OnPids DEF IsPat, Listed
  <2>2. m = IF s \in DOMAIN [t \in DOMAIN x.channels |-> Marked(x.channels[t], new)]
            THEN [t \in DOMAIN x.channels |-> Marked(x.channels[t], new)][s] ELSE NewChannel
    BY DEF Before
  <2>3. /\ u \in Channel
        /\ u.ready = CASE m.ready = READY_EXISTING -> READY
                       [] m.ready = REMOVED -> NOT_READY
                       [] OTHER -> m.ready
        /\ u.pmt_pid = a.pat.progs[s] /\ u.pmt_version = -1
        /\ u.pids = IF a.pat.progs[s] \in ToSet(m.pids) THEN m.pids
                    ELSE Append(m.pids, a.pat.progs[s])
        /\ u.pmt_packet = m.pmt_packet /\ u.need_cam_ask = m.need_cam_ask
        /\ u.sockets = m.sockets /\ SameKind(m, u)
        /\ u.generated_pat \in {m.generated_pat, NoPat}
    <3> HIDE DEF m
    <3> QED BY <1>3, <1>6, <2>1, <2>2, PatUpdateIs
  <2> HIDE DEF u, m, c
  <2>4. u.ready = IF c.ready = READY_EXISTING THEN READY
                  ELSE IF c.ready = REMOVED THEN NOT_READY ELSE c.ready
    BY <1>3, <1>5, <2>3
  <2>5. u.ready # READY_EXISTING BY <1>5, <2>4
  <2>6. /\ d \in Channel /\ d.ready = u.ready /\ d.pmt_version = -1
        /\ d.pmt_packet = u.pmt_packet /\ d.need_cam_ask = u.need_cam_ask
        /\ d.sockets = u.sockets /\ SamePids(u, d) /\ SameKind(u, d)
    <3>1. CASE complete
      <4>1. d = Completed(u) BY <1>4, <3>1
      <4> HIDE DEF d
      <4> QED BY <2>3, <2>5, <4>1, CompletedIs
    <3>2. CASE ~ complete
      <4>1. d = u BY <1>4, <3>2
      <4> QED BY <2>3, <4>1 DEF SamePids, SameKind
    <3> QED BY <3>1, <3>2
  <2> HIDE DEF d, complete, new
  <2> QED BY <1>1, <1>3, <1>6, <2>1, <2>3, <2>4, <2>6 DEF SamePids, SameKind, SamePmtState, c, d, complete, new
<1>7. CASE ~ Listed(section, s)
  <2>1. s \in DOMAIN x.channels /\ u = m BY <1>7
  <2> HIDE DEF u, m
  <2>2. /\ d \in Channel
        /\ d.ready = IF complete /\ m.ready = READY_EXISTING THEN REMOVED ELSE m.ready
        /\ d.pmt_version \in {m.pmt_version, -1} /\ d.pmt_packet = m.pmt_packet
        /\ d.need_cam_ask = m.need_cam_ask /\ d.sockets = m.sockets
        /\ SamePids(m, d) /\ SameKind(m, d)
    <3>1. CASE complete
      <4>1. d = Completed(m) BY <1>4, <2>1, <3>1
      <4> HIDE DEF d
      <4> QED BY <1>3, <3>1, <4>1, CompletedIs
    <3>2. CASE ~ complete
      <4>1. d = m BY <1>4, <2>1, <3>2
      <4> QED BY <1>3, <3>2, <4>1 DEF SamePids, SameKind
    <3> QED BY <3>1, <3>2
  <2> HIDE DEF c, d, complete, new
  <2>3. d.ready = IF (new /\ c.ready = READY) \/ c.ready = READY_EXISTING
                  THEN IF complete THEN REMOVED ELSE READY_EXISTING
                  ELSE c.ready
    BY <1>0, <1>3, <1>5, <2>2
  <2>4. SamePids(c, d) /\ SameKind(c, d) BY <1>3, <2>2 DEF SamePids, SameKind
  <2>5. /\ d.pmt_packet = c.pmt_packet /\ d.need_cam_ask = c.need_cam_ask
        /\ d.pmt_version \in {c.pmt_version, -1} /\ d.sockets = c.sockets
        /\ d.generated_pat = c.generated_pat
    BY <1>3, <2>2, <2>4 DEF SamePmtState, SamePids
  <2> QED BY <1>1, <1>7, <2>1, <2>2, <2>3, <2>4, <2>5 DEF c, d, complete, new
<1> QED BY <1>6, <1>7

LEMMA ToSetIs ==
  ASSUME NEW S, NEW seq \in Seq(S)
  PROVE  ToSet(seq) = {seq[i] : i \in 1 .. Len(seq)} /\ ToSet(seq) \subseteq S
<1>1. DOMAIN seq = 1 .. Len(seq) BY LenProperties
<1>2. \A i \in 1 .. Len(seq) : seq[i] \in S BY ElementOfSeq
<1> QED BY <1>1, <1>2 DEF ToSet

LEMMA AppendOne ==
  ASSUME NEW S, NEW pid \in S
  PROVE  /\ Append(<<>>, pid) # <<>> /\ Append(<<>>, pid)[1] = pid
         /\ \A i \in DOMAIN Append(<<>>, pid) : Append(<<>>, pid)[i] = pid
<1>1. <<>> \in Seq(S) /\ Len(<<>>) = 0 BY EmptySeq
<1>2. /\ Append(<<>>, pid) \in Seq(S) /\ Len(Append(<<>>, pid)) = 1
      /\ Append(<<>>, pid)[1] = pid
  BY <1>1, AppendProperties
<1>3. DOMAIN Append(<<>>, pid) = 1 .. 1 BY <1>2, LenProperties
<1>4. Append(<<>>, pid) # <<>> BY <1>1, <1>2
<1> QED BY <1>2, <1>3, <1>4

LEMMA PatChannelOk ==
  ASSUME NEW x, IsMain(x), NEW a, AirIs(a), NEW section, IsPat(section, a),
         NEW sent, NEW gone, ChannelsOk(x, sent, a.pat.progs, gone), NEW s,
         s \in DOMAIN x.channels \/ Listed(section, s)
  PROVE  ChannelOk(s, PatChannel(x, section, s), sent[s], a.pat.progs[s], s \notin gone)
<1> DEFINE c == Before(x, s)
           d == PatChannel(x, section, s)
           pid == a.pat.progs[s]
           fixed == s \notin gone
<1>1. /\ c \in Channel /\ d \in Channel
      /\ d.pmt_packet = c.pmt_packet /\ d.need_cam_ask = c.need_cam_ask
      /\ d.pmt_version \in {c.pmt_version, -1} /\ d.sockets = c.sockets
      /\ d.generated_pat \in {c.generated_pat, NoPat}
      /\ Streaming(d) => Streaming(c)
  <2>1. /\ c \in Channel /\ d \in Channel
        /\ d.pmt_packet = c.pmt_packet /\ d.need_cam_ask = c.need_cam_ask
        /\ d.pmt_version \in {c.pmt_version, -1} /\ d.sockets = c.sockets
        /\ d.generated_pat \in {c.generated_pat, NoPat}
    BY PatChannelIs
  <2>2. CASE Listed(section, s)
    <3>1. d.ready = IF c.ready = READY_EXISTING THEN READY
                    ELSE IF c.ready = REMOVED THEN NOT_READY ELSE c.ready
      BY <2>2, PatChannelIs
    <3> HIDE DEF c, d
    <3> QED BY <2>1, <3>1, StatusNumbers
  <2>3. CASE ~ Listed(section, s)
    <3> DEFINE new == IsNew(x.auto.pat, section)
               complete == section.current /\ AllSeen(Mark(x.auto.pat, section), section)
    <3>1. d.ready = IF (new /\ c.ready = READY) \/ c.ready = READY_EXISTING
                    THEN IF complete THEN REMOVED ELSE READY_EXISTING
                    ELSE c.ready
      BY <2>3, PatChannelIs
    <3> HIDE DEF c, d, new, complete
    <3> QED BY <2>1, <3>1, StatusNumbers
  <2> QED BY <2>1, <2>2, <2>3
<1>2. CASE s \in DOMAIN x.channels
  <2>1. ChannelOk(s, c, sent[s], pid, fixed) BY <1>2 DEF ChannelsOk, Before
  <2>2. CASE Listed(section, s)
    <3>1. s \in On(a) /\ d.pmt_pid = pid /\ pid \in PmtPids[s] /\ pid \in Pids /\ pid # NoPid
          /\ d.pids = IF pid \in ToSet(c.pids) THEN c.pids ELSE Append(c.pids, pid)
      <4>1. s \in On(a) /\ d.pmt_pid = pid
            /\ d.pids = IF pid \in ToSet(c.pids) THEN c.pids ELSE Append(c.pids, pid)
        BY <2>2, PatChannelIs
      <4> QED BY <4>1, OnPids DEF On
    <3> HIDE DEF c, d, pid, fixed
    <3>2. c.pids \in Seq(Pids) /\ c.pids # <<>> BY <1>1, <2>1 DEF Channel, ChannelOk
    <3>3. d.pids # <<>>
      <4>1. Len(Append(c.pids, pid)) = Len(c.pids) + 1 /\ Len(c.pids) \in Nat
            /\ Append(c.pids, pid) \in Seq(Pids)
        BY <3>1, <3>2, AppendProperties, LenProperties
      <4>2. Append(c.pids, pid) # <<>> BY <4>1, EmptySeq
      <4> QED BY <3>1, <3>2, <4>2
    <3>4. fixed => PmtPidKept(s, d, pid)
      <4> SUFFICES ASSUME fixed PROVE PmtPidKept(s, d, pid) OBVIOUS
      <4>1. PmtPidKept(s, c, pid) BY <2>1 DEF ChannelOk
      <4>2. pid = c.pmt_pid /\ pid = c.pids[1] BY <3>1, <4>1 DEF PmtPidKept
      <4>3. pid \in ToSet(c.pids)
        <5>1. Len(c.pids) \in Nat /\ Len(c.pids) # 0 BY <3>2, EmptySeq, LenProperties
        <5>2. 1 \in 1 .. Len(c.pids) BY <5>1
        <5> QED BY <3>2, <4>2, <5>2, ToSetIs
      <4>4. d.pids = c.pids BY <3>1, <4>3
      <4>5. d.generated_pat.programs \subseteq c.generated_pat.programs BY <1>1 DEF NoPat
      <4> QED BY <3>1, <4>1, <4>2, <4>4, <4>5 DEF PmtPidKept
    <3>5. ChannelOk(s, d, sent[s], pid, fixed)
      BY <1>1, <2>1, <3>1, <3>3, <3>4 DEF ChannelOk, PmtKept, CamAsked
    <3> QED BY <3>5 DEF d, pid, fixed
  <2>3. CASE ~ Listed(section, s)
    <3>1. SamePids(c, d) BY <2>3, PatChannelIs
    <3> HIDE DEF c, d, pid, fixed
    <3>2. ChannelOk(s, d, sent[s], pid, fixed)
      BY <1>1, <2>1, <3>1 DEF ChannelOk, PmtKept, CamAsked, PmtPidKept, SamePids, NoPat
    <3> QED BY <3>2 DEF d, pid, fixed
  <2> QED BY <2>2, <2>3
<1>3. CASE s \notin DOMAIN x.channels
  <2>1. c = NewChannel BY <1>3 DEF Before
  <2>2. Listed(section, s) BY <1>3
  <2>3. s \in On(a) /\ d.pmt_pid = pid /\ pid \in PmtPids[s] /\ pid \in Pids
        /\ d.pids = IF pid \in ToSet(c.pids) THEN c.pids ELSE Append(c.pids, pid)
    <3>1. s \in On(a) /\ d.pmt_pid = pid
          /\ d.pids = IF pid \in ToSet(c.pids) THEN c.pids ELSE Append(c.pids, pid)
      BY <2>2, PatChannelIs
    <3> QED BY <3>1, OnPids
  <2> HIDE DEF c, d, pid, fixed
  <2>4. /\ c.pids = <<>> /\ c.pmt_packet = NoSection /\ c.need_cam_ask = "NO_ASK"
        /\ c.generated_pat = NoPat /\ ~ Streaming(c) /\ c.pmt_version = -1
    <3>1. NewChannel.pmt_version = -1 BY DEF NewChannel, mumu_init_chan
    <3> QED BY <2>1, <3>1, NewChannelIs, StatusNumbers
  <2>5. pid \notin ToSet(<<>>) BY EmptySeq DEF ToSet
  <2>6. d.pids = Append(<<>>, pid) BY <2>3, <2>4, <2>5
  <2>7. d.pids # <<>> /\ d.pids[1] = pid /\ \A i \in DOMAIN d.pids : d.pids[i] = pid
    BY <2>3, <2>6, AppendOne
  <2>8. d.generated_pat.programs = {} /\ ~ Streaming(d) /\ d.pmt_version = -1
    BY <1>1, <2>4 DEF NoPat
  <2>9. ChannelOk(s, d, sent[s], pid, fixed)
    BY <1>1, <2>3, <2>4, <2>7, <2>8 DEF ChannelOk, PmtKept, CamAsked, PmtPidKept
  <2> QED BY <2>9 DEF d, pid, fixed
<1> QED BY <1>2, <1>3

-----------------------------------------------------------------------------
(* The PAT read: the whole list *)

LEMMA AutoIs ==
  ASSUME NEW auto \in AutoState
  PROVE  /\ auto.pat \in Table /\ auto.sdt \in Table /\ auto.cat \in Table
         /\ auto.emm \in Pids \cup {NoPid} /\ auto.need_filter_chan_update \in BOOLEAN
BY DEF AutoState

\* What reading a section of the PAT makes of the state of the main thread
PatResult(x, section, y) ==
    LET pat == Mark(x.auto.pat, section)
        new == IsNew(x.auto.pat, section)
        complete == section.current /\ AllSeen(pat, section)
    IN /\ IsMain(y) /\ y.config = x.config /\ y.asked_pid = x.asked_pid
       /\ y.auto.cat = x.auto.cat /\ y.auto.emm = x.auto.emm
       /\ y.auto.need_filter_chan_update = x.auto.need_filter_chan_update
       /\ y.auto.pat.version = section.version
       /\ y.auto.pat.seen = IF new THEN {section.n} ELSE x.auto.pat.seen \cup {section.n}
       /\ y.auto.pat.all_seen = (complete \/ (x.auto.pat.all_seen /\ ~ new))
       /\ y.auto.sdt.version = IF new \/ complete THEN -1 ELSE x.auto.sdt.version
       /\ y.auto.sdt.seen = x.auto.sdt.seen /\ y.auto.sdt.all_seen = x.auto.sdt.all_seen
       /\ \A s : s \in DOMAIN y.channels <=> (s \in DOMAIN x.channels \/ Listed(section, s))
       /\ \A s \in DOMAIN y.channels : y.channels[s] = PatChannel(x, section, s)

LEMMA PatStateIs ==
  ASSUME NEW x, IsMain(x), NEW a, AirIs(a), NEW section, IsPat(section, a),
         ~ AlreadySeen(x.auto.pat, section)
  PROVE  PatResult(x, section, autoconf_read_pat(x, section))
<1> DEFINE y == autoconf_read_pat(x, section)
           pat == Mark(x.auto.pat, section)
           new == IsNew(x.auto.pat, section)
           complete == section.current /\ AllSeen(pat, section)
<1>1. /\ y = [auto |-> y.auto, channels |-> y.channels, asked_pid |-> x.asked_pid,
              config |-> x.config]
      /\ y.auto = [x.auto EXCEPT !.pat = IF complete THEN Done(pat) ELSE pat,
                                 !.sdt.version = IF new \/ complete THEN -1 ELSE @]
      /\ y.channels = [s \in DOMAIN x.channels
                              \cup (IF section.current THEN DOMAIN section.progs ELSE {})
                         |-> PatChannel(x, section, s)]
  <2>1. PatRead(x, section, y) BY ReadPatIs
  <2> HIDE DEF y
  <2> QED BY <2>1, Zenon DEF PatRead
<1>2. x.auto \in AutoState BY DEF IsMain
<1>3. /\ x.auto.pat \in Table /\ x.auto.sdt \in Table /\ section.version \in Nat
      /\ section.n \in 0 .. LastSection /\ section.current \in BOOLEAN
  BY <1>2, AutoIs DEF IsPat, IsSection
<1>4. /\ pat \in Table /\ Done(pat) \in Table /\ Done(pat).version = pat.version
      /\ Done(pat).seen = pat.seen /\ Done(pat).all_seen
      /\ pat.version = section.version
      /\ pat.seen = IF new THEN {section.n} ELSE x.auto.pat.seen \cup {section.n}
      /\ pat.all_seen = (x.auto.pat.all_seen /\ ~ new)
  <2>1. pat \in Table /\ pat.version = section.version
        /\ pat.seen = (IF new THEN {section.n} ELSE x.auto.pat.seen \cup {section.n})
        /\ pat.all_seen = (x.auto.pat.all_seen /\ ~ new)
    BY <1>3, TableIs
  <2> HIDE DEF pat, new
  <2>2. Done(pat) \in Table /\ Done(pat).version = pat.version
        /\ Done(pat).seen = pat.seen /\ Done(pat).all_seen
    BY <2>1 DEF Table, Done
  <2> QED BY <2>1, <2>2
<1>5. \A s : s \in DOMAIN y.channels <=> (s \in DOMAIN x.channels \/ Listed(section, s))
  <2> HIDE DEF y
  <2> QED BY <1>1 DEF Listed
<1>6. \A s \in DOMAIN y.channels : y.channels[s] = PatChannel(x, section, s)
  <2> HIDE DEF y
  <2> QED BY <1>1
<1>7. IsList(y.channels)
  <2>1. DOMAIN y.channels \subseteq Services
    <3>1. DOMAIN x.channels \subseteq Services BY DEF IsMain, IsList
    <3>2. \A s : Listed(section, s) => s \in Services BY DEF Listed, IsPat, On
    <3> HIDE DEF y
    <3> QED BY <1>5, <3>1, <3>2
  <2>2. \A s \in DOMAIN y.channels : y.channels[s] \in Channel
    <3> SUFFICES ASSUME NEW s \in DOMAIN y.channels PROVE y.channels[s] \in Channel OBVIOUS
    <3>1. s \in DOMAIN x.channels \/ Listed(section, s) BY <1>5
    <3>2. PatChannel(x, section, s) \in Channel BY <3>1, PatChannelIs
    <3> QED BY <1>6, <3>2
  <2>3. y.channels = [s \in DOMAIN y.channels |-> y.channels[s]]
    <3> HIDE DEF y
    <3> QED BY <1>1
  <2> HIDE DEF y
  <2> QED BY <2>1, <2>2, <2>3 DEF IsList
<1> HIDE DEF y, pat, new, complete
<1>8. /\ y.auto \in AutoState
      /\ y.auto.pat = IF complete THEN Done(pat) ELSE pat
      /\ y.auto.sdt.version = IF new \/ complete THEN -1 ELSE x.auto.sdt.version
      /\ y.auto.sdt.seen = x.auto.sdt.seen /\ y.auto.sdt.all_seen = x.auto.sdt.all_seen
      /\ y.auto.cat = x.auto.cat /\ y.auto.emm = x.auto.emm
      /\ y.auto.need_filter_chan_update = x.auto.need_filter_chan_update
  <2> DEFINE newSdt == [x.auto.sdt EXCEPT !.version = IF new \/ complete THEN -1 ELSE @]
             newPat == IF complete THEN Done(pat) ELSE pat
  <2>1. newSdt \in Table
        /\ newSdt.version = (IF new \/ complete THEN -1 ELSE x.auto.sdt.version)
        /\ newSdt.seen = x.auto.sdt.seen /\ newSdt.all_seen = x.auto.sdt.all_seen
    BY <1>3 DEF Table
  <2>2. newPat \in Table BY <1>4
  <2>3. y.auto = [x.auto EXCEPT !.pat = newPat, !.sdt = newSdt] BY <1>1, <1>2 DEF AutoState
  <2> HIDE DEF newSdt, newPat
  <2>4. y.auto \in AutoState /\ y.auto.pat = newPat /\ y.auto.sdt = newSdt
        /\ y.auto.cat = x.auto.cat /\ y.auto.emm = x.auto.emm
        /\ y.auto.need_filter_chan_update = x.auto.need_filter_chan_update
    BY <1>2, <2>1, <2>2, <2>3 DEF AutoState
  <2> QED BY <2>1, <2>4 DEF newPat
<1>9. IsMain(y) /\ y.config = x.config /\ y.asked_pid = x.asked_pid
  BY <1>1, <1>7, <1>8 DEF IsMain
<1>10. /\ y.auto.pat.version = section.version
       /\ y.auto.pat.seen = IF new THEN {section.n} ELSE x.auto.pat.seen \cup {section.n}
       /\ y.auto.pat.all_seen = (complete \/ (x.auto.pat.all_seen /\ ~ new))
  <2>1. CASE complete BY <1>4, <1>8, <2>1
  <2>2. CASE ~ complete BY <1>4, <1>8, <2>2
  <2> QED BY <2>1, <2>2
<1>11. PatResult(x, section, y)
  BY <1>5, <1>6, <1>8, <1>9, <1>10 DEF PatResult, pat, new, complete
<1> QED BY <1>11 DEF y

\* A section is read when it is of a new version or one of an incomplete table.
Wanting(table, section) == IsNew(table, section) \/ ~ table.all_seen

LEMMA PatKeeps ==
  ASSUME NEW x, IsMain(x), NEW a, AirIs(a), NEW section, IsPat(section, a),
         ~ AlreadySeen(x.auto.pat, section), Wanting(x.auto.pat, section),
         NEW sent, NEW gone, ChannelsOk(x, sent, a.pat.progs, gone), SdtAfterPat(x)
  PROVE  LET y == autoconf_read_pat(x, section) IN
         /\ y.auto.sdt.version = -1
         /\ ChannelsOk(y, sent, a.pat.progs, gone) /\ SdtAfterPat(y) /\ FiltersSet(y)
<1> DEFINE y == autoconf_read_pat(x, section)
           new == IsNew(x.auto.pat, section)
           complete == section.current /\ AllSeen(Mark(x.auto.pat, section), section)
<1>1. /\ y.auto.sdt.version = IF new \/ complete THEN -1 ELSE x.auto.sdt.version
      /\ \A s : s \in DOMAIN y.channels <=> (s \in DOMAIN x.channels \/ Listed(section, s))
      /\ \A s \in DOMAIN y.channels : y.channels[s] = PatChannel(x, section, s)
  <2>1. PatResult(x, section, y) BY PatStateIs
  <2> HIDE DEF y
  <2> QED BY <2>1 DEF PatResult
<1> HIDE DEF y
<1>2. y.auto.sdt.version = -1
  BY <1>1 DEF Wanting, SdtAfterPat
<1>3. ChannelsOk(y, sent, a.pat.progs, gone)
  <2> SUFFICES ASSUME NEW s \in DOMAIN y.channels
               PROVE  ChannelOk(s, y.channels[s], sent[s], a.pat.progs[s], s \notin gone)
    BY DEF ChannelsOk
  <2>1. s \in DOMAIN x.channels \/ Listed(section, s) BY <1>1
  <2>2. y.channels[s] = PatChannel(x, section, s) BY <1>1
  <2> QED BY <2>1, <2>2, PatChannelOk
<1> QED BY <1>2, <1>3 DEF SdtAfterPat, FiltersSet, y

LEMMA PatTables ==
  ASSUME NEW x, IsMain(x), NEW a, AirIs(a), NEW section, IsPat(section, a), section.current,
         ~ AlreadySeen(x.auto.pat, section), Wanting(x.auto.pat, section),
         SdtAfterPat(x), TablesRead(x, a)
  PROVE  TablesKnown(autoconf_read_pat(x, section), a)
<1> DEFINE y == autoconf_read_pat(x, section)
           new == IsNew(x.auto.pat, section)
           complete == section.current /\ AllSeen(Mark(x.auto.pat, section), section)
<1>1. /\ IsMain(y)
      /\ y.auto.pat.version = section.version
      /\ y.auto.pat.seen = IF new THEN {section.n} ELSE x.auto.pat.seen \cup {section.n}
      /\ y.auto.pat.all_seen = (complete \/ (x.auto.pat.all_seen /\ ~ new))
      /\ y.auto.sdt.version = IF new \/ complete THEN -1 ELSE x.auto.sdt.version
      /\ y.auto.sdt.seen = x.auto.sdt.seen /\ y.auto.sdt.all_seen = x.auto.sdt.all_seen
      /\ \A s : s \in DOMAIN y.channels <=> (s \in DOMAIN x.channels \/ Listed(section, s))
      /\ \A s \in DOMAIN y.channels : y.channels[s] = PatChannel(x, section, s)
  <2>1. PatResult(x, section, y) BY PatStateIs
  <2> HIDE DEF y
  <2> QED BY <2>1 DEF PatResult
<1>2. /\ section.version = a.pat.version /\ section.n \in 0 .. LastSection
      /\ section.last = LastSection
      /\ \A s \in On(a) : SectionOf(s) = section.n => s \in DOMAIN section.progs
  BY DEF IsPat, IsSection
<1>3. a.pat.version \in Nat /\ a.sdt.version \in Nat BY DEF AirIs, Air
<1>4. Mark(x.auto.pat, section).seen = IF new THEN {section.n} ELSE x.auto.pat.seen \cup {section.n}
  BY DEF Mark
<1>5. x.auto.pat \in Table BY AutoIs DEF IsMain
<1>6. READY_EXISTING # REMOVED /\ READY # REMOVED /\ READY # READY_EXISTING
      /\ NOT_READY \notin {REMOVED, READY_EXISTING}
  BY StatusNumbers
<1> HIDE DEF y
<1>7. AllSections(y.auto.pat)
  <2> SUFFICES ASSUME y.auto.pat.all_seen PROVE y.auto.pat.seen = 0 .. LastSection
    BY DEF AllSections
  <2>1. complete BY <1>1 DEF Wanting
  <2>2. 0 .. LastSection \subseteq y.auto.pat.seen BY <1>1, <1>2, <1>4, <2>1 DEF AllSeen
  <2>3. y.auto.pat.seen \subseteq 0 .. LastSection BY <1>1, <1>2, <1>5 DEF Table
  <2> QED BY <2>2, <2>3
<1>8. AllSections(y.auto.sdt) BY <1>1 DEF AllSections, TablesRead
<1>9. y.auto.sdt.version = -1 BY <1>1 DEF Wanting, SdtAfterPat
<1>10. ASSUME NEW s \in On(a), SectionOf(s) \in y.auto.pat.seen
       PROVE  s \in DOMAIN y.channels /\ y.channels[s].ready \notin {REMOVED, READY_EXISTING}
  <2>1. CASE Listed(section, s)
    <3>1. s \in DOMAIN y.channels /\ y.channels[s] = PatChannel(x, section, s) BY <1>1, <2>1
    <3>2. PatChannel(x, section, s).ready =
             IF Before(x, s).ready = READY_EXISTING THEN READY
             ELSE IF Before(x, s).ready = REMOVED THEN NOT_READY ELSE Before(x, s).ready
      BY <2>1, PatChannelIs
    <3> QED BY <1>6, <3>1, <3>2
  <2>2. CASE ~ Listed(section, s)
    <3>1. SectionOf(s) # section.n BY <1>2, <2>2 DEF Listed
    <3>2. ~ new /\ SectionOf(s) \in x.auto.pat.seen BY <1>1, <1>10, <3>1
    <3>3. x.auto.pat.version = a.pat.version BY <1>2, <3>2 DEF IsNew
    <3>4. s \in DOMAIN x.channels /\ x.channels[s].ready \notin {REMOVED, READY_EXISTING}
      BY <3>2, <3>3 DEF TablesRead, PatKnown
    <3>5. s \in DOMAIN y.channels /\ y.channels[s] = PatChannel(x, section, s) BY <1>1, <3>4
    <3>6. PatChannel(x, section, s).ready =
             IF (new /\ Before(x, s).ready = READY) \/ Before(x, s).ready = READY_EXISTING
             THEN IF complete THEN REMOVED ELSE READY_EXISTING
             ELSE Before(x, s).ready
      BY <2>2, <3>4, PatChannelIs
    <3>7. Before(x, s) = x.channels[s] BY <3>4 DEF Before
    <3> QED BY <3>2, <3>4, <3>5, <3>6, <3>7
  <2> QED BY <2>1, <2>2
<1>11. PatKnown(y, a) BY <1>1, <1>2, <1>3, <1>10 DEF PatKnown
<1>12. SdtKnown(y, a) /\ StatusKnown(y, a) BY <1>3, <1>9 DEF SdtKnown, StatusKnown, InForce
<1> QED BY <1>7, <1>8, <1>11, <1>12 DEF TablesKnown, TablesRead, y

LEMMA PatGone ==
  ASSUME NEW x, IsMain(x), NEW a, AirIs(a), NEW section, IsPat(section, a), section.current,
         ~ AlreadySeen(x.auto.pat, section), Wanting(x.auto.pat, section),
         NEW left, GoneChannels(x, a, left)
  PROVE  GoneChannels(autoconf_read_pat(x, section), a, left)
<1> DEFINE y == autoconf_read_pat(x, section)
           new == IsNew(x.auto.pat, section)
           complete == section.current /\ AllSeen(Mark(x.auto.pat, section), section)
<1>1. /\ y.config = x.config
      /\ y.auto.pat.version = section.version
      /\ y.auto.pat.all_seen = (complete \/ (x.auto.pat.all_seen /\ ~ new))
      /\ \A s : s \in DOMAIN y.channels <=> (s \in DOMAIN x.channels \/ Listed(section, s))
      /\ \A s \in DOMAIN y.channels : y.channels[s] = PatChannel(x, section, s)
  <2>1. PatResult(x, section, y) BY PatStateIs
  <2> HIDE DEF y
  <2> QED BY <2>1 DEF PatResult
<1>2. section.version = a.pat.version BY DEF IsPat
<1>3. READY_EXISTING # REMOVED /\ READY # READY_EXISTING /\ NOT_READY # READY_EXISTING
      /\ READY # REMOVED /\ NO_STREAMING # READY
  BY StatusNumbers
<1> HIDE DEF y
<1>4. ASSUME y.auto.pat.all_seen, NEW s \in DOMAIN y.channels
      PROVE  y.channels[s].ready # READY_EXISTING
  <2>1. complete BY <1>1, <1>4 DEF Wanting
  <2>2. s \in DOMAIN x.channels \/ Listed(section, s) BY <1>1
  <2>3. CASE Listed(section, s)
    <3>1. PatChannel(x, section, s).ready =
             IF Before(x, s).ready = READY_EXISTING THEN READY
             ELSE IF Before(x, s).ready = REMOVED THEN NOT_READY ELSE Before(x, s).ready
      BY <2>3, PatChannelIs
    <3> QED BY <1>1, <1>3, <3>1
  <2>4. CASE ~ Listed(section, s)
    <3>1. PatChannel(x, section, s).ready =
             IF (new /\ Before(x, s).ready = READY) \/ Before(x, s).ready = READY_EXISTING
             THEN IF complete THEN REMOVED ELSE READY_EXISTING
             ELSE Before(x, s).ready
      BY <2>2, <2>4, PatChannelIs
    <3> QED BY <1>1, <1>3, <2>1, <3>1
  <2> QED BY <2>3, <2>4
<1>5. ASSUME NEW s \in DOMAIN y.channels \ (On(a) \cup left)
      PROVE  Gone(y, y.channels[s]) /\ y.channels[s].ready # READY
  <2>1. ~ Listed(section, s) BY DEF Listed, IsPat
  <2>2. s \in DOMAIN x.channels BY <1>1, <2>1
  <2> DEFINE c == x.channels[s]
             d == y.channels[s]
  <2>3. d = PatChannel(x, section, s) /\ c = Before(x, s) BY <1>1, <2>2 DEF Before
  <2>4. d.ready = IF (new /\ c.ready = READY) \/ c.ready = READY_EXISTING
                  THEN IF complete THEN REMOVED ELSE READY_EXISTING
                  ELSE c.ready
    BY <2>1, <2>2, <2>3, PatChannelIs
  <2>5. SameKind(c, d) BY <2>2, <2>3, PatChannelIs
  <2>6. Gone(x, c) /\ (x.auto.pat.version = a.pat.version => c.ready # READY)
    BY <2>2 DEF GoneChannels
  <2>7. ~ new => c.ready # READY BY <1>2, <2>6 DEF IsNew
  <2> HIDE DEF c, d
  <2>8. Gone(y, d) /\ d.ready # READY
    BY <1>1, <1>3, <2>4, <2>5, <2>6, <2>7 DEF Gone, SameKind
  <2> QED BY <2>8 DEF d
<1>6. GoneChannels(y, a, left) BY <1>4, <1>5 DEF GoneChannels
<1> QED BY <1>6 DEF y

-----------------------------------------------------------------------------
(* Steps that leave the status and the kind of the channels and what was   *)
(* seen of the tables as they were                                         *)

SameTable(t, u) == u.version = t.version /\ u.seen = t.seen /\ u.all_seen = t.all_seen

Steady(x, y) ==
    /\ IsMain(y) /\ y.config = x.config
    /\ SameTable(x.auto.pat, y.auto.pat)
    /\ y.auto.sdt.seen = x.auto.sdt.seen /\ y.auto.sdt.all_seen = x.auto.sdt.all_seen
    /\ y.auto.sdt.version \in {x.auto.sdt.version, -1}
    /\ DOMAIN y.channels = DOMAIN x.channels
    /\ \A s \in DOMAIN x.channels :
          SameStatus(x.channels[s], y.channels[s]) /\ SameKind(x.channels[s], y.channels[s])

\* And the PIDs too
Quiet(x, y) ==
    /\ Steady(x, y)
    /\ y.asked_pid = x.asked_pid
    /\ \A s \in DOMAIN x.channels : y.channels[s].pids = x.channels[s].pids

LEMMA OnSection ==
  ASSUME NEW a, NEW s \in On(a)
  PROVE  s \in Services /\ SectionOf(s) \in 0 .. LastSection
BY PsiAssumption DEF On, SectionOf

\* All of the PAT was read: its services are in the list.
LEMMA PatAllRead ==
  ASSUME NEW x, NEW a, AllSections(x.auto.pat), PatKnown(x, a), x.auto.pat.all_seen,
         x.auto.pat.version = a.pat.version, NEW s \in On(a)
  PROVE  s \in DOMAIN x.channels /\ x.channels[s].ready \notin {REMOVED, READY_EXISTING}
BY OnSection DEF AllSections, PatKnown

LEMMA SteadyKeeps ==
  ASSUME NEW x, NEW y, Steady(x, y), NEW a, AirIs(a), NEW left, SdtAfterPat(x)
  PROVE  /\ SdtAfterPat(y)
         /\ TablesRead(x, a) => TablesRead(y, a) /\ (StatusKnown(x, a) => StatusKnown(y, a))
         /\ GoneChannels(x, a, left) => GoneChannels(y, a, left)
<1>0. a.sdt.version \in Nat /\ a.pat.version \in Nat BY DEF AirIs, Air
<1>1. SdtAfterPat(y) BY DEF SdtAfterPat, Steady, SameTable
<1>3. InForce(y, a) => InForce(x, a) BY <1>0 DEF InForce, Steady, SameTable
<1>4. y.config = x.config BY DEF Steady
<1>5. ASSUME TablesRead(x, a)
      PROVE  TablesRead(y, a) /\ (StatusKnown(x, a) => StatusKnown(y, a))
  <2>1. PatKnown(y, a) BY <1>5 DEF TablesRead, PatKnown, Steady, SameTable, SameStatus
  <2>2. y.auto.sdt.version <= a.sdt.version BY <1>0, <1>5 DEF TablesRead, SdtKnown, Steady
  <2>3. AllSections(y.auto.pat) /\ AllSections(y.auto.sdt)
    BY <1>5 DEF TablesRead, AllSections, Steady, SameTable
  <2>4. ASSUME InForce(y, a), NEW s \in On(a) PROVE s \in DOMAIN x.channels
    <3>1. InForce(x, a) BY <1>3, <2>4
    <3>2. x.auto.pat.all_seen /\ x.auto.pat.version = a.pat.version
      BY <1>0, <3>1 DEF InForce, SdtAfterPat
    <3> QED BY <1>5, <3>2, PatAllRead DEF TablesRead
  <2>5. SdtKnown(y, a)
    <3>1. ASSUME InForce(y, a), NEW s \in On(a), SectionOf(s) \in y.auto.sdt.seen
          PROVE  /\ y.channels[s].free_ca = a.sdt.kinds[s].ca
                 /\ y.channels[s].type = a.sdt.kinds[s].type
      <4>1. InForce(x, a) /\ SectionOf(s) \in x.auto.sdt.seen BY <1>3, <3>1 DEF Steady
      <4>2. /\ x.channels[s].free_ca = a.sdt.kinds[s].ca
            /\ x.channels[s].type = a.sdt.kinds[s].type
        BY <1>5, <4>1 DEF TablesRead, SdtKnown
      <4>3. s \in DOMAIN x.channels BY <2>4, <3>1
      <4> QED BY <4>2, <4>3 DEF Steady, SameKind
    <3> QED BY <2>2, <3>1 DEF SdtKnown
  <2>6. ASSUME StatusKnown(x, a) PROVE StatusKnown(y, a)
    <3> SUFFICES ASSUME InForce(y, a), y.auto.sdt.all_seen, NEW s \in On(a)
                 PROVE  /\ Scrambled(y, a.sdt.kinds[s]) => y.channels[s].ready = NO_STREAMING
                        /\ ~ Scrambled(y, a.sdt.kinds[s]) /\ a.sdt.kinds[s].type = "tv"
                              => y.channels[s].ready = READY
      BY DEF StatusKnown
    <3>1. InForce(x, a) /\ x.auto.sdt.all_seen BY <1>3 DEF Steady
    <3>2. y.channels[s].ready = x.channels[s].ready BY <2>4 DEF Steady, SameStatus
    <3>3. /\ Scrambled(x, a.sdt.kinds[s]) => x.channels[s].ready = NO_STREAMING
          /\ ~ Scrambled(x, a.sdt.kinds[s]) /\ a.sdt.kinds[s].type = "tv"
                => x.channels[s].ready = READY
      BY <2>6, <3>1 DEF StatusKnown
    <3> QED BY <1>4, <3>2, <3>3 DEF Scrambled
  <2> QED BY <2>1, <2>3, <2>5, <2>6 DEF TablesRead
<1>6. ASSUME GoneChannels(x, a, left) PROVE GoneChannels(y, a, left)
  <2>1. ASSUME NEW s \in DOMAIN y.channels, y.auto.pat.all_seen
        PROVE  y.channels[s].ready # READY_EXISTING
    BY <1>6, <2>1 DEF GoneChannels, Steady, SameTable, SameStatus
  <2>2. ASSUME NEW s \in DOMAIN y.channels \ (On(a) \cup left)
        PROVE  /\ Gone(y, y.channels[s])
               /\ y.auto.pat.version = a.pat.version => y.channels[s].ready # READY
    <3>1. s \in DOMAIN x.channels \ (On(a) \cup left) BY DEF Steady
    <3>2. /\ Gone(x, x.channels[s])
          /\ x.auto.pat.version = a.pat.version => x.channels[s].ready # READY
      BY <1>6, <3>1 DEF GoneChannels
    <3>3. /\ SameStatus(x.channels[s], y.channels[s]) /\ SameKind(x.channels[s], y.channels[s])
          /\ y.auto.pat.version = x.auto.pat.version
      BY <3>1 DEF Steady, SameTable
    <3> QED BY <1>4, <3>2, <3>3 DEF Gone, SameStatus, SameKind
  <2> QED BY <2>1, <2>2 DEF GoneChannels
<1> QED BY <1>1, <1>5, <1>6

LEMMA QuietKeeps ==
  ASSUME NEW x, NEW y, Quiet(x, y), FiltersSet(x)
  PROVE  FiltersSet(y)
<1>1. Filtered(x) => Filtered(y) BY DEF Filtered, Quiet, Steady, SameStatus, Streaming
<1> QED BY <1>1 DEF FiltersSet, Quiet, Steady

-----------------------------------------------------------------------------
(* What holds at every point of the first step: the filters and the status *)
(* are right, or are to be made so before the step ends.  `known' tells    *)
(* that no section was sent ahead.                                         *)

Good(x, a, sent, gone, left, known) ==
    /\ IsMain(x) /\ ChannelsOk(x, sent, a.pat.progs, gone) /\ EmmOk(x) /\ SdtAfterPat(x)
    /\ FiltersSet(x) \/ x.auto.need_filter_chan_update
    /\ known => TablesRead(x, a) /\ (StatusKnown(x, a) \/ x.auto.need_filter_chan_update)
    /\ known /\ ~ x.config.scam =>
          /\ GoneChannels(x, a, left)
          /\ x.auto.need_filter_chan_update => x.auto.pat.all_seen

SameNeed(x, y) ==
    /\ x.auto.need_filter_chan_update => y.auto.need_filter_chan_update
    /\ y.auto.need_filter_chan_update => x.auto.need_filter_chan_update \/ x.config.scam

LEMMA SteadyGood ==
  ASSUME NEW x, NEW y, NEW a, AirIs(a), NEW sent, NEW gone, NEW left, NEW known,
         Good(x, a, sent, gone, left, known), Steady(x, y), SameNeed(x, y), EmmOk(y),
         ChannelsOk(y, sent, a.pat.progs, gone), FiltersSet(x) => FiltersSet(y)
  PROVE  /\ Good(y, a, sent, gone, left, known)
         /\ known /\ StatusKnown(x, a) => StatusKnown(y, a)
<1>1. SdtAfterPat(x) BY DEF Good
<1>2. /\ SdtAfterPat(y)
      /\ TablesRead(x, a) => TablesRead(y, a) /\ (StatusKnown(x, a) => StatusKnown(y, a))
      /\ GoneChannels(x, a, left) => GoneChannels(y, a, left)
  BY <1>1, SteadyKeeps
<1>3. IsMain(y) /\ y.config = x.config /\ y.auto.pat.all_seen = x.auto.pat.all_seen
  BY DEF Steady, SameTable
<1> QED BY <1>2, <1>3 DEF Good, SameNeed

LEMMA QuietGood ==
  ASSUME NEW x, NEW y, NEW a, AirIs(a), NEW sent, NEW gone, NEW left, NEW known,
         Good(x, a, sent, gone, left, known), Quiet(x, y), SameNeed(x, y), EmmOk(y),
         ChannelsOk(y, sent, a.pat.progs, gone)
  PROVE  Good(y, a, sent, gone, left, known)
<1>1. FiltersSet(x) => FiltersSet(y) BY QuietKeeps
<1>2. Steady(x, y) BY DEF Quiet
<1> QED BY <1>1, <1>2, SteadyGood

-----------------------------------------------------------------------------
(* A PMT comes for its channel (chan_new_pmt) *)

\* What it makes of the channel of service s
Received(s, c, pid, section, whole) ==
    LET need == c.pmt_need_update \/ chan_pmt_need_update(s, c, section)
        got == [c EXCEPT !.pmt_need_update = TRUE, !.pmt_packet = section]
    IN IF pid = 0 \/ c.pmt_pid # pid \/ ~ Streaming(c) \/ ~ need THEN c
       ELSE IF whole THEN chan_pmt_ok(s, got, section)
       ELSE [c EXCEPT !.pmt_need_update = TRUE]

\* c becomes d, and nothing but what a PMT is for changes.
StillOk(s, c, d, sent, prog, fixed) ==
    /\ d \in Channel /\ d.pids = c.pids /\ SameStatus(c, d) /\ SameKind(c, d)
    /\ ChannelOk(s, d, sent, prog, fixed)

LEMMA ReceivedIs ==
  ASSUME NEW s \in Services, NEW c \in Channel, NEW pid, NEW section, NEW whole,
         NEW sent, NEW prog, NEW fixed, ChannelOk(s, c, sent, prog, fixed),
         c.pmt_pid = pid => IsPmt(section) /\ section.sid = s
  PROVE  StillOk(s, c, Received(s, c, pid, section, whole), sent, prog, fixed)
<1> DEFINE d == Received(s, c, pid, section, whole)
           need == c.pmt_need_update \/ chan_pmt_need_update(s, c, section)
           got == [c EXCEPT !.pmt_need_update = TRUE, !.pmt_packet = section]
           idle == pid = 0 \/ c.pmt_pid # pid \/ ~ Streaming(c) \/ ~ need
<1>1. CASE idle
  <2>1. d = c BY <1>1 DEF Received
  <2> HIDE DEF d
  <2>2. StillOk(s, d, d, sent, prog, fixed) BY <2>1 DEF StillOk, SameStatus, SameKind
  <2> QED BY <2>1, <2>2 DEF d
<1>2. CASE ~ idle /\ ~ whole
  <2>1. d = [c EXCEPT !.pmt_need_update = TRUE] BY <1>2 DEF Received
  <2> HIDE DEF d
  <2>2. /\ d \in Channel /\ d.pids = c.pids /\ SameStatus(c, d) /\ SameKind(c, d)
        /\ SamePids(c, d) /\ SamePmtState(c, d)
    BY <2>1 DEF Channel, SameStatus, SameKind, SamePids, SamePmtState
  <2>3. ChannelOk(s, d, sent, prog, fixed)
    BY <2>2 DEF ChannelOk, PmtKept, CamAsked, PmtPidKept, Streaming, SameStatus, SamePids,
                SamePmtState
  <2> QED BY <2>2, <2>3 DEF StillOk, d
<1>3. CASE ~ idle /\ whole
  <2>1. d = chan_pmt_ok(s, got, section) BY <1>3 DEF Received
  <2>2. section \in PmtSections /\ section.sid = s /\ PidsOf(section) \cap PmtPids[s] = {}
    BY <1>3 DEF IsPmt
  <2>3. /\ got \in Channel /\ got.pmt_packet = section /\ got.pmt_version = c.pmt_version
        /\ got.need_cam_ask = c.need_cam_ask /\ SamePids(c, got)
        /\ SameStatus(c, got) /\ SameKind(c, got)
    <3>1. section \in Pmts BY <2>2 DEF Pmts
    <3> QED BY <3>1 DEF Channel, SameStatus, SameKind, SamePids
  <2> HIDE DEF got
  <2>4. section.version \in Nat /\ section # NoSection
    <3>1. s # 0 BY PsiAssumption
    <3> QED BY <2>2, <3>1 DEF PmtSections, NoSection
  <2>5. CASE section.version = c.pmt_version
    <3>1. d = [got EXCEPT !.pmt_need_update = FALSE] BY <2>1, <2>2, <2>3, <2>5 DEF chan_pmt_ok
    <3> HIDE DEF d
    <3>2. /\ d \in Channel /\ d.pmt_packet = section /\ d.pmt_version = c.pmt_version
          /\ d.need_cam_ask = c.need_cam_ask /\ SamePids(c, d)
          /\ SameStatus(c, d) /\ SameKind(c, d)
      BY <2>3, <3>1 DEF Channel, SameStatus, SameKind, SamePids
    <3>3. c.pmt_packet.sid = s /\ c.pmt_packet.version = section.version
      <4>1. c.pmt_version # -1 BY <2>4, <2>5
      <4> QED BY <2>5, <4>1 DEF ChannelOk, PmtKept
    <3>4. PmtKept(s, d) /\ CamAsked(d, sent)
      BY <2>2, <2>4, <2>5, <3>2, <3>3 DEF ChannelOk, PmtKept, CamAsked, SamePmt
    <3>5. ChannelOk(s, d, sent, prog, fixed)
      BY <3>2, <3>4 DEF ChannelOk, PmtPidKept, Streaming, SameStatus, SamePids
    <3> QED BY <3>2, <3>5 DEF SamePids, StillOk, d
  <2>6. CASE section.version # c.pmt_version
    <3> DEFINE ask == IF c.need_cam_ask = "ASKED" THEN "NEED_UPDATE" ELSE c.need_cam_ask
    <3>1. d = [got EXCEPT !.pmt_version = section.version, !.pmt_need_update = FALSE,
                          !.autoconf_pmt = TRUE, !.need_cam_ask = ask]
      BY <2>1, <2>2, <2>3, <2>6 DEF chan_pmt_ok, StorePmt
    <3>2. ask \in Asks /\ ask # "ASKED" BY DEF Channel, Asks
    <3> HIDE DEF d, ask
    <3>3. /\ d \in Channel /\ d.pmt_packet = section /\ d.pmt_version = section.version
          /\ d.need_cam_ask = ask /\ SamePids(c, d)
          /\ SameStatus(c, d) /\ SameKind(c, d)
      BY <2>3, <2>4, <3>1, <3>2 DEF Channel, SameStatus, SameKind, SamePids
    <3>4. PmtKept(s, d) /\ CamAsked(d, sent)
      BY <2>2, <2>4, <3>2, <3>3 DEF PmtKept, CamAsked
    <3>5. ChannelOk(s, d, sent, prog, fixed)
      BY <3>3, <3>4 DEF ChannelOk, PmtPidKept, Streaming, SameStatus, SamePids
    <3> QED BY <3>3, <3>5 DEF SamePids, StillOk, d
  <2> QED BY <2>5, <2>6
<1> QED BY <1>1, <1>2, <1>3

\* The PID of a packet, and what begins in it
IsPacket(pid, section, a) ==
    \/ pid = 0 /\ IsPat(section, a)
    \/ pid = 1 /\ IsCat(section)
    \/ pid = 17 /\ (section.other \/ IsSdt(section, a))
    \/ /\ IsPmt(section) /\ section.sid \in On(a)
       /\ pid = a.pat.progs[section.sid]

LEMMA PmtPidIs ==
  ASSUME NEW s \in Services, NEW pid \in PmtPids[s]
  PROVE  pid \in Pids /\ pid \in Nat /\ pid > 31
BY PsiAssumption

LEMMA PacketOf ==
  ASSUME NEW pid, NEW section, NEW a, AirIs(a), IsPacket(pid, section, a),
         NEW s \in Services, pid \in PmtPids[s]
  PROVE  IsPmt(section) /\ section.sid = s
<1>1. pid \in Nat /\ pid > 31 BY PmtPidIs
<1>2. IsPmt(section) /\ section.sid \in On(a) /\ pid = a.pat.progs[section.sid]
  BY <1>1 DEF IsPacket
<1>3. section.sid \in Services /\ pid \in PmtPids[section.sid] BY <1>2, OnPids
<1>4. section.sid = s
  <2>1. \A r, t \in Services : r # t => PmtPids[r] \cap PmtPids[t] = {} BY PsiAssumption
  <2> QED BY <1>3, <2>1
<1> QED BY <1>2, <1>4

LEMMA NewPmtGood ==
  ASSUME NEW x, NEW a, AirIs(a), NEW sent, NEW gone, NEW left, NEW known,
         Good(x, a, sent, gone, left, known),
         NEW pid, NEW section, NEW whole, IsPacket(pid, section, a)
  PROVE  Good([x EXCEPT !.channels = chan_new_pmt(@, pid, section, whole)],
              a, sent, gone, left, known)
<1> DEFINE y == [x EXCEPT !.channels = chan_new_pmt(@, pid, section, whole)]
           list == x.channels
<1>0. IsMain(x) /\ ChannelsOk(x, sent, a.pat.progs, gone) BY DEF Good
<1>1. y.channels = [s \in DOMAIN list |-> Received(s, list[s], pid, section, whole)]
  BY <1>0 DEF IsMain, chan_new_pmt, Received
<1>2. y = [auto |-> x.auto, channels |-> y.channels, asked_pid |-> x.asked_pid,
           config |-> x.config]
  BY <1>0 DEF IsMain
<1> HIDE DEF y
<1>3. ASSUME NEW s \in DOMAIN list
      PROVE  /\ y.channels[s] \in Channel /\ y.channels[s].pids = list[s].pids
             /\ SameStatus(list[s], y.channels[s]) /\ SameKind(list[s], y.channels[s])
             /\ ChannelOk(s, y.channels[s], sent[s], a.pat.progs[s], s \notin gone)
  <2>1. s \in Services /\ list[s] \in Channel BY <1>0 DEF IsMain, IsList
  <2>2. ChannelOk(s, list[s], sent[s], a.pat.progs[s], s \notin gone) BY <1>0 DEF ChannelsOk
  <2>3. list[s].pmt_pid \in PmtPids[s] BY <2>2 DEF ChannelOk
  <2>4. list[s].pmt_pid = pid => IsPmt(section) /\ section.sid = s BY <2>1, <2>3, PacketOf
  <2>5. y.channels[s] = Received(s, list[s], pid, section, whole) BY <1>1
  <2>6. StillOk(s, list[s], Received(s, list[s], pid, section, whole),
                sent[s], a.pat.progs[s], s \notin gone)
    BY <2>1, <2>2, <2>4, ReceivedIs
  <2> QED BY <2>5, <2>6 DEF StillOk
<1>4. DOMAIN y.channels = DOMAIN list BY <1>1
<1>5. IsMain(y)
  <2>1. y.channels \in [DOMAIN list -> Channel] BY <1>1, <1>3
  <2>2. IsList(y.channels) BY <1>0, <1>4, <2>1 DEF IsList, IsMain
  <2> QED BY <1>0, <1>2, <2>2 DEF IsMain
<1>6. Quiet(x, y) BY <1>2, <1>3, <1>4, <1>5 DEF Quiet, Steady, SameTable
<1>7. ChannelsOk(y, sent, a.pat.progs, gone) BY <1>3, <1>4 DEF ChannelsOk
<1>8. SameNeed(x, y) BY <1>2 DEF SameNeed
<1>9. EmmOk(y) BY <1>2 DEF Good, EmmOk
<1>10. Good(y, a, sent, gone, left, known) BY <1>6, <1>7, <1>8, <1>9, QuietGood
<1> QED BY <1>10 DEF y

-----------------------------------------------------------------------------
(* A table is read *)

\* Only what auto_p holds changes, and neither what was read of the PAT nor of the SDT.
LEMMA AutoGood ==
  ASSUME NEW x, NEW a, AirIs(a), NEW sent, NEW gone, NEW left, NEW known,
         Good(x, a, sent, gone, left, known),
         NEW y, y = [x EXCEPT !.auto = y.auto], y.auto \in AutoState,
         SameTable(x.auto.pat, y.auto.pat), SameTable(x.auto.sdt, y.auto.sdt),
         y.auto.need_filter_chan_update = x.auto.need_filter_chan_update,
         y.auto.emm = x.auto.emm
  PROVE  Good(y, a, sent, gone, left, known)
<1>0. IsMain(x) BY DEF Good
<1>1. y = [auto |-> y.auto, channels |-> x.channels, asked_pid |-> x.asked_pid,
           config |-> x.config]
  BY <1>0 DEF IsMain
<1>2. IsMain(y) /\ y.channels = x.channels /\ y.asked_pid = x.asked_pid /\ y.config = x.config
  BY <1>0, <1>1 DEF IsMain
<1>3. Quiet(x, y) BY <1>2 DEF Quiet, Steady, SameTable, SameStatus, SameKind
<1>4. SameNeed(x, y) BY DEF SameNeed
<1>5. EmmOk(y) /\ ChannelsOk(y, sent, a.pat.progs, gone) BY <1>2 DEF Good, EmmOk, ChannelsOk
<1> QED BY <1>3, <1>4, <1>5, QuietGood

\* Before a table is read nothing is to be done without oscam.
NeedsNothing(x, known) == known /\ ~ x.config.scam => ~ x.auto.need_filter_chan_update

LEMMA ReadPatGood ==
  ASSUME NEW x, NEW a, AirIs(a), NEW sent, NEW gone, NEW left, NEW known,
         Good(x, a, sent, gone, left, known), NeedsNothing(x, known),
         NEW section, IsPat(section, a), known => section.current,
         Wanting(x.auto.pat, section)
  PROVE  Good(autoconf_read_pat(x, section), a, sent, gone, left, known)
<1> DEFINE y == autoconf_read_pat(x, section)
<1>1. CASE AlreadySeen(x.auto.pat, section) BY <1>1 DEF autoconf_read_pat
<1>2. CASE ~ AlreadySeen(x.auto.pat, section)
  <2>0. IsMain(x) /\ ChannelsOk(x, sent, a.pat.progs, gone) /\ SdtAfterPat(x) BY DEF Good
  <2>1. PatResult(x, section, y) BY <1>2, <2>0, PatStateIs
  <2>2. /\ ChannelsOk(y, sent, a.pat.progs, gone) /\ SdtAfterPat(y) /\ FiltersSet(y)
        /\ y.auto.sdt.version = -1
    BY <1>2, <2>0, PatKeeps
  <2>3. known => TablesKnown(y, a)
    BY <1>2, <2>0, PatTables DEF Good
  <2>4. known /\ ~ x.config.scam => GoneChannels(y, a, left)
    BY <1>2, <2>0, PatGone DEF Good
  <2> HIDE DEF y
  <2>5. IsMain(y) /\ y.config = x.config /\ y.auto.emm = x.auto.emm
        /\ y.auto.need_filter_chan_update = x.auto.need_filter_chan_update
    BY <2>1 DEF PatResult
  <2>6. Good(y, a, sent, gone, left, known)
    BY <2>2, <2>3, <2>4, <2>5 DEF Good, EmmOk, TablesKnown, NeedsNothing
  <2> QED BY <2>6 DEF y
<1> QED BY <1>1, <1>2

LEMMA ReadCatGood ==
  ASSUME NEW x, NEW a, AirIs(a), NEW sent, NEW gone, NEW left, NEW known,
         Good(x, a, sent, gone, left, known), NEW section, IsCat(section)
  PROVE  Good(autoconf_read_cat(x, section), a, sent, gone, left, known)
<1> DEFINE y == autoconf_read_cat(x, section)
           cat == Mark(x.auto.cat, section)
           complete == section.current /\ AllSeen(cat, section)
           list == x.channels
<1>1. CASE AlreadySeen(x.auto.cat, section) BY <1>1 DEF autoconf_read_cat
<1>2. CASE ~ AlreadySeen(x.auto.cat, section)
  <2>0. IsMain(x) /\ ChannelsOk(x, sent, a.pat.progs, gone) /\ EmmOk(x) BY DEF Good
  <2>1. /\ section.version \in Nat /\ section.n \in 0 .. LastSection
        /\ section.emm \in Pids \cup {NoPid} /\ \A s \in Services : section.emm \notin PmtPids[s]
    BY PsiAssumption DEF IsCat
  <2>2. x.auto \in AutoState /\ x.auto.cat \in Table /\ x.auto.sdt \in Table
    BY <2>0, AutoIs DEF IsMain
  <2> DEFINE newCat == IF complete THEN Done(cat) ELSE cat
             newSdt == [x.auto.sdt EXCEPT !.version = IF IsNew(x.auto.cat, section) THEN -1 ELSE @]
             emm == IF section.current THEN section.emm ELSE x.auto.emm
             channels == IF complete THEN CatComplete(list) ELSE list
  <2>3. y = [x EXCEPT !.auto.cat = newCat,
                      !.auto.sdt.version = IF IsNew(x.auto.cat, section) THEN -1 ELSE @,
                      !.auto.emm = emm, !.channels = channels]
    BY <1>2 DEF autoconf_read_cat
  <2>4. newCat \in Table
    <3>1. cat \in Table BY <2>1, <2>2, TableIs
    <3> HIDE DEF cat
    <3>2. Done(cat) \in Table BY <3>1 DEF Table, Done
    <3> QED BY <3>1, <3>2
  <2>5. /\ newSdt \in Table /\ newSdt.seen = x.auto.sdt.seen
        /\ newSdt.all_seen = x.auto.sdt.all_seen /\ newSdt.version \in {x.auto.sdt.version, -1}
    BY <2>2 DEF Table
  <2>6. emm \in Pids \cup {NoPid} /\ \A s \in Services : emm \notin PmtPids[s]
    BY <2>0, <2>1, <2>2 DEF EmmOk, AutoState
  <2>7. /\ DOMAIN channels = DOMAIN list /\ channels = [s \in DOMAIN list |-> channels[s]]
        /\ \A s \in DOMAIN list : channels[s] \in {list[s], [list[s] EXCEPT !.pmt_version = -1]}
    BY <2>0 DEF CatComplete, IsMain, IsList
  <2> HIDE DEF y, newCat, newSdt, emm, channels
  <2>8. /\ y = [auto |-> y.auto, channels |-> channels, asked_pid |-> x.asked_pid,
                config |-> x.config]
        /\ y.auto = [x.auto EXCEPT !.cat = newCat, !.sdt = newSdt, !.emm = emm]
    BY <2>0, <2>2, <2>3 DEF IsMain, AutoState, newSdt
  <2>9. /\ y.auto \in AutoState /\ y.auto.pat = x.auto.pat /\ y.auto.sdt = newSdt
        /\ y.auto.emm = emm
        /\ y.auto.need_filter_chan_update = x.auto.need_filter_chan_update
    BY <2>2, <2>4, <2>5, <2>6, <2>8 DEF AutoState
  <2>10. /\ y.channels = channels /\ y.asked_pid = x.asked_pid /\ y.config = x.config
    BY <2>8
  <2>11. ASSUME NEW s \in DOMAIN list
         PROVE  StillOk(s, list[s], channels[s], sent[s], a.pat.progs[s], s \notin gone)
    <3> DEFINE c == list[s]
               d == channels[s]
    <3>1. c \in Channel /\ ChannelOk(s, c, sent[s], a.pat.progs[s], s \notin gone)
      BY <2>0 DEF IsMain, IsList, ChannelsOk
    <3>2. d \in {c, [c EXCEPT !.pmt_version = -1]} BY <2>7
    <3>3. -1 \in Nat \cup {-1} OBVIOUS
    <3> HIDE DEF c, d
    <3>4. /\ d \in Channel /\ d.pmt_version \in {c.pmt_version, -1}
          /\ d.pmt_packet = c.pmt_packet /\ d.need_cam_ask = c.need_cam_ask
          /\ SamePids(c, d) /\ SameStatus(c, d) /\ SameKind(c, d)
      BY <3>1, <3>2, <3>3 DEF Channel, SamePids, SameStatus, SameKind
    <3>5. ChannelOk(s, d, sent[s], a.pat.progs[s], s \notin gone)
      BY <3>1, <3>4 DEF ChannelOk, PmtKept, CamAsked, PmtPidKept, SamePids, SameStatus, Streaming
    <3>6. StillOk(s, c, d, sent[s], a.pat.progs[s], s \notin gone)
      BY <3>4, <3>5 DEF StillOk, SamePids
    <3> QED BY <3>6 DEF c, d
  <2>12. IsList(channels)
    <3>1. \A s \in DOMAIN list : channels[s] \in Channel BY <2>11 DEF StillOk
    <3> QED BY <2>0, <2>7, <3>1 DEF IsList, IsMain
  <2>13. IsMain(y) BY <2>0, <2>8, <2>9, <2>10, <2>12 DEF IsMain
  <2>14. Quiet(x, y)
    BY <2>5, <2>7, <2>9, <2>10, <2>11, <2>13 DEF Quiet, Steady, SameTable, StillOk
  <2>15. SameNeed(x, y) BY <2>9 DEF SameNeed
  <2>16. EmmOk(y) BY <2>6, <2>9 DEF EmmOk
  <2>17. ChannelsOk(y, sent, a.pat.progs, gone) BY <2>7, <2>10, <2>11 DEF ChannelsOk, StillOk
  <2>18. Good(y, a, sent, gone, left, known) BY <2>14, <2>15, <2>16, <2>17, QuietGood
  <2> QED BY <2>18 DEF y
<1> QED BY <1>1, <1>2

\* y is x once the section of the SDT is read.
SdtResult(x, section, y) ==
    LET sdt == Mark(x.auto.sdt, section)
        new == IsNew(x.auto.sdt, section)
        complete == AllSeen(sdt, section)
    IN /\ IsMain(y) /\ y.config = x.config /\ y.asked_pid = x.asked_pid
       /\ y.auto.pat = x.auto.pat /\ y.auto.emm = x.auto.emm
       /\ y.auto.need_filter_chan_update = (x.auto.need_filter_chan_update \/ complete)
       /\ y.auto.sdt.version = section.version
       /\ y.auto.sdt.seen = IF new THEN {section.n} ELSE x.auto.sdt.seen \cup {section.n}
       /\ y.auto.sdt.all_seen = (complete \/ (x.auto.sdt.all_seen /\ ~ new))
       /\ DOMAIN y.channels = DOMAIN x.channels
       /\ \A s \in DOMAIN x.channels :
             /\ SamePids(x.channels[s], y.channels[s])
             /\ SamePmtState(x.channels[s], y.channels[s])
             /\ SameStatus(x.channels[s], y.channels[s])
             /\ IF s \in DOMAIN section.kinds
                THEN /\ y.channels[s].free_ca = section.kinds[s].ca
                     /\ y.channels[s].type = section.kinds[s].type
                ELSE SameKind(x.channels[s], y.channels[s])

LEMMA SdtStateIs ==
  ASSUME NEW x, IsMain(x), NEW a, AirIs(a), NEW section, IsSdt(section, a),
         ~ section.other, ~ AlreadySeen(x.auto.sdt, section)
  PROVE  SdtResult(x, section, autoconf_read_sdt(x, section))
<1> DEFINE y == autoconf_read_sdt(x, section)
           sdt == Mark(x.auto.sdt, section)
           new == IsNew(x.auto.sdt, section)
           complete == AllSeen(sdt, section)
           list == x.channels
           channels == [s \in DOMAIN list |->
                            IF s \notin DOMAIN section.kinds THEN list[s]
                            ELSE [parse_sdt_descriptor(list[s], section.kinds[s])
                                    EXCEPT !.free_ca = section.kinds[s].ca]]
           newSdt == IF complete THEN Done(sdt) ELSE sdt
<1>1. y = [x EXCEPT !.auto.sdt = newSdt, !.auto.need_filter_chan_update = @ \/ complete,
                    !.channels = channels]
  BY DEF autoconf_read_sdt
<1>2. x.auto \in AutoState /\ x.auto.sdt \in Table /\ section.version \in Nat
      /\ section.n \in 0 .. LastSection /\ section.last = LastSection
  BY AutoIs DEF IsMain, IsSdt, IsSection
<1>3. /\ newSdt \in Table /\ newSdt.version = section.version
      /\ newSdt.seen = (IF new THEN {section.n} ELSE x.auto.sdt.seen \cup {section.n})
      /\ newSdt.all_seen = (complete \/ (x.auto.sdt.all_seen /\ ~ new))
  <2>1. sdt \in Table /\ sdt.version = section.version
        /\ sdt.seen = (IF new THEN {section.n} ELSE x.auto.sdt.seen \cup {section.n})
        /\ sdt.all_seen = (x.auto.sdt.all_seen /\ ~ new)
    <3>1. x.auto.sdt \in Table /\ section.version \in Nat /\ section.n \in 0 .. LastSection
      BY <1>2
    <3> DEFINE table == x.auto.sdt
    <3> HIDE DEF table, channels, y, complete, newSdt
    <3>2. table \in Table BY <3>1 DEF table
    <3>3. /\ Mark(table, section) \in Table
          /\ Mark(table, section).version = section.version
          /\ Mark(table, section).seen = IF IsNew(table, section) THEN {section.n}
                                         ELSE table.seen \cup {section.n}
          /\ Mark(table, section).all_seen = (table.all_seen /\ ~ IsNew(table, section))
      BY <3>1, <3>2, TableIs
    <3> QED BY <3>3 DEF table
  <2> HIDE DEF sdt, new
  <2>2. Done(sdt) \in Table /\ Done(sdt).version = sdt.version
        /\ Done(sdt).seen = sdt.seen /\ Done(sdt).all_seen
    BY <2>1 DEF Table, Done
  <2> HIDE DEF complete
  <2> QED BY <2>1, <2>2
<1>4. ASSUME NEW s \in DOMAIN list
      PROVE  /\ channels[s] \in Channel
             /\ SamePids(list[s], channels[s]) /\ SamePmtState(list[s], channels[s])
             /\ SameStatus(list[s], channels[s])
             /\ IF s \in DOMAIN section.kinds
                THEN /\ channels[s].free_ca = section.kinds[s].ca
                     /\ channels[s].type = section.kinds[s].type
                ELSE SameKind(list[s], channels[s])
  <2>1. list[s] \in Channel BY DEF IsMain, IsList
  <2>2. CASE s \notin DOMAIN section.kinds
    <3>1. channels[s] = list[s] BY <2>2
    <3> HIDE DEF channels
    <3> QED BY <2>1, <2>2, <3>1 DEF SamePids, SamePmtState, SameStatus, SameKind
  <2>3. CASE s \in DOMAIN section.kinds
    <3> DEFINE kind == section.kinds[s]
               c == list[s]
               d == channels[s]
    <3>1. kind.type \in Types /\ kind.ca \in BOOLEAN
      <4>1. kind = a.sdt.kinds[s] /\ s \in Services BY <2>3 DEF IsSdt, On
      <4> QED BY <4>1 DEF AirIs, Air
    <3>2. d = [c EXCEPT !.type = kind.type, !.free_ca = kind.ca]
      BY <2>3 DEF parse_sdt_descriptor
    <3> HIDE DEF channels, kind, c, d
    <3>3. /\ d \in Channel /\ SamePids(c, d) /\ SamePmtState(c, d) /\ SameStatus(c, d)
          /\ d.free_ca = kind.ca /\ d.type = kind.type
      BY <2>1, <3>1, <3>2 DEF Channel, SamePids, SamePmtState, SameStatus, c
    <3> QED BY <2>3, <3>3 DEF c, d, kind
  <2> QED BY <2>2, <2>3
<1>5. IsList(channels)
  <2>1. DOMAIN channels = DOMAIN list OBVIOUS
  <2>2. channels \in [DOMAIN list -> Channel] BY <1>4
  <2> HIDE DEF channels
  <2> QED BY <2>1, <2>2 DEF IsMain, IsList
<1>6. DOMAIN channels = DOMAIN list OBVIOUS
<1> HIDE DEF newSdt, channels, complete, new, sdt, y
<1>7. /\ y = [auto |-> y.auto, channels |-> channels, asked_pid |-> x.asked_pid,
              config |-> x.config]
      /\ y.auto = [x.auto EXCEPT !.sdt = newSdt, !.need_filter_chan_update = @ \/ complete]
  BY <1>1, <1>2 DEF IsMain, AutoState
<1>8. /\ y.auto \in AutoState /\ y.auto.pat = x.auto.pat /\ y.auto.emm = x.auto.emm
      /\ y.auto.sdt = newSdt
      /\ y.auto.need_filter_chan_update = (x.auto.need_filter_chan_update \/ complete)
  <2>1. (x.auto.need_filter_chan_update \/ complete) \in BOOLEAN OBVIOUS
  <2> QED BY <1>2, <1>3, <1>7, <2>1 DEF AutoState
<1>9. y.channels = channels /\ y.asked_pid = x.asked_pid /\ y.config = x.config BY <1>7
<1>10. IsMain(y) BY <1>5, <1>7, <1>8, <1>9 DEF IsMain
<1>11. SdtResult(x, section, y)
  BY <1>3, <1>4, <1>6, <1>8, <1>9, <1>10 DEF SdtResult, new, complete, sdt
<1> QED BY <1>11 DEF y

LEMMA ReadSdtGood ==
  ASSUME NEW x, NEW a, AirIs(a), NEW sent, NEW gone, NEW left, NEW known,
         Good(x, a, sent, gone, left, known),
         NEW section, IsSdt(section, a), ~ section.other, known => section.current,
         Wanting(x.auto.sdt, section), x.auto.pat.all_seen
  PROVE  Good(autoconf_read_sdt(x, section), a, sent, gone, left, known)
<1> DEFINE y == autoconf_read_sdt(x, section)
           new == IsNew(x.auto.sdt, section)
           complete == AllSeen(Mark(x.auto.sdt, section), section)
<1>1. CASE AlreadySeen(x.auto.sdt, section) BY <1>1 DEF autoconf_read_sdt
<1>2. CASE ~ AlreadySeen(x.auto.sdt, section)
  <2>0. IsMain(x) /\ ChannelsOk(x, sent, a.pat.progs, gone) /\ EmmOk(x) BY DEF Good
  <2>1. SdtResult(x, section, y) BY <1>2, <2>0, SdtStateIs
  <2>2. Mark(x.auto.sdt, section).seen = (IF new THEN {section.n}
                                          ELSE x.auto.sdt.seen \cup {section.n})
    BY DEF Mark
  <2>3. /\ section.n \in 0 .. LastSection /\ section.last = LastSection
        /\ section.version \in Nat /\ a.sdt.version \in Nat /\ a.pat.version \in Nat
    BY DEF IsSdt, IsSection, AirIs, Air
  <2>4. x.auto.sdt \in Table /\ x.auto.pat \in Table BY <2>0, AutoIs DEF IsMain
  <2> HIDE DEF y
  <2>5. /\ IsMain(y) /\ y.config = x.config
        /\ y.auto.pat = x.auto.pat /\ y.auto.emm = x.auto.emm
        /\ y.auto.need_filter_chan_update = (x.auto.need_filter_chan_update \/ complete)
        /\ y.auto.sdt.version = section.version
        /\ y.auto.sdt.seen = (IF new THEN {section.n} ELSE x.auto.sdt.seen \cup {section.n})
        /\ y.auto.sdt.all_seen = (complete \/ (x.auto.sdt.all_seen /\ ~ new))
        /\ DOMAIN y.channels = DOMAIN x.channels
    BY <2>1 DEF SdtResult
  <2>6. ASSUME NEW s \in DOMAIN x.channels
        PROVE  /\ SamePids(x.channels[s], y.channels[s])
               /\ SamePmtState(x.channels[s], y.channels[s])
               /\ SameStatus(x.channels[s], y.channels[s])
               /\ s \in DOMAIN section.kinds =>
                    /\ y.channels[s].free_ca = a.sdt.kinds[s].ca
                    /\ y.channels[s].type = a.sdt.kinds[s].type
               /\ s \notin DOMAIN section.kinds => SameKind(x.channels[s], y.channels[s])
    BY <2>1 DEF SdtResult, IsSdt
  <2>7. complete \/ ~ y.auto.sdt.all_seen BY <2>5 DEF Wanting
  <2>8. ChannelsOk(y, sent, a.pat.progs, gone)
    <3> SUFFICES ASSUME NEW s \in DOMAIN x.channels
                 PROVE  ChannelOk(s, y.channels[s], sent[s], a.pat.progs[s], s \notin gone)
      BY <2>5 DEF ChannelsOk
    <3>1. ChannelOk(s, x.channels[s], sent[s], a.pat.progs[s], s \notin gone)
      BY <2>0 DEF ChannelsOk
    <3> QED BY <2>6, <3>1 DEF ChannelOk, PmtKept, CamAsked, PmtPidKept, SamePids, SameStatus,
                              SamePmtState, Streaming
  <2>9. EmmOk(y) /\ SdtAfterPat(y) BY <2>0, <2>5 DEF EmmOk, SdtAfterPat
  <2>10. FiltersSet(y) \/ y.auto.need_filter_chan_update BY <2>5, <2>7 DEF FiltersSet
  <2>11. StatusKnown(y, a) \/ y.auto.need_filter_chan_update BY <2>5, <2>7 DEF StatusKnown
  <2>12. ASSUME known PROVE TablesRead(y, a)
    <3>1. TablesRead(x, a) BY <2>12 DEF Good
    <3>2. /\ section.version = a.sdt.version
          /\ \A s \in On(a) : SectionOf(s) = section.n => s \in DOMAIN section.kinds
      BY <2>12 DEF IsSdt
    <3>3. PatKnown(y, a)
      BY <2>5, <2>6, <3>1 DEF TablesRead, PatKnown, SameStatus
    <3>4. AllSections(y.auto.sdt)
      <4> SUFFICES ASSUME y.auto.sdt.all_seen PROVE y.auto.sdt.seen = 0 .. LastSection
        BY DEF AllSections
      <4>1. 0 .. LastSection \subseteq y.auto.sdt.seen
        BY <2>2, <2>3, <2>5, <2>7 DEF AllSeen
      <4>2. y.auto.sdt.seen \subseteq 0 .. LastSection BY <2>3, <2>4, <2>5 DEF Table
      <4> QED BY <4>1, <4>2
    <3>5. ASSUME InForce(y, a), NEW s \in On(a), SectionOf(s) \in y.auto.sdt.seen
          PROVE  /\ y.channels[s].free_ca = a.sdt.kinds[s].ca
                 /\ y.channels[s].type = a.sdt.kinds[s].type
      <4>1. s \in DOMAIN x.channels
        BY <2>5, <3>1, <3>5, PatAllRead DEF TablesRead, InForce
      <4>2. CASE s \in DOMAIN section.kinds BY <2>6, <4>1, <4>2
      <4>3. CASE s \notin DOMAIN section.kinds
        <5>1. ~ new /\ SectionOf(s) \in x.auto.sdt.seen BY <2>5, <3>2, <3>5, <4>3
        <5>2. InForce(x, a) BY <2>5, <3>2, <3>5, <5>1 DEF InForce, IsNew
        <5>3. /\ x.channels[s].free_ca = a.sdt.kinds[s].ca
              /\ x.channels[s].type = a.sdt.kinds[s].type
          BY <3>1, <5>1, <5>2 DEF TablesRead, SdtKnown
        <5> QED BY <2>6, <4>1, <4>3, <5>3 DEF SameKind
      <4> QED BY <4>2, <4>3
    <3>6. SdtKnown(y, a) BY <2>3, <2>5, <3>2, <3>5 DEF SdtKnown
    <3> QED BY <2>5, <3>1, <3>3, <3>4, <3>6 DEF TablesRead
  <2>13. ASSUME known, ~ x.config.scam PROVE GoneChannels(y, a, left)
    <3>1. GoneChannels(x, a, left) BY <2>13 DEF Good
    <3>2. ASSUME NEW s \in DOMAIN y.channels, y.auto.pat.all_seen
          PROVE  y.channels[s].ready # READY_EXISTING
      BY <2>5, <2>6, <3>1, <3>2 DEF GoneChannels, SameStatus
    <3>3. ASSUME NEW s \in DOMAIN y.channels \ (On(a) \cup left)
          PROVE  /\ Gone(y, y.channels[s])
                 /\ y.auto.pat.version = a.pat.version => y.channels[s].ready # READY
      <4>1. s \in DOMAIN x.channels /\ s \notin DOMAIN section.kinds BY <2>5 DEF IsSdt
      <4>2. /\ Gone(x, x.channels[s])
            /\ x.auto.pat.version = a.pat.version => x.channels[s].ready # READY
        BY <3>1, <4>1 DEF GoneChannels
      <4>3. SameStatus(x.channels[s], y.channels[s]) /\ SameKind(x.channels[s], y.channels[s])
        BY <2>6, <4>1
      <4> QED BY <2>5, <4>2, <4>3 DEF Gone, SameStatus, SameKind
    <3> QED BY <3>2, <3>3 DEF GoneChannels
  <2>14. Good(y, a, sent, gone, left, known)
    BY <2>5, <2>8, <2>9, <2>10, <2>11, <2>12, <2>13 DEF Good
  <2> QED BY <2>14 DEF y
<1> QED BY <1>1, <1>2

\* Each table first decides whether it is to be updated.
LEMMA NeedPatGood ==
  ASSUME NEW x, NEW a, AirIs(a), NEW sent, NEW gone, NEW left, NEW known,
         Good(x, a, sent, gone, left, known), NEW section, section.current \in BOOLEAN
  PROVE  \E y : /\ y = autoconf_pat_need_update(x, section)
                /\ Good(y, a, sent, gone, left, known)
                /\ y.auto.pat = NeedUpdate(x.auto.pat, section)
                /\ y.config = x.config
                /\ y.auto.need_filter_chan_update = x.auto.need_filter_chan_update
<1> DEFINE y == autoconf_pat_need_update(x, section)
           pat == NeedUpdate(x.auto.pat, section)
<1>0. IsMain(x) /\ x.auto \in AutoState /\ x.auto.pat \in Table BY AutoIs DEF Good, IsMain
<1>1. pat \in Table /\ SameTable(x.auto.pat, pat) BY <1>0, NeedUpdateIs DEF SameTable
<1>2. y = [x EXCEPT !.auto.pat = pat] BY DEF autoconf_pat_need_update
<1> HIDE DEF y, pat
<1>3. y = [x EXCEPT !.auto = y.auto] /\ y.auto = [x.auto EXCEPT !.pat = pat]
      /\ y.config = x.config
  BY <1>0, <1>2 DEF IsMain
<1>4. /\ y.auto \in AutoState /\ y.auto.pat = pat /\ y.auto.sdt = x.auto.sdt
      /\ y.auto.emm = x.auto.emm
      /\ y.auto.need_filter_chan_update = x.auto.need_filter_chan_update
  BY <1>0, <1>1, <1>3 DEF AutoState
<1>5. Good(y, a, sent, gone, left, known)
  BY <1>1, <1>3, <1>4, AutoGood DEF SameTable
<1> QED BY <1>3, <1>4, <1>5 DEF y, pat

LEMMA NeedCatGood ==
  ASSUME NEW x, NEW a, AirIs(a), NEW sent, NEW gone, NEW left, NEW known,
         Good(x, a, sent, gone, left, known), NEW section, section.current \in BOOLEAN
  PROVE  Good(autoconf_cat_need_update(x, section), a, sent, gone, left, known)
<1> DEFINE y == autoconf_cat_need_update(x, section)
           cat == NeedUpdate(x.auto.cat, section)
<1>0. IsMain(x) /\ x.auto \in AutoState /\ x.auto.cat \in Table BY AutoIs DEF Good, IsMain
<1>1. cat \in Table BY <1>0, NeedUpdateIs
<1>2. y = [x EXCEPT !.auto.cat = cat] BY DEF autoconf_cat_need_update
<1> HIDE DEF y, cat
<1>3. y = [x EXCEPT !.auto = y.auto] /\ y.auto = [x.auto EXCEPT !.cat = cat]
  BY <1>0, <1>2 DEF IsMain
<1>4. /\ y.auto \in AutoState /\ y.auto.pat = x.auto.pat /\ y.auto.sdt = x.auto.sdt
      /\ y.auto.emm = x.auto.emm
      /\ y.auto.need_filter_chan_update = x.auto.need_filter_chan_update
  BY <1>0, <1>1, <1>3 DEF AutoState
<1>5. Good(y, a, sent, gone, left, known)
  BY <1>1, <1>3, <1>4, AutoGood DEF SameTable
<1> QED BY <1>5 DEF y

LEMMA NeedSdtGood ==
  ASSUME NEW x, NEW a, AirIs(a), NEW sent, NEW gone, NEW left, NEW known,
         Good(x, a, sent, gone, left, known), NEW section, section.current \in BOOLEAN
  PROVE  LET y == autoconf_sdt_need_update(x, section) IN
         /\ Good(y, a, sent, gone, left, known) /\ y.auto.pat = x.auto.pat
         /\ ~ section.other => y.auto.sdt = NeedUpdate(x.auto.sdt, section)
<1> DEFINE y == autoconf_sdt_need_update(x, section)
           sdt == IF section.other
                  THEN [x.auto.sdt EXCEPT !.need_update = @ /\ ~ x.auto.sdt.all_seen]
                  ELSE NeedUpdate(x.auto.sdt, section)
<1>0. IsMain(x) /\ x.auto \in AutoState /\ x.auto.sdt \in Table BY AutoIs DEF Good, IsMain
<1>1. sdt \in Table /\ SameTable(x.auto.sdt, sdt)
  <2>1. CASE section.other BY <1>0, <2>1 DEF SameTable, Table
  <2>2. CASE ~ section.other BY <1>0, <2>2, NeedUpdateIs DEF SameTable
  <2> QED BY <2>1, <2>2
<1>2. y = [x EXCEPT !.auto.sdt = sdt]
  <2>1. CASE section.other BY <2>1 DEF autoconf_sdt_need_update
  <2>2. CASE ~ section.other BY <2>2 DEF autoconf_sdt_need_update
  <2> QED BY <2>1, <2>2
<1>3. ~ section.other => sdt = NeedUpdate(x.auto.sdt, section)
  <2>1. CASE section.other BY <2>1
  <2>2. CASE ~ section.other BY <2>2
  <2> QED BY <2>1, <2>2
<1> HIDE DEF y, sdt
<1>4. y = [x EXCEPT !.auto = y.auto] /\ y.auto = [x.auto EXCEPT !.sdt = sdt]
  BY <1>0, <1>2 DEF IsMain
<1>5. /\ y.auto \in AutoState /\ y.auto.pat = x.auto.pat /\ y.auto.sdt = sdt
      /\ y.auto.emm = x.auto.emm
      /\ y.auto.need_filter_chan_update = x.auto.need_filter_chan_update
  BY <1>0, <1>1, <1>4 DEF AutoState
<1>6. Good(y, a, sent, gone, left, known)
  BY <1>1, <1>4, <1>5, AutoGood DEF SameTable
<1> QED BY <1>3, <1>5, <1>6 DEF y

\* What a packet of a PID brings
PacketOk(pid, section, a, known) ==
    /\ IsPacket(pid, section, a) /\ section.current \in BOOLEAN
    /\ known => section.current \/ (pid = 17 /\ section.other)

LEMMA ReadTableGood ==
  ASSUME NEW x, NEW a, AirIs(a), NEW sent, NEW gone, NEW left, NEW known,
         Good(x, a, sent, gone, left, known), NeedsNothing(x, known),
         NEW pid, NEW section, NEW whole, PacketOk(pid, section, a, known)
  PROVE  Good(ReadTable(x, pid, section, whole), a, sent, gone, left, known)
<1>0. IsMain(x) /\ section.current \in BOOLEAN /\ IsPacket(pid, section, a)
  BY DEF Good, PacketOk
<1>1. CASE pid = 0
  <2> DEFINE y == autoconf_pat_need_update(x, section)
  <2>1. ReadTable(x, pid, section, whole) =
          IF whole /\ y.auto.pat.need_update THEN autoconf_read_pat(y, section) ELSE y
    BY <1>1 DEF ReadTable
  <2>2. IsPat(section, a) /\ (known => section.current)
    <3>1. \A s \in On(a) : a.pat.progs[s] # 0
      <4> SUFFICES ASSUME NEW s \in On(a) PROVE a.pat.progs[s] # 0 OBVIOUS
      <4>1. a.pat.progs[s] \in PmtPids[s] /\ s \in Services BY OnPids
      <4> QED BY <4>1, PmtPidIs
    <3> QED BY <1>1, <3>1 DEF IsPacket, PacketOk
  <2>3. /\ Good(y, a, sent, gone, left, known) /\ y.auto.pat = NeedUpdate(x.auto.pat, section)
        /\ y.config = x.config
        /\ y.auto.need_filter_chan_update = x.auto.need_filter_chan_update
    <3> HIDE DEF y
    <3>1. PICK z : /\ z = autoconf_pat_need_update(x, section)
                   /\ Good(z, a, sent, gone, left, known)
                   /\ z.auto.pat = NeedUpdate(x.auto.pat, section)
                   /\ z.config = x.config
                   /\ z.auto.need_filter_chan_update = x.auto.need_filter_chan_update
      BY <1>0, NeedPatGood
    <3>2. y = z BY <3>1 DEF y
    <3> QED BY <3>1, <3>2
  <2>4. x.auto.pat \in Table BY <1>0, AutoIs DEF IsMain
  <2> HIDE DEF y
  <2>5. y.auto.pat.need_update => Wanting(y.auto.pat, section)
    BY <1>0, <2>3, <2>4, NeedUpdateIs DEF Wanting, IsNew
  <2>6. NeedsNothing(y, known) BY <2>3 DEF NeedsNothing
  <2>7. y.auto.pat.need_update => Good(autoconf_read_pat(y, section), a, sent, gone, left, known)
    BY <2>2, <2>3, <2>5, <2>6, ReadPatGood
  <2> QED BY <2>1, <2>3, <2>7
<1>2. CASE pid = 1
  <2> DEFINE y == autoconf_cat_need_update(x, section)
  <2>1. ReadTable(x, pid, section, whole) =
          IF whole /\ y.auto.cat.need_update THEN autoconf_read_cat(y, section) ELSE y
    BY <1>2 DEF ReadTable
  <2>2. IsCat(section)
    <3>1. \A s \in On(a) : a.pat.progs[s] # 1
      <4> SUFFICES ASSUME NEW s \in On(a) PROVE a.pat.progs[s] # 1 OBVIOUS
      <4>1. a.pat.progs[s] \in PmtPids[s] /\ s \in Services BY OnPids
      <4> QED BY <4>1, PmtPidIs
    <3> QED BY <1>0, <1>2, <3>1 DEF IsPacket
  <2>3. Good(y, a, sent, gone, left, known) BY <1>0, NeedCatGood
  <2> HIDE DEF y
  <2>4. Good(autoconf_read_cat(y, section), a, sent, gone, left, known) BY <2>2, <2>3, ReadCatGood
  <2> QED BY <2>1, <2>3, <2>4
<1>3. CASE pid = 17 /\ x.auto.pat.all_seen
  <2> DEFINE y == autoconf_sdt_need_update(x, section)
  <2>1. ReadTable(x, pid, section, whole) =
          IF whole /\ y.auto.sdt.need_update THEN autoconf_read_sdt(y, section) ELSE y
    BY <1>3 DEF ReadTable
  <2>2. section.other \/ IsSdt(section, a)
    <3>1. \A s \in On(a) : a.pat.progs[s] # 17
      <4> SUFFICES ASSUME NEW s \in On(a) PROVE a.pat.progs[s] # 17 OBVIOUS
      <4>1. a.pat.progs[s] \in PmtPids[s] /\ s \in Services BY OnPids
      <4> QED BY <4>1, PmtPidIs
    <3> QED BY <1>0, <1>3, <3>1 DEF IsPacket
  <2>3. /\ Good(y, a, sent, gone, left, known) /\ y.auto.pat = x.auto.pat
        /\ ~ section.other => y.auto.sdt = NeedUpdate(x.auto.sdt, section)
    BY <1>0, NeedSdtGood
  <2>4. x.auto.sdt \in Table BY <1>0, AutoIs DEF IsMain
  <2> HIDE DEF y
  <2>5. CASE section.other
    <3>1. autoconf_read_sdt(y, section) = y BY <2>5 DEF autoconf_read_sdt
    <3> QED BY <2>1, <2>3, <3>1
  <2>6. CASE ~ section.other
    <3>1. y.auto.sdt.need_update => Wanting(y.auto.sdt, section)
      BY <1>0, <2>3, <2>4, <2>6, NeedUpdateIs DEF Wanting, IsNew
    <3>2. known => section.current BY <2>6 DEF PacketOk
    <3>3. y.auto.sdt.need_update => Good(autoconf_read_sdt(y, section), a, sent, gone, left, known)
      BY <1>3, <2>2, <2>3, <2>6, <3>1, <3>2, ReadSdtGood
    <3> QED BY <2>1, <2>3, <3>3
  <2> QED BY <2>5, <2>6
<1>4. CASE pid # 0 /\ pid # 1 /\ ~ (pid = 17 /\ x.auto.pat.all_seen)
  <2>1. ReadTable(x, pid, section, whole) = x BY <1>4 DEF ReadTable
  <2> QED BY <2>1
<1> QED BY <1>1, <1>2, <1>3, <1>4

-----------------------------------------------------------------------------
(* The channels are brought up to date *)

Fine(x, a, sent, gone, left, known) ==
    /\ Good(x, a, sent, gone, left, known)
    /\ FiltersSet(x) /\ (known => StatusKnown(x, a)) /\ NeedsNothing(x, known)

\* The filters asked and set, nothing else changed
WithFilters(x, y) ==
    /\ IsMain(y) /\ y = [x EXCEPT !.asked_pid = y.asked_pid]
    /\ y.auto = x.auto /\ y.channels = x.channels /\ y.config = x.config
    /\ \A p \in Wanted(x.channels) : y.asked_pid[p] = "FILTERED"
    /\ \A p \in Pids : x.asked_pid[p] = "FILTERED" => y.asked_pid[p] = "FILTERED"

LEMMA WantedPids ==
  ASSUME NEW list, IsList(list), NEW s \in DOMAIN list
  PROVE  /\ Wanted(list) \subseteq Pids
         /\ list[s].ready >= ALMOST_READY => ToSet(list[s].pids) \subseteq Wanted(list)
<1>1. ASSUME NEW t \in DOMAIN list PROVE ToSet(list[t].pids) \subseteq Pids
  <2>1. list[t].pids \in Seq(Pids) BY DEF IsList, Channel
  <2> QED BY <2>1, ToSetIs
<1> QED BY <1>1 DEF Wanted

LEMMA FiltersAre ==
  ASSUME NEW x, IsMain(x)
  PROVE  WithFilters(x, update_chan_filters(x))
<1> DEFINE y == update_chan_filters(x)
           wanted == Wanted(x.channels)
           Asked(p) == CASE x.asked_pid[p] = "ASKED" /\ p \notin wanted -> "NOT_ASKED"
                         [] p \in wanted /\ x.asked_pid[p] = "NOT_ASKED" -> "ASKED"
                         [] OTHER -> x.asked_pid[p]
           asked == [p \in Pids |-> Asked(p)]
<1>1. y = [x EXCEPT !.asked_pid = set_filters(asked)] BY DEF update_chan_filters
<1>2. wanted \subseteq Pids
  <2>1. CASE DOMAIN x.channels = {} BY <2>1 DEF Wanted
  <2>2. CASE DOMAIN x.channels # {} BY <2>2, WantedPids DEF IsMain
  <2> QED BY <2>1, <2>2
<1> HIDE DEF wanted
<1>3. ASSUME NEW p \in Pids
      PROVE  asked[p] = IF p \in wanted /\ x.asked_pid[p] = "NOT_ASKED" THEN "ASKED"
                        ELSE x.asked_pid[p]
  <2>1. x.asked_pid[p] \in {"NOT_ASKED", "FILTERED"} BY DEF IsMain, Filters
  <2>2. asked[p] = Asked(p) OBVIOUS
  <2> HIDE DEF asked
  <2>3. CASE p \in wanted /\ x.asked_pid[p] = "NOT_ASKED" BY <2>2, <2>3
  <2>4. CASE ~ (p \in wanted /\ x.asked_pid[p] = "NOT_ASKED") BY <2>1, <2>2, <2>4
  <2> QED BY <2>3, <2>4
<1>4. ASSUME NEW p \in Pids
      PROVE  set_filters(asked)[p] = IF p \in wanted THEN "FILTERED" ELSE x.asked_pid[p]
  <2>1. x.asked_pid[p] \in {"NOT_ASKED", "FILTERED"} BY DEF IsMain, Filters
  <2>2. set_filters(asked)[p] = IF asked[p] = "ASKED" THEN "FILTERED" ELSE asked[p]
    BY DEF set_filters
  <2> HIDE DEF asked
  <2> QED BY <1>3, <2>1, <2>2
<1>5. set_filters(asked) = [p \in Pids |-> set_filters(asked)[p]] BY DEF set_filters
<1> DEFINE filters == set_filters(asked)
<1> HIDE DEF asked, filters, y
<1>6. filters \in Filters
  <2>1. \A p \in Pids : filters[p] \in {"NOT_ASKED", "FILTERED"}
    BY <1>4 DEF filters, IsMain, Filters
  <2> QED BY <1>5, <2>1 DEF Filters, filters
<1>7. /\ y = [auto |-> x.auto, channels |-> x.channels, asked_pid |-> filters,
              config |-> x.config]
  BY <1>1 DEF IsMain, filters
<1>8. WithFilters(x, y)
  <2>1. IsMain(y) BY <1>6, <1>7 DEF IsMain
  <2>2. y.asked_pid = filters BY <1>7
  <2>3. \A p \in wanted : filters[p] = "FILTERED" BY <1>2, <1>4 DEF filters
  <2>4. \A p \in Pids : x.asked_pid[p] = "FILTERED" => filters[p] = "FILTERED"
    BY <1>4 DEF filters
  <2>5. y = [x EXCEPT !.asked_pid = filters] BY <1>1 DEF filters
  <2>6. y.auto = x.auto /\ y.channels = x.channels /\ y.config = x.config BY <1>7
  <2> QED BY <2>1, <2>2, <2>3, <2>4, <2>5, <2>6 DEF WithFilters, wanted
<1> QED BY <1>8 DEF y

LEMMA ConfigIs ==
  ASSUME NEW config \in Configs
  PROVE  config.scrambled \in BOOLEAN /\ config.scam \in BOOLEAN
<1>1. PICK m \in Modes : config = Config(m) BY DEF Configs
<1>2. config.scrambled = (m # "fta") /\ config.scam = (m = "scam") BY <1>1 DEF Config
<1>3. (m # "fta") \in BOOLEAN /\ (m = "scam") \in BOOLEAN OBVIOUS
<1> QED BY <1>2, <1>3

\* What autoconf_update_chan_status and update_chan_net make of a channel
Updated(config, c) == WithNet([c EXCEPT !.ready = Status(config, c)])

UpdateResult(x, y) ==
    /\ IsMain(y) /\ y.config = x.config
    /\ y.auto.pat = x.auto.pat /\ y.auto.sdt = x.auto.sdt /\ y.auto.emm = x.auto.emm
    /\ y.auto.need_filter_chan_update = FALSE
    /\ DOMAIN y.channels = DOMAIN x.channels
    /\ \A s \in DOMAIN x.channels : y.channels[s] = Updated(x.config, x.channels[s])
    /\ Filtered(y)

LEMMA UpdatedIs ==
  ASSUME NEW c \in Channel, NEW config \in Configs
  PROVE  LET d == Updated(config, c) IN
         /\ d \in Channel
         /\ d.ready = IF Status(config, c) = ALMOST_READY THEN READY ELSE Status(config, c)
         /\ d.sockets = (c.sockets \/ Status(config, c) = ALMOST_READY)
         /\ SamePids(c, d) /\ SamePmtState(c, d) /\ SameKind(c, d)
<1> DEFINE d == Updated(config, c)
           e == [c EXCEPT !.ready = Status(config, c)]
<1>1. config.scrambled \in BOOLEAN BY ConfigIs
<1>2. /\ e \in Channel /\ e.ready = Status(config, c) /\ e.sockets = c.sockets
      /\ SamePids(c, e) /\ SamePmtState(c, e) /\ SameKind(c, e)
  BY <1>1, StatusIs
<1> HIDE DEF e
<1>3. /\ WithNet(e) \in Channel
      /\ WithNet(e).ready = IF e.ready = ALMOST_READY THEN READY ELSE e.ready
      /\ WithNet(e).sockets = (e.sockets \/ e.ready = ALMOST_READY)
      /\ SamePids(e, WithNet(e)) /\ SamePmtState(e, WithNet(e)) /\ SameKind(e, WithNet(e))
  BY <1>2, NetIs
<1>4. d = WithNet(e) BY DEF Updated, e
<1> HIDE DEF d
<1>5. /\ d \in Channel
      /\ d.ready = IF Status(config, c) = ALMOST_READY THEN READY ELSE Status(config, c)
      /\ d.sockets = (c.sockets \/ Status(config, c) = ALMOST_READY)
      /\ SamePids(c, d) /\ SamePmtState(c, d) /\ SameKind(c, d)
  BY <1>2, <1>3, <1>4 DEF SamePids, SamePmtState, SameKind
<1> QED BY <1>5 DEF d

LEMMA UpdateChannelsIs ==
  ASSUME NEW x, IsMain(x), x.auto.need_filter_chan_update
  PROVE  UpdateResult(x, UpdateChannels(x))
<1> DEFINE list == x.channels
           status == [s \in DOMAIN list |-> [list[s] EXCEPT !.ready = Status(x.config, list[s])]]
           x1 == autoconf_update_chan_status(x)
           x2 == update_chan_filters(x1)
           x3 == update_chan_net(x2)
           y == UpdateChannels(x)
<1>0. x.config \in Configs /\ x.auto \in AutoState /\ IsList(list) BY DEF IsMain
<1>1. y = [x3 EXCEPT !.auto.need_filter_chan_update = FALSE] BY DEF UpdateChannels
<1>2. x1 = [x EXCEPT !.channels = status] BY DEF autoconf_update_chan_status
<1>3. ASSUME NEW s \in DOMAIN list
      PROVE  /\ status[s] \in Channel /\ status[s].ready = Status(x.config, list[s])
             /\ status[s].pids = list[s].pids
             /\ Updated(x.config, list[s]) = WithNet(status[s])
  <2>1. list[s] \in Channel BY <1>0 DEF IsList
  <2>2. status[s] = [list[s] EXCEPT !.ready = Status(x.config, list[s])] OBVIOUS
  <2>3. x.config.scrambled \in BOOLEAN BY <1>0, ConfigIs
  <2> HIDE DEF status
  <2>4. Updated(x.config, list[s]) = WithNet(status[s]) BY <2>2 DEF Updated
  <2> QED BY <2>1, <2>2, <2>3, <2>4, StatusIs DEF SamePids
<1>4. IsList(status) /\ DOMAIN status = DOMAIN list
  <2>1. DOMAIN status = DOMAIN list OBVIOUS
  <2>2. status \in [DOMAIN list -> Channel] BY <1>3
  <2> HIDE DEF status
  <2> QED BY <1>0, <2>1, <2>2 DEF IsList
<1> HIDE DEF x1, x2, x3, y, status
<1>5. x1 = [auto |-> x.auto, channels |-> status, asked_pid |-> x.asked_pid, config |-> x.config]
  BY <1>2 DEF IsMain
<1>6. IsMain(x1) /\ x1.channels = status /\ x1.auto = x.auto /\ x1.config = x.config
  BY <1>4, <1>5 DEF IsMain
<1>7. WithFilters(x1, x2) BY <1>6, FiltersAre DEF x2
<1>8. /\ IsMain(x2) /\ x2.channels = status /\ x2.auto = x.auto /\ x2.config = x.config
      /\ \A p \in Wanted(status) : x2.asked_pid[p] = "FILTERED"
  BY <1>6, <1>7 DEF WithFilters
<1> DEFINE net == [s \in DOMAIN list |-> WithNet(status[s])]
<1>9. x3 = [x2 EXCEPT !.channels = net] BY <1>4, <1>8 DEF x3, update_chan_net, WithNet
<1>10. ASSUME NEW s \in DOMAIN list
       PROVE  net[s] \in Channel /\ net[s] = Updated(x.config, list[s])
  <2>1. net[s] = WithNet(status[s]) OBVIOUS
  <2>2. list[s] \in Channel BY <1>0 DEF IsList
  <2>3. Updated(x.config, list[s]) \in Channel BY <1>0, <2>2, UpdatedIs
  <2> QED BY <1>3, <2>1, <2>3
<1>11. IsList(net) /\ DOMAIN net = DOMAIN list
  <2>1. DOMAIN net = DOMAIN list OBVIOUS
  <2>2. net \in [DOMAIN list -> Channel] BY <1>10
  <2> HIDE DEF net
  <2> QED BY <1>0, <2>1, <2>2 DEF IsList
<1> HIDE DEF net
<1>12. /\ y = [auto |-> y.auto, channels |-> net, asked_pid |-> x2.asked_pid, config |-> x.config]
       /\ y.auto = [x.auto EXCEPT !.need_filter_chan_update = FALSE]
  <2>1. x2 = [auto |-> x.auto, channels |-> status, asked_pid |-> x2.asked_pid,
              config |-> x.config]
    BY <1>8 DEF IsMain
  <2>2. x3 = [auto |-> x.auto, channels |-> net, asked_pid |-> x2.asked_pid,
              config |-> x.config]
    BY <1>9, <2>1
  <2> QED BY <1>1, <2>2
<1>13. /\ y.auto \in AutoState /\ y.auto.pat = x.auto.pat /\ y.auto.sdt = x.auto.sdt
       /\ y.auto.emm = x.auto.emm /\ y.auto.need_filter_chan_update = FALSE
  BY <1>0, <1>12 DEF AutoState
<1>14. y.channels = net /\ y.asked_pid = x2.asked_pid /\ y.config = x.config BY <1>12
<1>15. IsMain(y)
  <2>1. x2.asked_pid \in Filters BY <1>8 DEF IsMain
  <2> QED BY <1>0, <1>11, <1>12, <1>13, <1>14, <2>1 DEF IsMain
<1>16. Filtered(y)
  <2> SUFFICES ASSUME NEW s \in DOMAIN list, Streaming(net[s]), NEW p \in ToSet(net[s].pids)
               PROVE  x2.asked_pid[p] # "NOT_ASKED"
    BY <1>11, <1>14 DEF Filtered
  <2>1. list[s] \in Channel BY <1>0 DEF IsList
  <2>2. /\ net[s].ready = IF Status(x.config, list[s]) = ALMOST_READY THEN READY
                          ELSE Status(x.config, list[s])
        /\ SamePids(list[s], net[s])
    BY <1>0, <1>10, <2>1, UpdatedIs
  <2>3. net[s].pids = status[s].pids BY <1>3, <2>2 DEF SamePids
  <2>4. status[s].ready >= ALMOST_READY
    <3>1. status[s].ready \in Statuses BY <1>3 DEF Channel, Statuses
    <3> QED BY <1>3, <2>2, <3>1, StatusNumbers
  <2>5. p \in Wanted(status) BY <1>4, <2>3, <2>4, WantedPids
  <2> QED BY <1>8, <2>5
<1>17. UpdateResult(x, y)
  BY <1>10, <1>11, <1>13, <1>14, <1>15, <1>16 DEF UpdateResult
<1> QED BY <1>17 DEF y

LEMMA UpdateChannelsFine ==
  ASSUME NEW x, NEW a, AirIs(a), NEW sent, NEW gone, NEW left, NEW known,
         Good(x, a, sent, gone, left, known)
  PROVE  Fine(UpdateChannels(x), a, sent, gone, left, known)
<1> DEFINE y == UpdateChannels(x)
<1>1. CASE ~ x.auto.need_filter_chan_update
  <2>1. UpdateChannels(x) = x BY <1>1 DEF UpdateChannels
  <2> QED BY <1>1, <2>1 DEF Fine, Good, NeedsNothing
<1>2. CASE x.auto.need_filter_chan_update
  <2>0. IsMain(x) /\ ChannelsOk(x, sent, a.pat.progs, gone) /\ EmmOk(x) /\ SdtAfterPat(x)
    BY DEF Good
  <2>1. UpdateResult(x, y) BY <1>2, <2>0, UpdateChannelsIs
  <2> HIDE DEF y
  <2>2. /\ IsMain(y) /\ y.config = x.config
        /\ y.auto.pat = x.auto.pat /\ y.auto.sdt = x.auto.sdt /\ y.auto.emm = x.auto.emm
        /\ y.auto.need_filter_chan_update = FALSE
        /\ DOMAIN y.channels = DOMAIN x.channels /\ Filtered(y)
    BY <2>1 DEF UpdateResult
  <2>3. ASSUME NEW s \in DOMAIN x.channels
        PROVE  LET c == x.channels[s]
                   d == y.channels[s]
               IN /\ c.ready \in Statuses /\ d.sockets = (c.sockets \/ Status(x.config, c) = ALMOST_READY)
                  /\ d.ready = IF Status(x.config, c) = ALMOST_READY THEN READY
                               ELSE Status(x.config, c)
                  /\ SamePids(c, d) /\ SamePmtState(c, d) /\ SameKind(c, d)
                  /\ c.pmt_pid # NoPid
                  /\ ChannelOk(s, c, sent[s], a.pat.progs[s], s \notin gone)
    <3> DEFINE c == x.channels[s]
    <3>1. c \in Channel /\ s \in Services BY <2>0 DEF IsMain, IsList
    <3>2. ChannelOk(s, c, sent[s], a.pat.progs[s], s \notin gone) BY <2>0 DEF ChannelsOk
    <3>3. c.pmt_pid # NoPid BY <3>1, <3>2, PmtPidIs DEF ChannelOk, NoPid
    <3>4. y.channels[s] = Updated(x.config, c) BY <2>1 DEF UpdateResult
    <3>5. x.config \in Configs BY <2>0 DEF IsMain
    <3>6. c.ready \in Statuses BY <3>1 DEF Channel, Statuses
    <3> QED BY <3>1, <3>2, <3>3, <3>4, <3>5, <3>6, UpdatedIs
  <2>4. ChannelsOk(y, sent, a.pat.progs, gone)
    <3> SUFFICES ASSUME NEW s \in DOMAIN x.channels
                 PROVE  ChannelOk(s, y.channels[s], sent[s], a.pat.progs[s], s \notin gone)
      BY <2>2 DEF ChannelsOk
    <3> DEFINE c == x.channels[s]
               d == y.channels[s]
    <3>1. /\ d.sockets = (c.sockets \/ Status(x.config, c) = ALMOST_READY)
          /\ d.ready = IF Status(x.config, c) = ALMOST_READY THEN READY ELSE Status(x.config, c)
          /\ SamePids(c, d) /\ SamePmtState(c, d) /\ c.ready \in Statuses
          /\ ChannelOk(s, c, sent[s], a.pat.progs[s], s \notin gone)
      BY <2>3
    <3> HIDE DEF c, d
    <3>2. Streaming(d) => Streaming(c) \/ Status(x.config, c) = ALMOST_READY
      BY <3>1, StatusNumbers DEF Status
    <3>3. ChannelOk(s, d, sent[s], a.pat.progs[s], s \notin gone)
      BY <3>1, <3>2 DEF ChannelOk, PmtKept, CamAsked, PmtPidKept, SamePids, SamePmtState
    <3> QED BY <3>3 DEF d
  <2>5. EmmOk(y) /\ SdtAfterPat(y) /\ FiltersSet(y)
    BY <2>0, <2>2 DEF EmmOk, SdtAfterPat, FiltersSet
  <2>6. ASSUME known PROVE TablesRead(y, a) /\ StatusKnown(y, a)
    <3>1. TablesRead(x, a) BY <2>6 DEF Good
    <3>2. ASSUME NEW s \in DOMAIN x.channels, x.channels[s].ready \notin {REMOVED, READY_EXISTING}
          PROVE  y.channels[s].ready \notin {REMOVED, READY_EXISTING}
      <4> DEFINE c == x.channels[s]
                 d == y.channels[s]
      <4>1. d.ready = IF Status(x.config, c) = ALMOST_READY THEN READY ELSE Status(x.config, c)
        BY <2>3
      <4>2. c.ready \notin {REMOVED, READY_EXISTING} BY <3>2
      <4> HIDE DEF c, d
      <4>3. d.ready \notin {REMOVED, READY_EXISTING}
        BY <4>1, <4>2, StatusNumbers DEF Status
      <4> QED BY <4>3 DEF d
    <3>3. PatKnown(y, a) BY <2>2, <3>1, <3>2 DEF TablesRead, PatKnown
    <3>4. a.sdt.version \in Nat BY DEF AirIs, Air
    <3>5. ASSUME InForce(y, a), NEW s \in On(a)
          PROVE  s \in DOMAIN x.channels /\ x.channels[s].ready \notin {REMOVED, READY_EXISTING}
      <4>1. x.auto.pat.all_seen /\ x.auto.pat.version = a.pat.version
        BY <2>0, <2>2, <3>4, <3>5 DEF InForce, SdtAfterPat
      <4> QED BY <3>1, <4>1, PatAllRead DEF TablesRead
    <3>6. SdtKnown(y, a)
      <4>1. ASSUME InForce(y, a), NEW s \in On(a), SectionOf(s) \in y.auto.sdt.seen
            PROVE  /\ y.channels[s].free_ca = a.sdt.kinds[s].ca
                   /\ y.channels[s].type = a.sdt.kinds[s].type
        <5>1. s \in DOMAIN x.channels BY <3>5, <4>1
        <5>2. /\ x.channels[s].free_ca = a.sdt.kinds[s].ca
              /\ x.channels[s].type = a.sdt.kinds[s].type
          BY <2>2, <3>1, <4>1 DEF TablesRead, SdtKnown, InForce
        <5>3. SameKind(x.channels[s], y.channels[s]) BY <2>3, <5>1
        <5> QED BY <5>2, <5>3 DEF SameKind
      <4> QED BY <2>2, <3>1, <4>1 DEF TablesRead, SdtKnown
    <3>7. StatusKnown(y, a)
      <4> SUFFICES ASSUME InForce(y, a), y.auto.sdt.all_seen, NEW s \in On(a)
                   PROVE  /\ Scrambled(y, a.sdt.kinds[s]) => y.channels[s].ready = NO_STREAMING
                          /\ ~ Scrambled(y, a.sdt.kinds[s]) /\ a.sdt.kinds[s].type = "tv"
                                => y.channels[s].ready = READY
        BY DEF StatusKnown
      <4> DEFINE c == x.channels[s]
                 d == y.channels[s]
                 kind == a.sdt.kinds[s]
      <4>1. s \in DOMAIN x.channels /\ c.ready \notin {REMOVED, READY_EXISTING} BY <3>5
      <4>2. SectionOf(s) \in x.auto.sdt.seen
        BY <2>2, <3>1, OnSection DEF TablesRead, AllSections
      <4>3. c.free_ca = kind.ca /\ c.type = kind.type
        BY <2>2, <3>1, <4>2 DEF TablesRead, SdtKnown, InForce
      <4>4. /\ d.ready = IF Status(x.config, c) = ALMOST_READY THEN READY ELSE Status(x.config, c)
            /\ c.pmt_pid # NoPid
        BY <2>3, <4>1
      <4>5. y.config = x.config BY <2>2
      <4> HIDE DEF c, d, kind
      <4>6. /\ Scrambled(y, kind) => d.ready = NO_STREAMING
            /\ ~ Scrambled(y, kind) /\ kind.type = "tv" => d.ready = READY
        BY <4>1, <4>3, <4>4, <4>5, StatusNumbers DEF Status, Scrambled
      <4> QED BY <4>6 DEF d, kind
    <3> QED BY <2>2, <3>1, <3>3, <3>6, <3>7 DEF TablesRead
  <2>7. ASSUME known, ~ x.config.scam PROVE GoneChannels(y, a, left)
    <3>1. GoneChannels(x, a, left) /\ x.auto.pat.all_seen BY <1>2, <2>7 DEF Good
    <3>2. ASSUME NEW s \in DOMAIN x.channels PROVE y.channels[s].ready # READY_EXISTING
      <4> DEFINE c == x.channels[s]
                 d == y.channels[s]
      <4>1. d.ready = IF Status(x.config, c) = ALMOST_READY THEN READY ELSE Status(x.config, c)
        BY <2>3
      <4>2. c.ready # READY_EXISTING BY <3>1 DEF GoneChannels
      <4> HIDE DEF c, d
      <4>3. d.ready # READY_EXISTING BY <4>1, <4>2, StatusNumbers DEF Status
      <4> QED BY <4>3 DEF d
    <3>3. ASSUME NEW s \in DOMAIN y.channels \ (On(a) \cup left)
          PROVE  /\ Gone(y, y.channels[s])
                 /\ y.auto.pat.version = a.pat.version => y.channels[s].ready # READY
      <4> DEFINE c == x.channels[s]
                 d == y.channels[s]
      <4>1. s \in DOMAIN x.channels BY <2>2
      <4>2. /\ d.ready = IF Status(x.config, c) = ALMOST_READY THEN READY ELSE Status(x.config, c)
            /\ c.pmt_pid # NoPid /\ SameKind(c, d)
        BY <2>3, <4>1
      <4>3. /\ Gone(x, c) /\ c.ready # READY_EXISTING
            /\ x.auto.pat.version = a.pat.version => c.ready # READY
        BY <2>2, <3>1 DEF GoneChannels
      <4>4. x.config.scrambled = y.config.scrambled /\ y.auto.pat.version = x.auto.pat.version
        BY <2>2
      <4> HIDE DEF c, d
      <4>5. /\ Gone(y, d) /\ (y.auto.pat.version = a.pat.version => d.ready # READY)
        BY <4>2, <4>3, <4>4, StatusNumbers DEF Status, Gone, SameKind
      <4> QED BY <4>5 DEF d
    <3> QED BY <2>2, <3>2, <3>3 DEF GoneChannels
  <2>8. Good(y, a, sent, gone, left, known)
    BY <2>2, <2>4, <2>5, <2>6, <2>7 DEF Good
  <2>9. Fine(y, a, sent, gone, left, known)
    BY <2>2, <2>5, <2>6, <2>8 DEF Fine, NeedsNothing
  <2> QED BY <2>9 DEF y
<1> QED BY <1>1, <1>2

-----------------------------------------------------------------------------
(* The PMTs that came are read *)

\* What chan_update_CAM makes of a channel
CamUpdated(config, c) ==
    LET Asks1(d) == d.ready = READY /\ d.free_ca
        e == IF Asks1(c) /\ config.scrambled THEN AskCam(c) ELSE c
    IN IF Asks1(e) /\ config.scam THEN AskOscam(e) ELSE e

\* c becomes d, and only who is asked to descramble changes.
OnlyAsks(c, d) ==
    /\ d \in Channel /\ SamePids(c, d) /\ SameStatus(c, d) /\ SameKind(c, d)
    /\ d.pmt_packet = c.pmt_packet /\ d.pmt_version = c.pmt_version
    /\ d.need_cam_ask = "ASKED" => c.need_cam_ask = "ASKED"

LEMMA AskCamIs ==
  ASSUME NEW c \in Channel
  PROVE  OnlyAsks(c, AskCam(c))
<1> DEFINE ask == CASE c.need_cam_ask = "NO_ASK" -> "NEED_ASK"
                    [] c.need_cam_ask = "ASKED" -> "NEED_UPDATE"
                    [] OTHER -> c.need_cam_ask
           d == AskCam(c)
<1>1. d = [c EXCEPT !.need_cam_ask = ask] BY DEF AskCam
<1>2. ask \in Asks /\ ask # "ASKED"
  <2>1. c.need_cam_ask \in Asks BY DEF Channel
  <2>2. CASE c.need_cam_ask = "NO_ASK" BY <2>2 DEF Asks
  <2>3. CASE c.need_cam_ask = "ASKED" BY <2>3 DEF Asks
  <2>4. CASE c.need_cam_ask \notin {"NO_ASK", "ASKED"} BY <2>1, <2>4 DEF Asks
  <2> QED BY <2>2, <2>3, <2>4
<1> HIDE DEF ask, d
<1>3. OnlyAsks(c, d) BY <1>1, <1>2 DEF OnlyAsks, Channel, SamePids, SameStatus, SameKind
<1> QED BY <1>3 DEF d

LEMMA AskOscamIs ==
  ASSUME NEW c \in Channel
  PROVE  OnlyAsks(c, AskOscam(c))
<1> DEFINE d == AskOscam(c)
<1>1. CASE ~ c.scam_support
  <2>1. d = [c EXCEPT !.scam_support = TRUE, !.need_scam_ask = "NEED_ASK"] BY <1>1 DEF AskOscam
  <2>2. "NEED_ASK" \in Asks BY DEF Asks
  <2> HIDE DEF d
  <2>3. OnlyAsks(c, d) BY <2>1, <2>2 DEF OnlyAsks, Channel, SamePids, SameStatus, SameKind
  <2> QED BY <2>3 DEF d
<1>2. CASE c.scam_support
  <2> DEFINE ask == IF c.need_scam_ask = "ASKED" THEN "NEED_ASK" ELSE c.need_scam_ask
  <2>1. d = [c EXCEPT !.need_scam_ask = ask] BY <1>2 DEF AskOscam
  <2>2. ask \in Asks BY DEF Asks, Channel
  <2> HIDE DEF d, ask
  <2>3. OnlyAsks(c, d) BY <2>1, <2>2 DEF OnlyAsks, Channel, SamePids, SameStatus, SameKind
  <2> QED BY <2>3 DEF d
<1> QED BY <1>1, <1>2

LEMMA CamUpdatedIs ==
  ASSUME NEW c \in Channel, NEW config
  PROVE  OnlyAsks(c, CamUpdated(config, c))
<1> DEFINE e == IF c.ready = READY /\ c.free_ca /\ config.scrambled THEN AskCam(c) ELSE c
           d == IF e.ready = READY /\ e.free_ca /\ config.scam THEN AskOscam(e) ELSE e
<1>1. CamUpdated(config, c) = d BY DEF CamUpdated
<1>2. OnlyAsks(c, c) BY DEF OnlyAsks, SamePids, SameStatus, SameKind
<1>3. OnlyAsks(c, e)
  <2>1. OnlyAsks(c, AskCam(c)) BY AskCamIs
  <2> QED BY <1>2, <2>1
<1> HIDE DEF e
<1>4. e \in Channel BY <1>3 DEF OnlyAsks
<1>5. OnlyAsks(e, e) BY <1>4 DEF OnlyAsks, SamePids, SameStatus, SameKind
<1>6. OnlyAsks(e, d)
  <2>1. OnlyAsks(e, AskOscam(e)) BY <1>4, AskOscamIs
  <2> QED BY <1>5, <2>1
<1> HIDE DEF d
<1>7. OnlyAsks(c, d) BY <1>3, <1>6 DEF OnlyAsks, SamePids, SameStatus, SameKind
<1> QED BY <1>1, <1>7

LEMMA AsksOk ==
  ASSUME NEW s, NEW c, NEW d, OnlyAsks(c, d), NEW sent, NEW prog, NEW fixed,
         ChannelOk(s, c, sent, prog, fixed)
  PROVE  ChannelOk(s, d, sent, prog, fixed)
BY DEF OnlyAsks, ChannelOk, PmtKept, CamAsked, PmtPidKept, SamePids, SameStatus, Streaming

\* What autoconf_read_pmt makes of a channel whose PMT came
LEMMA ReadPmtOk ==
  ASSUME NEW s \in Services, NEW c \in Channel, NEW sent, NEW prog, NEW fixed,
         ChannelOk(s, c, sent, prog, fixed), c.pmt_packet.sid = s,
         NEW auto \in AutoState, auto.emm \notin PmtPids[s], NEW stale \in BOOLEAN
  PROVE  /\ autoconf_read_pmt(auto, c, stale) \in Channel
         /\ SameStatus(c, autoconf_read_pmt(auto, c, stale))
         /\ SameKind(c, autoconf_read_pmt(auto, c, stale))
         /\ ChannelOk(s, autoconf_read_pmt(auto, c, stale), sent, prog, fixed)
<1> DEFINE d == autoconf_read_pmt(auto, c, stale)
           pmt == c.pmt_packet
<1>1. pmt \in PmtSections /\ pmt # NoSection
  <2>1. s # 0 BY PsiAssumption
  <2>2. pmt # NoSection BY <2>1 DEF NoSection
  <2> QED BY <2>2 DEF Channel, Pmts
<1>2. c.pids # <<>> /\ PidsOf(pmt) \cap PmtPids[s] = {} BY <1>1 DEF ChannelOk, PmtKept
<1>3. /\ d \in Channel /\ d.pids # <<>> /\ d.pids[1] = c.pids[1]
      /\ \A i \in DOMAIN d.pids :
            i = 1 \/ d.pids[i] \in StreamsPids(pmt.streams)
                        \cup ({pmt.ecm, auto.emm} \ {NoPid}) \cup {pmt.pcr}
      /\ d.pmt_pid = c.pmt_pid /\ d.generated_pat = c.generated_pat
      /\ SamePmtState(c, d) /\ SameStatus(c, d) /\ SameKind(c, d)
  BY <1>1, <1>2, ReadPmtIs
<1> HIDE DEF d
<1>4. fixed => PmtPidKept(s, d, prog)
  <2> SUFFICES ASSUME fixed PROVE PmtPidKept(s, d, prog) OBVIOUS
  <2>1. PmtPidKept(s, c, prog) BY DEF ChannelOk
  <2>2. ASSUME NEW i \in DOMAIN d.pids, d.pids[i] \in PmtPids[s] PROVE d.pids[i] = d.pids[1]
    <3>1. StreamsPids(pmt.streams) \cup {pmt.pcr, pmt.ecm} = PidsOf(pmt)
      BY DEF StreamsPids, PidsOf
    <3>2. d.pids[i] \notin StreamsPids(pmt.streams) \cup ({pmt.ecm, auto.emm} \ {NoPid}) \cup {pmt.pcr}
      BY <1>2, <2>2, <3>1
    <3>3. i = 1 BY <1>3, <3>2
    <3> QED BY <3>3
  <2> QED BY <1>3, <2>1, <2>2 DEF PmtPidKept
<1>5. ChannelOk(s, d, sent, prog, fixed)
  BY <1>3, <1>4 DEF ChannelOk, PmtKept, CamAsked, SamePmtState, SameStatus, Streaming
<1> QED BY <1>3, <1>5 DEF d

LEMMA CamUpdateIs ==
  ASSUME NEW x, IsMain(x)
  PROVE  LET y == chan_update_CAM(x) IN
         /\ y = [auto |-> y.auto, channels |-> y.channels, asked_pid |-> x.asked_pid,
                 config |-> x.config]
         /\ y.channels = [s \in DOMAIN x.channels |-> CamUpdated(x.config, x.channels[s])]
         /\ y.auto \in AutoState /\ y.auto.pat = x.auto.pat /\ y.auto.sdt = x.auto.sdt
         /\ y.auto.emm = x.auto.emm /\ SameNeed(x, y)
<1> DEFINE y == chan_update_CAM(x)
           first == x.config.scam /\ \E s \in DOMAIN x.channels :
                       /\ x.channels[s].ready = READY /\ x.channels[s].free_ca
                       /\ ~ x.channels[s].scam_support
           channels == [s \in DOMAIN x.channels |-> CamUpdated(x.config, x.channels[s])]
<1>1. y = [x EXCEPT !.channels = channels,
                    !.auto.need_filter_chan_update = @ \/ first]
  BY DEF chan_update_CAM, CamUpdated
<1>2. first => x.config.scam OBVIOUS
<1>3. first \in BOOLEAN
  <2>1. x.config.scam \in BOOLEAN BY ConfigIs DEF IsMain
  <2> QED BY <2>1
<1>4. x.auto \in AutoState BY DEF IsMain
<1> HIDE DEF y, first, channels
<1>5. /\ y = [auto |-> y.auto, channels |-> channels, asked_pid |-> x.asked_pid,
              config |-> x.config]
      /\ y.auto = [x.auto EXCEPT !.need_filter_chan_update = @ \/ first]
  BY <1>1 DEF IsMain
<1>6. (x.auto.need_filter_chan_update \/ first) \in BOOLEAN OBVIOUS
<1>7. /\ y.auto \in AutoState /\ y.auto.pat = x.auto.pat /\ y.auto.sdt = x.auto.sdt
      /\ y.auto.emm = x.auto.emm
      /\ y.auto.need_filter_chan_update = (x.auto.need_filter_chan_update \/ first)
  BY <1>4, <1>5, <1>6 DEF AutoState
<1>8. y.channels = channels BY <1>5
<1>9. SameNeed(x, y) BY <1>2, <1>7 DEF SameNeed
<1> QED BY <1>5, <1>7, <1>8, <1>9 DEF y, channels

LEMMA ReadPmtsFine ==
  ASSUME NEW x, NEW a, AirIs(a), NEW sent, NEW gone, NEW left, NEW known,
         Fine(x, a, sent, gone, left, known), NEW pid, NEW stale \in BOOLEAN
  PROVE  Fine(ReadPmts(x, pid, stale), a, sent, gone, left, known)
<1> DEFINE read == PmtToRead(x, pid)
           list == x.channels
           new == [s \in DOMAIN list |-> IF s \in read THEN autoconf_read_pmt(x.auto, list[s], stale)
                                         ELSE list[s]]
           x1 == [x EXCEPT !.channels = new]
           x2 == update_chan_filters(x1)
           y == chan_update_CAM(x2)
<1>1. CASE ~ x.auto.pat.all_seen \/ read = {} BY <1>1 DEF ReadPmts
<1>2. CASE ~ (~ x.auto.pat.all_seen \/ read = {})
  <2>0. /\ Good(x, a, sent, gone, left, known) /\ IsMain(x)
        /\ ChannelsOk(x, sent, a.pat.progs, gone) /\ EmmOk(x)
        /\ x.auto \in AutoState /\ IsList(list)
    BY DEF Fine, Good, IsMain
  <2>1. ReadPmts(x, pid, stale) = y BY <1>2 DEF ReadPmts
  <2>2. ASSUME NEW s \in DOMAIN list
        PROVE  /\ new[s] \in Channel /\ SameStatus(list[s], new[s]) /\ SameKind(list[s], new[s])
               /\ ChannelOk(s, new[s], sent[s], a.pat.progs[s], s \notin gone)
    <3> DEFINE c == list[s]
    <3>1. s \in Services /\ c \in Channel /\ ChannelOk(s, c, sent[s], a.pat.progs[s], s \notin gone)
      BY <2>0 DEF IsList, ChannelsOk
    <3>2. CASE s \in read
      <4>1. new[s] = autoconf_read_pmt(x.auto, c, stale) BY <3>2
      <4>2. c.pmt_packet.sid = s BY <3>2 DEF PmtToRead
      <4>3. x.auto.emm \notin PmtPids[s] BY <2>0, <3>1 DEF EmmOk
      <4> HIDE DEF new, c, read
      <4>4. /\ autoconf_read_pmt(x.auto, c, stale) \in Channel
            /\ SameStatus(c, autoconf_read_pmt(x.auto, c, stale))
            /\ SameKind(c, autoconf_read_pmt(x.auto, c, stale))
            /\ ChannelOk(s, autoconf_read_pmt(x.auto, c, stale), sent[s], a.pat.progs[s],
                         s \notin gone)
        BY <2>0, <3>1, <4>2, <4>3, ReadPmtOk
      <4> QED BY <4>1, <4>4 DEF c
    <3>3. CASE s \notin read
      <4>1. new[s] = c BY <3>3
      <4> HIDE DEF new
      <4> QED BY <3>1, <4>1 DEF SameStatus, SameKind
    <3> QED BY <3>2, <3>3
  <2>3. IsList(new) /\ DOMAIN new = DOMAIN list
    <3>1. DOMAIN new = DOMAIN list OBVIOUS
    <3>2. new \in [DOMAIN list -> Channel] BY <2>2
    <3> HIDE DEF new
    <3> QED BY <2>0, <3>1, <3>2 DEF IsList
  <2> HIDE DEF new, read
  <2>4. x1 = [auto |-> x.auto, channels |-> new, asked_pid |-> x.asked_pid, config |-> x.config]
    BY <2>0 DEF IsMain
  <2> HIDE DEF x1
  <2>5. IsMain(x1) /\ x1.channels = new /\ x1.auto = x.auto /\ x1.config = x.config
    BY <2>0, <2>3, <2>4 DEF IsMain
  <2>6. WithFilters(x1, x2) BY <2>5, FiltersAre
  <2> HIDE DEF x2
  <2>7. /\ IsMain(x2) /\ x2.channels = new /\ x2.auto = x.auto /\ x2.config = x.config
        /\ \A p \in Wanted(new) : x2.asked_pid[p] = "FILTERED"
    BY <2>5, <2>6 DEF WithFilters
  <2>8. /\ y = [auto |-> y.auto, channels |-> y.channels, asked_pid |-> x2.asked_pid,
                config |-> x2.config]
        /\ y.channels = [s \in DOMAIN x2.channels |-> CamUpdated(x2.config, x2.channels[s])]
        /\ y.auto \in AutoState /\ y.auto.pat = x2.auto.pat /\ y.auto.sdt = x2.auto.sdt
        /\ y.auto.emm = x2.auto.emm /\ SameNeed(x2, y)
    BY <2>7, CamUpdateIs
  <2> HIDE DEF y
  <2>9. y.asked_pid = x2.asked_pid /\ y.config = x.config /\ DOMAIN y.channels = DOMAIN list
    <3>1. y.asked_pid = x2.asked_pid /\ y.config = x2.config BY <2>8
    <3> QED BY <2>3, <2>7, <2>8, <3>1
  <2>10. ASSUME NEW s \in DOMAIN list PROVE OnlyAsks(new[s], y.channels[s])
    <3>1. y.channels[s] = CamUpdated(x2.config, new[s]) BY <2>3, <2>7, <2>8
    <3> QED BY <2>2, <3>1, CamUpdatedIs
  <2>11. IsMain(y)
    <3>1. \A s \in DOMAIN list : y.channels[s] \in Channel BY <2>10 DEF OnlyAsks
    <3>2. y.channels = [s \in DOMAIN list |-> y.channels[s]] BY <2>3, <2>7, <2>8
    <3>3. IsList(y.channels) BY <2>0, <2>9, <3>1, <3>2 DEF IsList
    <3>4. x2.asked_pid \in Filters /\ x2.config \in Configs BY <2>7 DEF IsMain
    <3> QED BY <2>7, <2>8, <2>9, <3>3, <3>4 DEF IsMain
  <2>12. Steady(x, y)
    <3>1. ASSUME NEW s \in DOMAIN list
          PROVE  SameStatus(list[s], y.channels[s]) /\ SameKind(list[s], y.channels[s])
      BY <2>2, <2>10 DEF OnlyAsks, SameStatus, SameKind
    <3> QED BY <2>7, <2>8, <2>9, <2>11, <3>1 DEF Steady, SameTable
  <2>13. ChannelsOk(y, sent, a.pat.progs, gone)
    <3> SUFFICES ASSUME NEW s \in DOMAIN list
                 PROVE  ChannelOk(s, y.channels[s], sent[s], a.pat.progs[s], s \notin gone)
      BY <2>9 DEF ChannelsOk
    <3> QED BY <2>2, <2>10, AsksOk
  <2>14. Filtered(y)
    <3> SUFFICES ASSUME NEW s \in DOMAIN list, Streaming(y.channels[s]),
                        NEW p \in ToSet(y.channels[s].pids)
                 PROVE  y.asked_pid[p] # "NOT_ASKED"
      BY <2>9 DEF Filtered
    <3>1. new[s].pids = y.channels[s].pids /\ new[s].ready = y.channels[s].ready
      BY <2>10 DEF OnlyAsks, SamePids, SameStatus
    <3>2. new[s].ready \in Statuses BY <2>2 DEF Channel, Statuses
    <3>3. new[s].ready >= ALMOST_READY BY <3>1, <3>2, StatusNumbers
    <3>4. p \in Wanted(new) BY <2>3, <3>1, <3>3, WantedPids
    <3> QED BY <2>7, <2>9, <3>4
  <2>15. FiltersSet(y) BY <2>14 DEF FiltersSet
  <2>16. SameNeed(x, y) BY <2>7, <2>8 DEF SameNeed
  <2>17. EmmOk(y) BY <2>0, <2>7, <2>8 DEF EmmOk
  <2>18. /\ Good(y, a, sent, gone, left, known)
         /\ known /\ StatusKnown(x, a) => StatusKnown(y, a)
    BY <2>0, <2>12, <2>13, <2>15, <2>16, <2>17, SteadyGood
  <2>19. NeedsNothing(y, known) BY <2>9, <2>16 DEF Fine, NeedsNothing, SameNeed
  <2>20. Fine(y, a, sent, gone, left, known) BY <2>15, <2>18, <2>19 DEF Fine
  <2> QED BY <2>1, <2>20
<1> QED BY <1>1, <1>2

LEMMA NewPacketFine ==
  ASSUME NEW x, NEW a, AirIs(a), NEW sent, NEW gone, NEW left, NEW known,
         Good(x, a, sent, gone, left, known), NeedsNothing(x, known),
         NEW pid, NEW section, NEW whole, NEW stale \in BOOLEAN,
         PacketOk(pid, section, a, known)
  PROVE  Fine(autoconf_new_packet([x EXCEPT !.channels = chan_new_pmt(@, pid, section, whole)],
                                  pid, section, whole, stale),
              a, sent, gone, left, known)
<1> DEFINE x1 == [x EXCEPT !.channels = chan_new_pmt(@, pid, section, whole)]
           x2 == ReadTable(x1, pid, section, whole)
           x3 == UpdateChannels(x2)
<1>1. IsPacket(pid, section, a) BY DEF PacketOk
<1>2. Good(x1, a, sent, gone, left, known) BY <1>1, NewPmtGood
<1>3. NeedsNothing(x1, known)
  <2>1. x1.auto = x.auto /\ x1.config = x.config BY DEF Good, IsMain
  <2> HIDE DEF x1
  <2> QED BY <2>1 DEF NeedsNothing
<1> HIDE DEF x1
<1>4. Good(x2, a, sent, gone, left, known) BY <1>2, <1>3, ReadTableGood
<1> HIDE DEF x2
<1>5. Fine(x3, a, sent, gone, left, known) BY <1>4, UpdateChannelsFine
<1> HIDE DEF x3
<1>6. Fine(ReadPmts(x3, pid, stale), a, sent, gone, left, known) BY <1>5, ReadPmtsFine
<1> QED BY <1>6 DEF autoconf_new_packet, x1, x2, x3

LEMMA FineIs ==
  ASSUME NEW x, NEW a, NEW sent, NEW gone, NEW left, NEW known
  PROVE  Fine(x, a, sent, gone, left, known) <=> MainOk(x, a, sent, gone, left, known)
BY DEF Fine, Good, MainOk, TablesKnown, GoneKnown, NeedsNothing

\* A section sent ahead only takes away from what is known.
LEMMA WeakerMain ==
  ASSUME NEW x, NEW a, NEW sent, NEW gone, NEW left, NEW known, NEW less, less => known,
         MainOk(x, a, sent, gone, left, known)
  PROVE  Good(x, a, sent, gone, left, less) /\ NeedsNothing(x, less)
BY DEF Good, MainOk, TablesKnown, GoneKnown, NeedsNothing

-----------------------------------------------------------------------------
(* The sections the transponder sends *)

LEMMA PatSectionIs ==
  ASSUME AirIs(air), NEW n \in 0 .. LastSection, NEW current \in BOOLEAN
  PROVE  /\ IsPat(PatSection(n, current), air)
         /\ PatSection(n, current).current = current
<1> DEFINE section == PatSection(n, current)
           version == IF current THEN air.pat.version ELSE air.pat.version + 1
           progs == [s \in OnAir \cap InSection(n) |-> air.pat.progs[s]]
<1>1. section = [n |-> n, last |-> LastSection, version |-> version, current |-> current,
                 progs |-> progs]
  BY DEF PatSection, Version
<1>2. air.pat.version \in Nat BY DEF AirIs, Air
<1>3. version \in Nat BY <1>2
<1>4. DOMAIN progs = {s \in On(air) : SectionOf(s) = n}
  BY DEF OnAir, InSection, On, SectionOf
<1>5. \A s \in DOMAIN progs : progs[s] = air.pat.progs[s] OBVIOUS
<1>6. current => version = air.pat.version OBVIOUS
<1> HIDE DEF section, version, progs
<1>7. /\ section.n = n /\ section.last = LastSection /\ section.version = version
      /\ section.current = current /\ section.progs = progs
  BY <1>1
<1>8. IsSection(section) BY <1>3, <1>7 DEF IsSection
<1>9. IsPat(section, air) BY <1>4, <1>5, <1>6, <1>7, <1>8 DEF IsPat
<1> QED BY <1>7, <1>9 DEF section

LEMMA SdtSectionIs ==
  ASSUME AirIs(air), NEW n \in 0 .. LastSection, NEW current \in BOOLEAN
  PROVE  /\ IsSdt(SdtSection(n, current), air)
         /\ SdtSection(n, current).current = current
<1> DEFINE section == SdtSection(n, current)
           version == IF current THEN air.sdt.version ELSE air.sdt.version + 1
           kinds == [s \in OnAir \cap InSection(n) |-> air.sdt.kinds[s]]
<1>1. section = [n |-> n, last |-> LastSection, version |-> version, current |-> current,
                 other |-> FALSE, kinds |-> kinds]
  BY DEF SdtSection, Version
<1>2. air.sdt.version \in Nat BY DEF AirIs, Air
<1>3. version \in Nat BY <1>2
<1>4. DOMAIN kinds = {s \in On(air) : SectionOf(s) = n}
  BY DEF OnAir, InSection, On, SectionOf
<1>5. \A s \in DOMAIN kinds : kinds[s] = air.sdt.kinds[s] OBVIOUS
<1>6. current => version = air.sdt.version OBVIOUS
<1> HIDE DEF section, version, kinds
<1>7. /\ section.n = n /\ section.last = LastSection /\ section.version = version
      /\ section.current = current /\ section.kinds = kinds
  BY <1>1
<1>8. IsSection(section) BY <1>3, <1>7 DEF IsSection
<1>9. IsSdt(section, air) BY <1>4, <1>5, <1>6, <1>7, <1>8 DEF IsSdt
<1> QED BY <1>7, <1>9 DEF section

LEMMA ModeIs ==
  ASSUME IInv
  PROVE  st.config.mode \in Modes /\ MaxEvents[st.config.mode] \in Nat
<1>1. st.config \in Configs BY DEF IInv, MainOk, IsMain
<1>2. PICK m \in Modes : st.config = Config(m) BY <1>1 DEF Configs
<1>3. st.config.mode = m BY <1>2 DEF Config
<1> QED BY <1>3, PsiAssumption

LEMMA CatSectionIs ==
  ASSUME IInv, NEW current \in BOOLEAN
  PROVE  IsCat(CatSection(current)) /\ CatSection(current).current = current
<1> DEFINE section == CatSection(current)
           version == IF current THEN air.cat ELSE air.cat + 1
<1>1. section = [n |-> 0, last |-> 0, version |-> version, current |-> current,
                 emm |-> EmmOf(version)]
  BY DEF CatSection
<1>3. air.cat \in Nat /\ FirstCat \in Nat BY PsiAssumption DEF IInv, AirIs, Air
<1>2. PICK m \in Modes : MaxEvents[m] \in Nat /\ air.cat <= FirstCat + MaxEvents[m]
  <2>1. /\ events \in Nat /\ air.cat <= FirstCat + events
        /\ \E m \in Modes : events <= MaxEvents[m]
    BY DEF IInv, Bounded
  <2> QED BY <1>3, <2>1, PsiAssumption
<1>4. version \in 0 .. FirstCat + MaxEvents[m] + 1 BY <1>2, <1>3
<1> HIDE DEF version
<1>5. EmmOf(version) \in Pids \cup {NoPid} /\ \A s \in Services : EmmOf(version) \notin PmtPids[s]
  BY <1>2, <1>4, PsiAssumption
<1>6. version \in Nat BY <1>4
<1> HIDE DEF section
<1>7. IsCat(section) /\ section.current = current BY <1>1, <1>5, <1>6 DEF IsCat
<1> QED BY <1>7 DEF section

LEMMA PmtSectionIs ==
  ASSUME IInv, NEW s \in Services, NEW current \in BOOLEAN
  PROVE  /\ IsPmt(PmtSection(s, current)) /\ PmtSection(s, current).sid = s
         /\ PmtSection(s, current).current = current
<1> DEFINE section == PmtSection(s, current)
           version == IF current THEN air.pmt[s] ELSE air.pmt[s] + 1
           pmt == PmtOf(s, version)
<1>1. section = [sid |-> s, version |-> version, current |-> current,
                 streams |-> pmt.streams, pcr |-> pmt.pcr, ecm |-> pmt.ecm]
  BY DEF PmtSection
<1>2. PICK m \in Modes : MaxEvents[m] \in Nat /\ air.pmt[s] <= MaxEvents[m]
  <2>1. /\ events \in Nat /\ air.pmt[s] \in Nat /\ air.pmt[s] <= events
        /\ \E m \in Modes : events <= MaxEvents[m]
    BY DEF IInv, Bounded, AirIs, Air
  <2> QED BY <2>1, PsiAssumption
<1>3. air.pmt[s] \in Nat BY DEF IInv, AirIs, Air
<1>4. version \in 0 .. MaxEvents[m] + 1 BY <1>2, <1>3
<1> HIDE DEF version
<1>5. pmt \in PmtData /\ PidsOf(pmt) \cap PmtPids[s] = {}
  BY <1>2, <1>4, PsiAssumption
<1>6. version \in Nat BY <1>4
<1> HIDE DEF section, pmt
<1>7. section \in PmtSections BY <1>1, <1>5, <1>6 DEF PmtSections, PmtData
<1>8. section.sid = s /\ section.current = current BY <1>1
<1>9. PidsOf(section) = PidsOf(pmt) BY <1>1 DEF PidsOf
<1>10. IsPmt(section) BY <1>5, <1>7, <1>8, <1>9 DEF IsPmt
<1> QED BY <1>8, <1>10 DEF section

-----------------------------------------------------------------------------
(* The first step: a packet comes *)

LEMMA RewriteIs ==
  ASSUME NEW r, IsRewrite(r), NEW a, AirIs(a), NEW section, IsPat(section, a), NEW whole
  PROVE  IsRewrite(pat_rewrite_new_global_packet(r, section, whole))
<1> DEFINE s == pat_rewrite_new_global_packet(r, section, whole)
           need == r.need \/ (section.current /\ section.version # r.version)
<1>1. /\ section.version \in Int /\ section.current \in BOOLEAN
      /\ DOMAIN section.progs \subseteq Services
      /\ \A t \in DOMAIN section.progs : section.progs[t] \in PmtPids[t]
  <2>1. section.version \in Int /\ section.current \in BOOLEAN BY DEF IsPat, IsSection
  <2>2. ASSUME NEW t \in DOMAIN section.progs
        PROVE  t \in Services /\ section.progs[t] \in PmtPids[t]
    <3>1. t \in On(a) /\ section.progs[t] = a.pat.progs[t] BY DEF IsPat
    <3> QED BY <3>1, OnPids
  <2> QED BY <2>1, <2>2
<1>2. CASE ~ need BY <1>2 DEF pat_rewrite_new_global_packet
<1>3. CASE need /\ ~ whole
  <2>1. s = [r EXCEPT !.need = TRUE] BY <1>3 DEF pat_rewrite_new_global_packet
  <2> HIDE DEF s
  <2>2. IsRewrite(s) BY <2>1 DEF IsRewrite
  <2> QED BY <2>2 DEF s
<1>4. CASE need /\ whole /\ ~ section.current
  <2>1. s = [r EXCEPT !.need = TRUE, !.progs = section.progs]
    BY <1>4 DEF pat_rewrite_new_global_packet
  <2> HIDE DEF s
  <2>2. s = [version |-> r.version, need |-> TRUE, ok |-> r.ok, progs |-> section.progs]
    BY <2>1 DEF IsRewrite
  <2>3. IsRewrite(s) BY <1>1, <2>2 DEF IsRewrite
  <2> QED BY <2>3 DEF s
<1>5. CASE need /\ whole /\ section.current
  <2>1. s = [version |-> section.version, need |-> FALSE, ok |-> TRUE, progs |-> section.progs]
    BY <1>5 DEF pat_rewrite_new_global_packet
  <2> HIDE DEF s
  <2>2. IsRewrite(s) BY <1>1, <2>1 DEF IsRewrite
  <2> QED BY <2>2 DEF s
<1> QED BY <1>2, <1>3, <1>4, <1>5

LEMMA NewPacketStep ==
  ASSUME IInv, NEW pid, NEW section, NEW whole, NewPacket(pid, section, whole),
         NEW current \in BOOLEAN, NEW other, Kind(current, whole, other),
         IsPacket(pid, section, air),
         section.current = current \/ (pid = 17 /\ section.other /\ section.current)
  PROVE  IInv'
<1> DEFINE known == ~ ahead'
<1>0. AirIs(air) /\ MainOk(st, air, cam, moved, early, ~ ahead) /\ Bounded /\ IsRewrite(rewrite)
      /\ OthersOk
  BY DEF IInv
<1>1. ahead' = (ahead \/ ~ current) BY DEF Kind
<1>2. Good(st, air, cam, moved, early, known) /\ NeedsNothing(st, known)
  BY <1>0, <1>1, WeakerMain
<1>3. PacketOk(pid, section, air, known)
  BY <1>1 DEF PacketOk
<1>4. PICK stale \in BOOLEAN :
        st' = autoconf_new_packet([st EXCEPT !.channels = chan_new_pmt(@, pid, section, whole)],
                                  pid, section, whole, stale)
  BY DEF NewPacket
<1>5. Fine(st', air, cam, moved, early, known)
  <2> HIDE DEF known
  <2> QED BY <1>0, <1>2, <1>3, <1>4, NewPacketFine
<1>6. UNCHANGED <<air, cam, oscam, sending, early, moved>> BY DEF NewPacket
<1>7. MainOk(st', air', cam', moved', early', ~ ahead')
  <2>1. MainOk(st', air, cam, moved, early, known)
    <3> HIDE DEF known
    <3> QED BY <1>5, FineIs
  <2> QED BY <1>6, <2>1
<1>8. IsRewrite(rewrite')
  <2>1. CASE pid = 0
    <3>1. rewrite' = pat_rewrite_new_global_packet(rewrite, section, whole)
      BY <2>1 DEF NewPacket
    <3>2. IsPat(section, air)
      <4>1. \A s \in On(air) : air.pat.progs[s] # 0
        <5> SUFFICES ASSUME NEW s \in On(air) PROVE air.pat.progs[s] # 0 OBVIOUS
        <5>1. air.pat.progs[s] \in PmtPids[s] /\ s \in Services BY <1>0, OnPids
        <5> QED BY <5>1, PmtPidIs
      <4> QED BY <2>1, <4>1 DEF IsPacket
    <3> QED BY <1>0, <3>1, <3>2, RewriteIs
  <2>2. CASE pid # 0
    <3>1. rewrite' = rewrite BY <2>2 DEF NewPacket
    <3> QED BY <1>0, <3>1
  <2> QED BY <2>1, <2>2
<1>9. OthersOk'
  <2>1. packet'.pid \in Pids \cup {-1, 0}
    <3>1. packet' = IF pid = 0 \/ pid \in Pids THEN [pid |-> pid] ELSE NoPacket BY DEF NewPacket
    <3> QED BY <3>1 DEF NoPacket
  <2>2. ahead' \in BOOLEAN BY <1>1
  <2> QED BY <1>0, <1>6, <2>1, <2>2 DEF OthersOk
<1>10. Bounded'
  <2>1. events \in Nat /\ odd \in Nat BY <1>0 DEF Bounded
  <2>2. /\ odd' = odd \/ odd' = odd + 1
        /\ events' = events + (odd' - odd) /\ events' <= MaxEvents[st.config.mode]
    <3>1. odd' = odd + (IF current /\ whole /\ ~ other THEN 0 ELSE 1) BY DEF Kind
    <3>2. odd' = odd \/ odd' = odd + 1 BY <2>1, <3>1
    <3> QED BY <3>2 DEF Kind
  <2>3. events' \in Nat /\ odd' \in Nat /\ events <= events' BY <2>2, <2>1
  <2>4. \E m \in Modes : events' <= MaxEvents[m] BY <2>2, ModeIs
  <2>5. \A s \in Services : air'.pmt[s] <= events'
    <3>1. \A s \in Services : air.pmt[s] \in Nat /\ air.pmt[s] <= events
      BY <1>0 DEF Bounded, AirIs, Air
    <3> QED BY <1>6, <2>1, <2>3, <3>1
  <2>6. air'.cat <= FirstCat + events'
    <3>1. air.cat \in Nat /\ air.cat <= FirstCat + events BY <1>0 DEF Bounded, AirIs, Air
    <3> QED BY <1>6, <2>1, <2>3, <3>1, PsiAssumption
  <2> QED BY <2>2, <2>3, <2>4, <2>5, <2>6 DEF Bounded
<1> QED BY <1>0, <1>6, <1>7, <1>8, <1>9, <1>10 DEF IInv

LEMMA PatPacketStep ==
  ASSUME IInv, NEW n \in 0 .. LastSection, NEW current \in BOOLEAN, NEW whole,
         PatPacket(n, current, whole)
  PROVE  IInv'
<1> DEFINE section == PatSection(n, current)
<1>1. Kind(current, whole, FALSE) /\ NewPacket(0, section, whole) BY DEF PatPacket
<1>2. IsPat(section, air) /\ section.current = current BY PatSectionIs DEF IInv
<1> HIDE DEF section
<1>3. IsPacket(0, section, air) BY <1>2 DEF IsPacket
<1> QED BY <1>1, <1>2, <1>3, NewPacketStep

LEMMA SdtPacketStep ==
  ASSUME IInv, NEW n \in 0 .. LastSection, NEW current \in BOOLEAN, NEW whole,
         SdtPacket(n, current, whole)
  PROVE  IInv'
<1> DEFINE section == SdtSection(n, current)
<1>1. Kind(current, whole, FALSE) /\ NewPacket(17, section, whole) BY DEF SdtPacket
<1>2. IsSdt(section, air) /\ section.current = current BY SdtSectionIs DEF IInv
<1> HIDE DEF section
<1>3. IsPacket(17, section, air) BY <1>2 DEF IsPacket
<1> QED BY <1>1, <1>2, <1>3, NewPacketStep

LEMMA OtherSdtStep ==
  ASSUME IInv, OtherSdtPacket
  PROVE  IInv'
<1>1. Kind(TRUE, TRUE, TRUE) /\ NewPacket(17, OtherSdt, TRUE) BY DEF OtherSdtPacket
<1>2. OtherSdt.other = TRUE /\ OtherSdt.current = TRUE BY DEF OtherSdt
<1>3. IsPacket(17, OtherSdt, air) BY <1>2 DEF IsPacket
<1> QED BY <1>1, <1>2, <1>3, NewPacketStep

LEMMA CatPacketStep ==
  ASSUME IInv, NEW current \in BOOLEAN, NEW whole, CatPacket(current, whole)
  PROVE  IInv'
<1> DEFINE section == CatSection(current)
<1>1. Kind(current, whole, FALSE) /\ NewPacket(1, section, whole) BY DEF CatPacket
<1>2. IsCat(section) /\ section.current = current BY CatSectionIs
<1> HIDE DEF section
<1>3. IsPacket(1, section, air) BY <1>2 DEF IsPacket
<1> QED BY <1>1, <1>2, <1>3, NewPacketStep

LEMMA PmtPacketStep ==
  ASSUME IInv, NEW s \in Services, NEW current \in BOOLEAN, NEW whole,
         PmtPacket(s, current, whole)
  PROVE  IInv'
<1> DEFINE section == PmtSection(s, current)
           pid == air.pat.progs[s]
<1>1. Kind(current, whole, FALSE) /\ NewPacket(pid, section, whole) /\ s \in On(air)
  BY DEF PmtPacket, OnAir, On
<1>2. IsPmt(section) /\ section.sid = s /\ section.current = current BY PmtSectionIs
<1> HIDE DEF section
<1>3. IsPacket(pid, section, air) BY <1>1, <1>2 DEF IsPacket
<1> HIDE DEF pid
<1> QED BY <1>1, <1>2, <1>3, NewPacketStep

-----------------------------------------------------------------------------
(* The second step, and the other threads: only who was asked to           *)
(* descramble, and the rewritten PAT, change.                              *)

\* c becomes d, and `next' is the PMT the CAM got last.
Handled(s, c, d, next) ==
    /\ d \in Channel /\ SameStatus(c, d) /\ SameKind(c, d)
    /\ d.pids = c.pids /\ d.pmt_pid = c.pmt_pid
    /\ d.pmt_packet = c.pmt_packet /\ d.pmt_version = c.pmt_version
    /\ CamAsked(d, next)
    /\ \/ d.generated_pat = c.generated_pat
       \/ d.generated_pat.programs \subseteq PmtPids[s] \cap ToSet(c.pids)

LEMMA HandledOk ==
  ASSUME NEW s, NEW c, NEW d, NEW next, Handled(s, c, d, next), NEW sent, NEW prog, NEW fixed,
         ChannelOk(s, c, sent, prog, fixed)
  PROVE  ChannelOk(s, d, next, prog, fixed)
<1>1. /\ Streaming(d) => d.sockets
      /\ d.pids # <<>> /\ d.pmt_pid \in PmtPids[s]
      /\ PmtKept(s, d) /\ CamAsked(d, next)
  BY DEF Handled, ChannelOk, SameStatus, Streaming, PmtKept
<1>2. ASSUME fixed PROVE PmtPidKept(s, d, prog)
  <2>1. PmtPidKept(s, c, prog) BY <1>2 DEF ChannelOk
  <2>2. /\ prog \in {NoPid, d.pmt_pid} /\ d.pids[1] = d.pmt_pid
        /\ \A i \in DOMAIN d.pids : d.pids[i] \in PmtPids[s] => d.pids[i] = d.pids[1]
    BY <2>1 DEF PmtPidKept, Handled
  <2>3. d.generated_pat.programs \subseteq {d.pids[1]}
    <3>1. CASE d.generated_pat = c.generated_pat BY <2>1, <3>1 DEF PmtPidKept, Handled
    <3>2. CASE d.generated_pat.programs \subseteq PmtPids[s] \cap ToSet(c.pids)
      <4> SUFFICES ASSUME NEW p \in d.generated_pat.programs PROVE p = d.pids[1] OBVIOUS
      <4>1. p \in PmtPids[s] /\ p \in ToSet(d.pids) BY <3>2 DEF Handled
      <4>2. PICK i \in DOMAIN d.pids : p = d.pids[i] BY <4>1 DEF ToSet
      <4> QED BY <2>2, <4>1, <4>2
    <3> QED BY <3>1, <3>2 DEF Handled
  <2> QED BY <2>2, <2>3 DEF PmtPidKept
<1> QED BY <1>1, <1>2 DEF ChannelOk

LEMMA AsksHandled ==
  ASSUME NEW s, NEW c, NEW d, OnlyAsks(c, d), NEW sent, CamAsked(c, sent)
  PROVE  Handled(s, c, d, sent)
BY DEF OnlyAsks, Handled, SamePids, CamAsked

\* x becomes y, `sent' is replaced by `next'.
LEMMA HandledMain ==
  ASSUME NEW x, NEW list, NEW a, AirIs(a), NEW sent, NEW next, NEW gone, NEW left,
         NEW known, MainOk(x, a, sent, gone, left, known),
         list = [s \in DOMAIN x.channels |-> list[s]],
         \A s \in DOMAIN x.channels : Handled(s, x.channels[s], list[s], next[s])
  PROVE  MainOk([x EXCEPT !.channels = list], a, next, gone, left, known)
<1> DEFINE y == [x EXCEPT !.channels = list]
<1>1. IsMain(x) BY DEF MainOk
<1>2. y = [auto |-> x.auto, channels |-> list, asked_pid |-> x.asked_pid, config |-> x.config]
  BY <1>1 DEF IsMain
<1> HIDE DEF y
<1>3. /\ y.auto = x.auto /\ y.channels = list /\ y.asked_pid = x.asked_pid
      /\ y.config = x.config
  BY <1>2
<1>4. DOMAIN list = DOMAIN x.channels OBVIOUS
<1>5. IsMain(y)
  <2>1. \A s \in DOMAIN list : list[s] \in Channel BY <1>4 DEF Handled
  <2>2. IsList(list) BY <1>1, <1>4, <2>1 DEF IsList, IsMain
  <2> QED BY <1>1, <1>2, <1>3, <2>2 DEF IsMain
<1>6. Quiet(x, y)
  <2>1. Steady(x, y) BY <1>3, <1>4, <1>5 DEF Steady, SameTable, Handled
  <2> QED BY <1>3, <2>1 DEF Quiet, Handled
<1>7. ChannelsOk(y, next, a.pat.progs, gone)
  <2> SUFFICES ASSUME NEW s \in DOMAIN x.channels
               PROVE  ChannelOk(s, list[s], next[s], a.pat.progs[s], s \notin gone)
    BY <1>3, <1>4 DEF ChannelsOk
  <2>1. ChannelOk(s, x.channels[s], sent[s], a.pat.progs[s], s \notin gone)
    BY DEF MainOk, ChannelsOk
  <2> QED BY <2>1, HandledOk
<1>8. EmmOk(y) /\ FiltersSet(y) /\ SdtAfterPat(y)
  <2>1. FiltersSet(y) BY <1>6, QuietKeeps DEF MainOk
  <2> QED BY <1>3, <2>1 DEF MainOk, EmmOk, SdtAfterPat
<1>9. /\ TablesRead(x, a) => TablesRead(y, a) /\ (StatusKnown(x, a) => StatusKnown(y, a))
      /\ GoneChannels(x, a, left) => GoneChannels(y, a, left)
  <2>1. SdtAfterPat(x) /\ Steady(x, y) BY <1>6 DEF MainOk, Quiet
  <2> QED BY <2>1, SteadyKeeps
<1>10. MainOk(y, a, next, gone, left, known)
  BY <1>3, <1>5, <1>7, <1>8, <1>9 DEF MainOk, TablesKnown, GoneKnown
<1> QED BY <1>10 DEF y

\* What the second step makes of a channel
LEMMA CamPacketIs ==
  ASSUME NEW s \in Services, NEW c \in Channel, NEW pid, NEW sent, NEW next,
         NEW turn \in BOOLEAN, CamAsked(c, sent),
         next = IF turn /\ cam_asks(s, c, pid) THEN c.pmt_packet ELSE sent
  PROVE  Handled(s, c, IF turn THEN cam_new_packet(s, c, pid) ELSE c, next)
<1> DEFINE d == IF turn THEN cam_new_packet(s, c, pid) ELSE c
<1>0. SameStatus(c, c) /\ SameKind(c, c) BY DEF SameStatus, SameKind
<1>1. CASE turn /\ cam_asks(s, c, pid)
  <2>1. d = [c EXCEPT !.need_cam_ask = "ASKED"] BY <1>1 DEF cam_new_packet, cam_asks
  <2>2. next = c.pmt_packet /\ c.pmt_packet # NoSection /\ c.pmt_packet.sid = s
    BY <1>1 DEF cam_asks
  <2>3. SamePmt(next, c.pmt_packet)
    <3>1. NoSection.sid = 0 BY DEF NoSection
    <3> QED BY <2>2, <3>1, PsiAssumption DEF SamePmt
  <2>4. "ASKED" \in Asks BY DEF Asks
  <2> HIDE DEF d
  <2>5. Handled(s, c, d, next)
    BY <2>1, <2>3, <2>4 DEF Handled, Channel, SameStatus, SameKind, CamAsked
  <2> QED BY <2>5 DEF d
<1>2. CASE /\ turn /\ ~ cam_asks(s, c, pid)
           /\ c.need_cam_ask \in {"NEED_ASK", "NEED_UPDATE"} /\ c.pmt_pid = pid
           /\ c.pmt_packet = NoSection
  <2>1. d = [c EXCEPT !.pmt_need_update = TRUE] BY <1>2 DEF cam_new_packet
  <2> HIDE DEF d
  <2>2. Handled(s, c, d, next)
    BY <1>2, <2>1 DEF Handled, Channel, SameStatus, SameKind, CamAsked
  <2> QED BY <2>2 DEF d
<1>3. CASE ~ turn \/ /\ ~ cam_asks(s, c, pid)
                     /\ \/ c.need_cam_ask \notin {"NEED_ASK", "NEED_UPDATE"}
                        \/ c.pmt_pid # pid \/ c.pmt_packet # NoSection
  <2>1. d = c BY <1>3 DEF cam_new_packet
  <2>2. next = sent BY <1>3
  <2> HIDE DEF d
  <2>3. Handled(s, c, d, next) BY <1>0, <2>1, <2>2 DEF Handled
  <2> QED BY <2>3 DEF d
<1> QED BY <1>1, <1>2, <1>3

LEMMA ScamPacketIs ==
  ASSUME NEW s, NEW c, NEW d, NEW next, Handled(s, c, d, next), NEW pid, NEW on \in BOOLEAN
  PROVE  Handled(s, c, IF on THEN scam_new_packet(s, d, pid) ELSE d, next)
<1> DEFINE e == IF on THEN scam_new_packet(s, d, pid) ELSE d
<1>1. e = d \/ e = [d EXCEPT !.scam_packet = d.pmt_packet] BY DEF scam_new_packet
<1>2. d \in Channel BY DEF Handled
<1> HIDE DEF e
<1>3. Handled(s, c, e, next)
  <2>1. CASE e = d BY <2>1
  <2>2. CASE e = [d EXCEPT !.scam_packet = d.pmt_packet]
    BY <1>2, <2>2 DEF Handled, Channel, SameStatus, SameKind, CamAsked
  <2> QED BY <1>1, <2>1, <2>2
<1> QED BY <1>3 DEF e

LEMMA PatPacketIs ==
  ASSUME NEW r, IsRewrite(r), NEW s, NEW c, NEW d, NEW next, Handled(s, c, d, next),
         NEW on \in BOOLEAN
  PROVE  Handled(s, c, IF on THEN pat_rewrite_new_channel_packet(r, s, d) ELSE d, next)
<1> DEFINE e == IF on THEN pat_rewrite_new_channel_packet(r, s, d) ELSE d
           programs == {r.progs[t] : t \in {u \in DOMAIN r.progs :
                                                u = s /\ r.progs[u] \in ToSet(d.pids)}}
           pat == [version |-> r.version, programs |-> programs]
<1>1. e = d \/ e = [d EXCEPT !.generated_pat = pat]
  BY DEF pat_rewrite_new_channel_packet, pat_channel_rewrite
<1>2. d \in Channel /\ d.pids = c.pids BY DEF Handled
<1>3. programs \subseteq PmtPids[s] \cap ToSet(c.pids) BY <1>2 DEF IsRewrite
<1>4. programs \subseteq Pids
  <2> SUFFICES ASSUME NEW p \in programs PROVE p \in Pids OBVIOUS
  <2>1. s \in Services /\ p \in PmtPids[s] BY DEF IsRewrite
  <2> QED BY <2>1, PmtPidIs
<1> HIDE DEF programs
<1>5. pat \in [version : Int, programs : SUBSET Pids] BY <1>4 DEF IsRewrite
<1>6. pat.programs = programs OBVIOUS
<1> HIDE DEF e, pat
<1>7. Handled(s, c, e, next)
  <2>1. CASE e = d BY <2>1
  <2>2. CASE e = [d EXCEPT !.generated_pat = pat]
    BY <1>2, <1>3, <1>5, <1>6, <2>2 DEF Handled, Channel, SameStatus, SameKind, CamAsked
  <2> QED BY <1>1, <2>1, <2>2
<1> QED BY <1>7 DEF e

LEMMA ForEachChannelStep ==
  ASSUME IInv, ForEachChannel
  PROVE  IInv'
<1> DEFINE pid == packet.pid
           Asks1(turn, s) == s \in turn /\ Sends(st.channels[s], pid) /\ st.config.cam
           Cam(turn, s) == IF Asks1(turn, s) THEN cam_new_packet(s, st.channels[s], pid)
                           ELSE st.channels[s]
           Scam(turn, s) == IF Sends(Cam(turn, s), pid) /\ st.config.scam
                            THEN scam_new_packet(s, Cam(turn, s), pid) ELSE Cam(turn, s)
           Rewrite(turn, s) ==
               IF Sends(Scam(turn, s), pid) /\ pid = 0
               THEN pat_rewrite_new_channel_packet(rewrite, s, Scam(turn, s)) ELSE Scam(turn, s)
           asked(turn) == {s \in turn : Asks1(turn, s) /\ cam_asks(s, st.channels[s], pid)}
<1>1. PICK turn \in SUBSET DOMAIN st.channels :
        /\ st' = [st EXCEPT !.channels = [s \in DOMAIN st.channels |-> Rewrite(turn, s)]]
        /\ cam' = [s \in Services |->
                     IF s \in asked(turn) THEN st.channels[s].pmt_packet ELSE cam[s]]
  BY DEF ForEachChannel
<1> DEFINE list == [s \in DOMAIN st.channels |-> Rewrite(turn, s)]
<1>2. /\ AirIs(air) /\ IsRewrite(rewrite) /\ OthersOk /\ Bounded
      /\ MainOk(st, air, cam, moved, early, ~ ahead)
      /\ IsMain(st) /\ IsList(st.channels) /\ ChannelsOk(st, cam, air.pat.progs, moved)
  BY DEF IInv, MainOk, IsMain
<1>3. ASSUME NEW s \in DOMAIN st.channels
      PROVE  Handled(s, st.channels[s], Rewrite(turn, s), cam'[s])
  <2>1. s \in Services /\ st.channels[s] \in Channel /\ CamAsked(st.channels[s], cam[s])
    BY <1>2 DEF IsList, ChannelsOk, ChannelOk
  <2>2. cam'[s] = IF Asks1(turn, s) /\ cam_asks(s, st.channels[s], pid)
                  THEN st.channels[s].pmt_packet ELSE cam[s]
    BY <1>1, <2>1
  <2> DEFINE c == st.channels[s]
             asks == Asks1(turn, s)
             next == cam'[s]
             sent == cam[s]
             d == Cam(turn, s)
             e == Scam(turn, s)
  <2>3. asks \in BOOLEAN OBVIOUS
  <2>4. d = IF asks THEN cam_new_packet(s, c, pid) ELSE c OBVIOUS
  <2>5. e = IF Sends(d, pid) /\ st.config.scam THEN scam_new_packet(s, d, pid) ELSE d OBVIOUS
  <2>6. Rewrite(turn, s) = IF Sends(e, pid) /\ pid = 0
                           THEN pat_rewrite_new_channel_packet(rewrite, s, e) ELSE e
    OBVIOUS
  <2> HIDE DEF asks, d, e, Rewrite, c, next, sent, pid
  <2>7. Handled(s, c, d, next)
    <3>1. c \in Channel /\ CamAsked(c, sent) BY <2>1 DEF c, sent
    <3>2. next = IF asks /\ cam_asks(s, c, pid) THEN c.pmt_packet ELSE sent
      BY <2>2 DEF next, asks, c, sent
    <3> QED BY <2>1, <2>3, <2>4, <3>1, <3>2, CamPacketIs
  <2>8. Handled(s, c, e, next)
    <3>1. (Sends(d, pid) /\ st.config.scam) \in BOOLEAN OBVIOUS
    <3> QED BY <2>5, <2>7, <3>1, ScamPacketIs
  <2>9. Handled(s, c, Rewrite(turn, s), next)
    <3>1. (Sends(e, pid) /\ pid = 0) \in BOOLEAN OBVIOUS
    <3> QED BY <1>2, <2>6, <2>8, <3>1, PatPacketIs
  <2> QED BY <2>9 DEF c, next
<1>4. cam' \in [Services -> Pmts]
  <2>1. ASSUME NEW s \in Services
        PROVE  (IF s \in asked(turn) THEN st.channels[s].pmt_packet ELSE cam[s]) \in Pmts
    <3>1. CASE s \in asked(turn)
      <4>1. s \in DOMAIN st.channels BY <3>1
      <4>2. st.channels[s] \in Channel BY <1>2, <4>1 DEF IsList
      <4> QED BY <3>1, <4>2 DEF Channel
    <3>2. CASE s \notin asked(turn) BY <1>2, <3>2 DEF OthersOk
    <3> QED BY <3>1, <3>2
  <2> QED BY <1>1, <2>1
<1>5. /\ UNCHANGED <<air, events, odd, ahead, rewrite, oscam, sending, early, moved>>
      /\ packet' = NoPacket
  BY DEF ForEachChannel
<1>6. MainOk(st', air, cam', moved, early, ~ ahead)
  <2>1. list = [s \in DOMAIN st.channels |-> list[s]] OBVIOUS
  <2>2. \A s \in DOMAIN st.channels : Handled(s, st.channels[s], list[s], cam'[s]) BY <1>3
  <2>3. st' = [st EXCEPT !.channels = list] BY <1>1
  <2> HIDE DEF list
  <2> QED BY <1>2, <2>1, <2>2, <2>3, HandledMain
<1>7. OthersOk'
  <2>1. packet'.pid = -1 BY <1>5 DEF NoPacket
  <2> QED BY <1>2, <1>4, <1>5, <2>1 DEF OthersOk
<1>8. MainOk(st', air', cam', moved', early', ~ ahead') BY <1>5, <1>6
<1>9. Bounded'
  <2>1. UNCHANGED <<air, events, odd>> BY <1>5
  <2> QED BY <1>2, <2>1 DEF Bounded
<1>10. AirIs(air') /\ IsRewrite(rewrite') BY <1>2, <1>5
<1> QED BY <1>7, <1>8, <1>9, <1>10 DEF IInv

\* The other threads change one channel.
LEMMA OneChannel ==
  ASSUME NEW x, NEW a, AirIs(a), NEW sent, NEW gone, NEW left, NEW known,
         MainOk(x, a, sent, gone, left, known),
         NEW s \in Services, NEW d, s \in DOMAIN x.channels => OnlyAsks(x.channels[s], d)
  PROVE  MainOk([x EXCEPT !.channels[s] = d], a, sent, gone, left, known)
<1> DEFINE list == [x.channels EXCEPT ![s] = d]
<1>1. IsList(x.channels) /\ ChannelsOk(x, sent, a.pat.progs, gone)
  BY DEF MainOk, IsMain
<1>2. ASSUME NEW t \in DOMAIN x.channels PROVE Handled(t, x.channels[t], list[t], sent[t])
  <2>1. x.channels[t] \in Channel /\ CamAsked(x.channels[t], sent[t])
    BY <1>1 DEF IsList, ChannelsOk, ChannelOk
  <2>2. CASE t = s BY <2>1, <2>2, AsksHandled
  <2>3. CASE t # s
    <3>1. list[t] = x.channels[t] BY <2>3
    <3> HIDE DEF list
    <3> QED BY <2>1, <3>1 DEF Handled, SameStatus, SameKind
  <2> QED BY <2>2, <2>3
<1>3. list = [t \in DOMAIN x.channels |-> list[t]] BY <1>1 DEF IsList
<1>4. [x EXCEPT !.channels[s] = d] = [x EXCEPT !.channels = list] OBVIOUS
<1> HIDE DEF list
<1>5. MainOk([x EXCEPT !.channels = list], a, sent, gone, left, known)
  BY <1>2, <1>3, HandledMain
<1> QED BY <1>4, <1>5

LEMMA CamReaskStep ==
  ASSUME IInv, CamReask
  PROVE  IInv'
<1>1. PICK s \in DOMAIN st.channels :
        /\ st.channels[s].need_cam_ask = "ASKED"
        /\ Update(s, [st.channels[s] EXCEPT !.need_cam_ask = "NEED_UPDATE"])
  BY DEF CamReask
<1>2. UNCHANGED <<air, events, odd, ahead, rewrite, packet, cam, oscam, sending, early, moved>>
  BY DEF CamReask
<1> DEFINE d == [st.channels[s] EXCEPT !.need_cam_ask = "NEED_UPDATE"]
<1>3. s \in Services /\ st.channels[s] \in Channel
  BY DEF IInv, MainOk, IsMain, IsList
<1>4. OnlyAsks(st.channels[s], d)
  BY <1>3 DEF OnlyAsks, Channel, SamePids, SameStatus, SameKind, Asks
<1>5. st' = [st EXCEPT !.channels[s] = d] BY <1>1 DEF Update
<1> HIDE DEF d
<1>6. MainOk(st', air, cam, moved, early, ~ ahead) BY <1>3, <1>4, <1>5, OneChannel DEF IInv
<1> QED BY <1>2, <1>6 DEF IInv, Bounded, OthersOk

LEMMA SendCapmtStep ==
  ASSUME IInv, SendCapmt
  PROVE  IInv'
<1>1. PICK s \in DOMAIN st.channels :
        sending' = {s} /\ oscam' = [oscam EXCEPT ![s] = st.channels[s].scam_packet]
  BY DEF SendCapmt
<1>2. UNCHANGED <<air, events, odd, ahead, st, rewrite, packet, cam, early, moved>>
  BY DEF SendCapmt
<1>3. s \in Services /\ st.channels[s].scam_packet \in Pmts
  BY DEF IInv, MainOk, IsMain, IsList, Channel
<1>4. OthersOk' BY <1>1, <1>2, <1>3 DEF IInv, OthersOk
<1> QED BY <1>2, <1>4 DEF IInv, Bounded

LEMMA NoteCapmtStep ==
  ASSUME IInv, NoteCapmt
  PROVE  IInv'
<1>1. PICK s \in sending : Update(s, [st.channels[s] EXCEPT !.need_scam_ask = "ASKED"])
  BY DEF NoteCapmt
<1>2. /\ UNCHANGED <<air, events, odd, ahead, rewrite, packet, cam, oscam, early, moved>>
      /\ sending' = {}
  BY DEF NoteCapmt
<1> DEFINE d == [st.channels[s] EXCEPT !.need_scam_ask = "ASKED"]
<1>3. s \in Services BY DEF IInv, OthersOk
<1>4. s \in DOMAIN st.channels => OnlyAsks(st.channels[s], d)
  <2> SUFFICES ASSUME s \in DOMAIN st.channels PROVE OnlyAsks(st.channels[s], d) OBVIOUS
  <2>1. st.channels[s] \in Channel BY DEF IInv, MainOk, IsMain, IsList
  <2> QED BY <2>1 DEF OnlyAsks, Channel, SamePids, SameStatus, SameKind, Asks
<1>5. st' = [st EXCEPT !.channels[s] = d] BY <1>1 DEF Update
<1> HIDE DEF d
<1>6. MainOk(st', air, cam, moved, early, ~ ahead) BY <1>3, <1>4, <1>5, OneChannel DEF IInv
<1> QED BY <1>2, <1>6 DEF IInv, Bounded, OthersOk

LEMMA CamdHangupStep ==
  ASSUME IInv, CamdHangup
  PROVE  IInv'
<1>1. PICK s \in DOMAIN st.channels :
        /\ Update(s, [st.channels[s] EXCEPT !.need_scam_ask = "NEED_ASK"])
        /\ oscam' = [oscam EXCEPT ![s] = NoSection]
  BY DEF CamdHangup
<1>2. UNCHANGED <<air, events, odd, ahead, rewrite, packet, cam, sending, early, moved>>
  BY DEF CamdHangup
<1> DEFINE d == [st.channels[s] EXCEPT !.need_scam_ask = "NEED_ASK"]
<1>3. s \in Services /\ st.channels[s] \in Channel
  BY DEF IInv, MainOk, IsMain, IsList
<1>4. OnlyAsks(st.channels[s], d)
  BY <1>3 DEF OnlyAsks, Channel, SamePids, SameStatus, SameKind, Asks
<1>5. st' = [st EXCEPT !.channels[s] = d] BY <1>1 DEF Update
<1> HIDE DEF d
<1>6. MainOk(st', air, cam, moved, early, ~ ahead) BY <1>3, <1>4, <1>5, OneChannel DEF IInv
<1>7. OthersOk' BY <1>1, <1>2, <1>3 DEF IInv, OthersOk, Pmts
<1> QED BY <1>2, <1>6, <1>7 DEF IInv, Bounded

-----------------------------------------------------------------------------
(* The transponder changes: what was read is not in force any more.        *)

LEMMA CountChange ==
  ASSUME IInv, NEW table, NEW new, Change(table, new), AirIs(new),
         \A s \in Services : new.pmt[s] <= air.pmt[s] + 1, new.cat <= air.cat + 1,
         MainOk(st, new, cam, moved', early', ~ ahead)
  PROVE  IInv'
<1>1. /\ events < MaxEvents[st.config.mode] /\ events' = events + 1 /\ air' = new
      /\ UNCHANGED <<odd, ahead, st, rewrite, packet, cam, oscam, sending>>
  BY DEF Change
<1>2. AirIs(air') /\ OthersOk' /\ IsRewrite(rewrite')
      /\ MainOk(st', air', cam', moved', early', ~ ahead')
  BY <1>1 DEF IInv, OthersOk
<1>3. Bounded'
  <2>1. events \in Nat /\ odd \in Nat BY DEF IInv, Bounded
  <2>2. \E m \in Modes : events' <= MaxEvents[m]
    <3>1. st.config.mode \in Modes /\ MaxEvents[st.config.mode] \in Nat BY ModeIs
    <3>2. events' <= MaxEvents[st.config.mode] BY <1>1, <2>1, <3>1
    <3> QED BY <3>1, <3>2
  <2>3. \A s \in Services : air'.pmt[s] <= events'
    <3> SUFFICES ASSUME NEW s \in Services PROVE new.pmt[s] <= events + 1 BY <1>1
    <3>1. air.pmt[s] \in Nat /\ air.pmt[s] <= events /\ new.pmt[s] \in Nat
          /\ new.pmt[s] <= air.pmt[s] + 1
      BY DEF IInv, AirIs, Air, Bounded
    <3> QED BY <2>1, <3>1
  <2>4. air'.cat <= FirstCat + events'
    <3>1. /\ air.cat \in Nat /\ air.cat <= FirstCat + events /\ new.cat \in Nat
          /\ FirstCat \in Nat
      BY PsiAssumption DEF IInv, AirIs, Air, Bounded
    <3> QED BY <1>1, <2>1, <3>1
  <2> QED BY <1>1, <2>1, <2>2, <2>3, <2>4 DEF Bounded
<1> QED BY <1>2, <1>3 DEF IInv

\* For the main thread only the PAT and the SDT of the transponder matter.
LEMMA SameAir ==
  ASSUME NEW x, NEW a, NEW b, b.pat = a.pat, b.sdt = a.sdt, NEW sent, NEW gone, NEW left,
         NEW known, MainOk(x, a, sent, gone, left, known)
  PROVE  MainOk(x, b, sent, gone, left, known)
BY DEF MainOk, TablesKnown, TablesRead, PatKnown, SdtKnown, StatusKnown, InForce, GoneKnown,
       GoneChannels, On

LEMMA ChangePmtStep ==
  ASSUME IInv, ChangePmt
  PROVE  IInv'
<1>1. PICK s \in OnAir : Change("pmt", [air EXCEPT !.pmt[s] = @ + 1]) BY DEF ChangePmt
<1> DEFINE new == [air EXCEPT !.pmt[s] = @ + 1]
<1>2. air \in Air /\ s \in Services BY DEF IInv, AirIs, OnAir
<1>3. new = [pat |-> air.pat, sdt |-> air.sdt, cat |-> air.cat,
             pmt |-> [air.pmt EXCEPT ![s] = air.pmt[s] + 1]]
  BY <1>2 DEF Air
<1>4. Change("pmt", new) BY <1>1
<1> HIDE DEF new
<1>5. new.pat = air.pat /\ new.sdt = air.sdt /\ new.cat = air.cat BY <1>3
<1>6. new.pmt = [air.pmt EXCEPT ![s] = air.pmt[s] + 1] BY <1>3
<1>7. new \in Air BY <1>2, <1>3 DEF Air
<1>8. AirIs(new) BY <1>5, <1>7 DEF IInv, AirIs
<1>9. \A t \in Services : new.pmt[t] <= air.pmt[t] + 1 BY <1>2, <1>6 DEF Air
<1>10. new.cat <= air.cat + 1 BY <1>2, <1>5 DEF Air
<1>11. MainOk(st, new, cam, moved', early', ~ ahead)
  <2>1. UNCHANGED <<early, moved>> BY DEF ChangePmt
  <2>2. MainOk(st, air, cam, moved, early, ~ ahead) BY DEF IInv
  <2> QED BY <1>5, <2>1, <2>2, SameAir
<1> QED BY <1>4, <1>8, <1>9, <1>10, <1>11, CountChange

LEMMA ChangeCatStep ==
  ASSUME IInv, ChangeCat
  PROVE  IInv'
<1> DEFINE new == [air EXCEPT !.cat = @ + 1]
<1>1. Change("cat", new) BY DEF ChangeCat
<1>2. air \in Air BY DEF IInv, AirIs
<1>3. new = [pat |-> air.pat, sdt |-> air.sdt, cat |-> air.cat + 1, pmt |-> air.pmt]
  BY <1>2 DEF Air
<1> HIDE DEF new
<1>5. new.pat = air.pat /\ new.sdt = air.sdt /\ new.cat = air.cat + 1 /\ new.pmt = air.pmt
  BY <1>3
<1>7. new \in Air BY <1>2, <1>3 DEF Air
<1>8. AirIs(new) BY <1>5, <1>7 DEF IInv, AirIs
<1>9. \A t \in Services : new.pmt[t] <= air.pmt[t] + 1 BY <1>2, <1>5 DEF Air
<1>10. new.cat <= air.cat + 1 BY <1>2, <1>5 DEF Air
<1>11. MainOk(st, new, cam, moved', early', ~ ahead)
  <2>1. UNCHANGED <<early, moved>> BY DEF ChangeCat
  <2>2. MainOk(st, air, cam, moved, early, ~ ahead) BY DEF IInv
  <2> QED BY <1>5, <2>1, <2>2, SameAir
<1> QED BY <1>1, <1>8, <1>9, <1>10, <1>11, CountChange

LEMMA ChangeSdtStep ==
  ASSUME IInv, ChangeSdt
  PROVE  IInv'
<1>1. PICK s \in Services : \E k \in Kinds[s] :
        Change("sdt", [air EXCEPT !.sdt.version = @ + 1, !.sdt.kinds[s] = k])
  BY DEF ChangeSdt
<1>2. PICK k \in Kinds[s] :
        Change("sdt", [air EXCEPT !.sdt.version = @ + 1, !.sdt.kinds[s] = k])
  BY <1>1
<1> DEFINE new == [air EXCEPT !.sdt.version = @ + 1, !.sdt.kinds[s] = k]
           sdt == [version |-> air.sdt.version + 1, kinds |-> [air.sdt.kinds EXCEPT ![s] = k]]
<1>3. air \in Air /\ k \in [type : Types, ca : BOOLEAN]
  BY PsiAssumption DEF IInv, AirIs
<1>4. new = [pat |-> air.pat, sdt |-> sdt, cat |-> air.cat, pmt |-> air.pmt]
  <2> DEFINE b == [air EXCEPT !.sdt.version = air.sdt.version + 1]
             next == [version |-> air.sdt.version + 1, kinds |-> air.sdt.kinds]
  <2>1. b = [pat |-> air.pat, sdt |-> next, cat |-> air.cat, pmt |-> air.pmt] BY <1>3 DEF Air
  <2>2. new = [b EXCEPT !.sdt.kinds[s] = k] OBVIOUS
  <2> HIDE DEF b, new
  <2> QED BY <2>1, <2>2
<1>5. Change("sdt", new) BY <1>2
<1>6. sdt \in [version : Nat, kinds : [Services -> [type : Types, ca : BOOLEAN]]]
  BY <1>3 DEF Air
<1>7. sdt.version = air.sdt.version + 1 OBVIOUS
<1> HIDE DEF new, sdt
<1>8. new.pat = air.pat /\ new.sdt = sdt /\ new.cat = air.cat /\ new.pmt = air.pmt BY <1>4
<1>9. new \in Air BY <1>3, <1>4, <1>6 DEF Air
<1>10. AirIs(new) BY <1>8, <1>9 DEF IInv, AirIs
<1>11. (\A t \in Services : new.pmt[t] <= air.pmt[t] + 1) /\ new.cat <= air.cat + 1
  BY <1>3, <1>8 DEF Air
<1>12. MainOk(st, new, cam, moved, early, ~ ahead)
  <2>1. MainOk(st, air, cam, moved, early, ~ ahead) BY DEF IInv
  <2>2. st.auto.sdt.version \in Int /\ air.sdt.version \in Nat
    BY <1>3, <2>1 DEF MainOk, IsMain, AutoState, Table, Air
  <2>3. On(new) = On(air) BY <1>8 DEF On
  <2>4. ChannelsOk(st, cam, new.pat.progs, moved) BY <1>8, <2>1 DEF MainOk
  <2>5. ASSUME ~ ahead PROVE TablesKnown(st, new)
    <3>1. TablesRead(st, air) BY <2>1, <2>5 DEF MainOk, TablesKnown
    <3>2. st.auto.sdt.version <= air.sdt.version BY <3>1 DEF TablesRead, SdtKnown
    <3>3. ~ InForce(st, new) /\ st.auto.sdt.version <= new.sdt.version
      BY <1>7, <1>8, <2>2, <3>2 DEF InForce
    <3>4. PatKnown(st, new) BY <1>8, <2>3, <3>1 DEF TablesRead, PatKnown
    <3> QED BY <3>1, <3>3, <3>4 DEF TablesKnown, TablesRead, SdtKnown, StatusKnown
  <2>6. ASSUME ~ ahead, ~ st.config.scam PROVE GoneKnown(st, new, early)
    BY <1>8, <2>1, <2>3, <2>6 DEF MainOk, GoneKnown, GoneChannels
  <2> QED BY <2>1, <2>4, <2>5, <2>6 DEF MainOk
<1>13. UNCHANGED <<early, moved>> BY DEF ChangeSdt
<1> QED BY <1>5, <1>10, <1>11, <1>12, <1>13, CountChange

\* A service of the list that leaves unnoticed before it is streamed is in `early'.
LEMMA ChangePatStep ==
  ASSUME IInv, ChangePat
  PROVE  IInv'
<1>1. PICK s \in Services : \E p \in (PmtPids[s] \cup {NoPid}) \ {air.pat.progs[s]} :
        /\ Change("pat", [air EXCEPT !.pat.version = @ + 1, !.pat.progs[s] = p])
        /\ early' = IF p = NoPid /\ ~ IsStreamed(s) THEN early \cup {s} ELSE early
        /\ moved' = IF s \in DOMAIN st.channels /\ p \notin {NoPid, st.channels[s].pmt_pid}
                    THEN moved \cup {s} ELSE moved
  BY DEF ChangePat
<1>2. PICK p \in PmtPids[s] \cup {NoPid} :
        /\ Change("pat", [air EXCEPT !.pat.version = @ + 1, !.pat.progs[s] = p])
        /\ early' = IF p = NoPid /\ ~ IsStreamed(s) THEN early \cup {s} ELSE early
        /\ moved' = IF s \in DOMAIN st.channels /\ p \notin {NoPid, st.channels[s].pmt_pid}
                    THEN moved \cup {s} ELSE moved
  BY <1>1
<1> DEFINE new == [air EXCEPT !.pat.version = @ + 1, !.pat.progs[s] = p]
           pat == [version |-> air.pat.version + 1, progs |-> [air.pat.progs EXCEPT ![s] = p]]
<1>3. air \in Air /\ p \in Pids \cup {NoPid}
  BY PmtPidIs DEF IInv, AirIs
<1>4. new = [pat |-> pat, sdt |-> air.sdt, cat |-> air.cat, pmt |-> air.pmt]
  <2> DEFINE b == [air EXCEPT !.pat.version = air.pat.version + 1]
             next == [version |-> air.pat.version + 1, progs |-> air.pat.progs]
  <2>1. b = [pat |-> next, sdt |-> air.sdt, cat |-> air.cat, pmt |-> air.pmt] BY <1>3 DEF Air
  <2>2. new = [b EXCEPT !.pat.progs[s] = p] OBVIOUS
  <2> HIDE DEF b, new
  <2> QED BY <2>1, <2>2
<1>5. Change("pat", new) BY <1>2
<1>6. pat \in [version : Nat, progs : [Services -> Pids \cup {NoPid}]] BY <1>3 DEF Air
<1>7. pat.version = air.pat.version + 1 /\ pat.progs = [air.pat.progs EXCEPT ![s] = p] OBVIOUS
<1> HIDE DEF new, pat
<1>8. new.pat = pat /\ new.sdt = air.sdt /\ new.cat = air.cat /\ new.pmt = air.pmt BY <1>4
<1>9. new \in Air BY <1>3, <1>4, <1>6 DEF Air
<1>10. \A t \in Services : new.pat.progs[t] = IF t = s THEN p ELSE air.pat.progs[t]
  BY <1>3, <1>7, <1>8 DEF Air
<1>11. AirIs(new) BY <1>9, <1>10 DEF IInv, AirIs
<1>12. (\A t \in Services : new.pmt[t] <= air.pmt[t] + 1) /\ new.cat <= air.cat + 1
  BY <1>3, <1>8 DEF Air
<1>13. MainOk(st, new, cam, moved', early', ~ ahead)
  <2>1. MainOk(st, air, cam, moved, early, ~ ahead) BY DEF IInv
  <2>2. st.auto.pat.version \in Int /\ air.pat.version \in Nat /\ IsList(st.channels)
    BY <1>3, <2>1 DEF MainOk, IsMain, AutoState, Table, Air
  <2>3. ChannelsOk(st, cam, new.pat.progs, moved')
    <3> SUFFICES ASSUME NEW t \in DOMAIN st.channels
                 PROVE  ChannelOk(t, st.channels[t], cam[t], new.pat.progs[t], t \notin moved')
      BY DEF ChannelsOk
    <3>1. ChannelOk(t, st.channels[t], cam[t], air.pat.progs[t], t \notin moved) /\ t \in Services
      BY <2>1, <2>2 DEF MainOk, ChannelsOk, IsList
    <3>2. t \notin moved' => t \notin moved BY <1>2
    <3>3. t \notin moved' /\ t = s => p \in {NoPid, st.channels[t].pmt_pid} BY <1>2
    <3> QED BY <1>10, <3>1, <3>2, <3>3 DEF ChannelOk, PmtPidKept
  <2>4. ASSUME ~ ahead PROVE TablesKnown(st, new) /\ st.auto.pat.version # new.pat.version
    <3>1. TablesRead(st, air) BY <2>1, <2>4 DEF MainOk, TablesKnown
    <3>2. st.auto.pat.version <= air.pat.version BY <3>1 DEF TablesRead, PatKnown
    <3>3. st.auto.pat.version < new.pat.version BY <1>7, <1>8, <2>2, <3>2
    <3>4. PatKnown(st, new) BY <1>7, <1>8, <2>2, <3>3 DEF PatKnown
    <3>5. ~ InForce(st, new) BY <1>7, <1>8, <2>2, <3>3 DEF InForce
    <3>6. st.auto.sdt.version <= new.sdt.version BY <1>8, <3>1 DEF TablesRead, SdtKnown
    <3>7. st.auto.pat.version # new.pat.version BY <1>7, <1>8, <2>2, <3>3
    <3> QED BY <3>1, <3>4, <3>5, <3>6, <3>7 DEF TablesKnown, TablesRead, SdtKnown, StatusKnown
  <2>5. ASSUME ~ ahead, ~ st.config.scam PROVE GoneKnown(st, new, early')
    <3>1. ~ st.auto.need_filter_chan_update /\ GoneChannels(st, air, early)
      BY <2>1, <2>5 DEF MainOk, GoneKnown
    <3>2. ASSUME NEW t \in DOMAIN st.channels \ (On(new) \cup early')
          PROVE  Gone(st, st.channels[t])
      <4>1. t \notin early /\ t \in Services BY <1>2, <2>2 DEF IsList
      <4>2. CASE t \notin On(air) BY <3>1, <4>1, <4>2 DEF GoneChannels
      <4>3. CASE t \in On(air)
        <5>1. new.pat.progs[t] = NoPid BY <4>1 DEF On
        <5>2. air.pat.progs[t] # NoPid BY <4>3 DEF On
        <5>3. t = s /\ p = NoPid BY <1>10, <4>1, <5>1, <5>2
        <5>4. IsStreamed(s) BY <1>2, <5>3
        <5>5. st.channels[t].ready >= READY /\ st.channels[t].ready \in Statuses
          BY <2>2, <5>3, <5>4 DEF IsStreamed, Streaming, IsList, Channel, Statuses
        <5>6. st.channels[t].ready \in {READY, READY_EXISTING} BY <5>5, StatusNumbers
        <5> QED BY <5>6 DEF Gone
      <4> QED BY <4>2, <4>3
    <3> QED BY <2>4, <2>5, <3>1, <3>2 DEF GoneKnown, GoneChannels
  <2> QED BY <2>1, <2>3, <2>4, <2>5 DEF MainOk
<1> QED BY <1>5, <1>11, <1>12, <1>13, CountChange

-----------------------------------------------------------------------------
(* All steps *)

LEMMA Stutters ==
  ASSUME IInv, UNCHANGED vars
  PROVE  IInv'
<1>1. UNCHANGED <<air, events, odd, ahead, st, rewrite, packet, cam, oscam, sending, early, moved>>
  BY DEF vars
<1> QED BY <1>1 DEF IInv, Bounded, OthersOk

LEMMA NextIInv ==
  ASSUME IInv, [Next]_vars
  PROVE  IInv'
<1>1. CASE ChangePat BY <1>1, ChangePatStep
<1>2. CASE ChangeSdt BY <1>2, ChangeSdtStep
<1>3. CASE ChangePmt BY <1>3, ChangePmtStep
<1>4. CASE ChangeCat BY <1>4, ChangeCatStep
<1>5. ASSUME NEW current \in BOOLEAN, NEW whole \in BOOLEAN,
             \/ \E n \in 0..LastSection : PatPacket(n, current, whole)
             \/ \E n \in 0..LastSection : SdtPacket(n, current, whole)
             \/ CatPacket(current, whole)
             \/ \E s \in Services : PmtPacket(s, current, whole)
      PROVE  IInv'
  <2>1. CASE \E n \in 0..LastSection : PatPacket(n, current, whole) BY <2>1, PatPacketStep
  <2>2. CASE \E n \in 0..LastSection : SdtPacket(n, current, whole) BY <2>2, SdtPacketStep
  <2>3. CASE CatPacket(current, whole) BY <2>3, CatPacketStep
  <2>4. CASE \E s \in Services : PmtPacket(s, current, whole) BY <2>4, PmtPacketStep
  <2> QED BY <1>5, <2>1, <2>2, <2>3, <2>4
<1>6. CASE OtherSdtPacket BY <1>6, OtherSdtStep
<1>7. CASE ForEachChannel BY <1>7, ForEachChannelStep
<1>8. CASE CamReask BY <1>8, CamReaskStep
<1>9. CASE SendCapmt BY <1>9, SendCapmtStep
<1>10. CASE NoteCapmt BY <1>10, NoteCapmtStep
<1>11. CASE CamdHangup BY <1>11, CamdHangupStep
<1>12. CASE UNCHANGED vars BY <1>12, Stutters
<1> QED
  BY <1>1, <1>2, <1>3, <1>4, <1>5, <1>6, <1>7, <1>8, <1>9, <1>10, <1>11, <1>12
  DEF Next, Transponder

LEMMA InitIInv ==
  ASSUME Init
  PROVE  IInv
<1>1. PICK mode \in Modes :
        st = [auto |-> [pat |-> NewTable, sdt |-> NewTable, cat |-> NewCat, emm |-> NoPid,
                        need_filter_chan_update |-> FALSE],
              channels |-> [s \in {} |-> NewChannel],
              asked_pid |-> [p \in Pids |-> "NOT_ASKED"],
              config |-> Config(mode)]
  BY DEF Init
<1>2. air = [pat |-> [version |-> 0, progs |-> FirstPmtPid],
             sdt |-> [version |-> 0, kinds |-> FirstKinds],
             cat |-> FirstCat, pmt |-> [s \in Services |-> 0]]
  BY DEF Init
<1>3. /\ st.auto.pat = NewTable /\ st.auto.sdt = NewTable /\ st.auto.cat = NewCat
      /\ st.auto.emm = NoPid /\ st.auto.need_filter_chan_update = FALSE
      /\ st.channels = [s \in {} |-> NewChannel] /\ DOMAIN st.channels = {}
      /\ st.asked_pid = [p \in Pids |-> "NOT_ASKED"] /\ st.config = Config(mode)
  BY <1>1
<1>4. AirIs(air)
  <2>1. FirstPmtPid \in [Services -> Pids \cup {NoPid}] BY PsiAssumption
  <2>2. air \in Air BY <1>2, <2>1, PsiAssumption DEF Air
  <2>3. air.pat.progs = FirstPmtPid BY <1>2
  <2> QED BY <2>2, <2>3, PsiAssumption DEF AirIs
<1>5. Bounded
  <2>1. air.cat = FirstCat /\ air.pmt = [s \in Services |-> 0] /\ FirstCat \in Nat
    BY <1>2, PsiAssumption
  <2>2. events = 0 /\ odd = 0 BY DEF Init
  <2>3. \E m \in Modes : 0 <= MaxEvents[m]
    <3>1. MaxEvents[mode] \in Nat BY PsiAssumption
    <3> QED BY <3>1
  <2> QED BY <2>1, <2>2, <2>3 DEF Bounded
<1>6. IsRewrite(rewrite)
  <2>1. rewrite = [version |-> -1, need |-> FALSE, ok |-> FALSE, progs |-> [s \in {} |-> NoPid]]
    BY DEF Init
  <2> QED BY <2>1 DEF IsRewrite
<1>7. OthersOk
  <2>1. packet.pid = -1 BY DEF Init, NoPacket
  <2> QED BY <2>1 DEF Init, OthersOk, Pmts
<1>8. NewTable \in Table /\ NewCat \in Table
  <2>1. NewCat = [version |-> 0, need_update |-> FALSE, seen |-> {}, all_seen |-> FALSE]
    <3>1. NewTable = [version |-> -1, need_update |-> FALSE, seen |-> {}, all_seen |-> FALSE]
      BY DEF NewTable
    <3>2. NewCat = [NewTable EXCEPT !.version = 0] BY DEF NewCat
    <3> QED BY <3>1, <3>2
  <2>2. {} \in SUBSET (0 .. LastSection) OBVIOUS
  <2>3. NewTable \in Table BY <2>2 DEF NewTable, Table
  <2>4. NewCat \in Table BY <2>1, <2>2 DEF Table
  <2> QED BY <2>3, <2>4
<1>9. IsMain(st)
  <2>1. st.auto \in AutoState BY <1>1, <1>8 DEF AutoState
  <2>2. IsList(st.channels) BY <1>3 DEF IsList
  <2>3. st.asked_pid \in Filters BY <1>3 DEF Filters
  <2>4. st.config \in Configs BY <1>3 DEF Configs
  <2> QED BY <1>1, <2>1, <2>2, <2>3, <2>4 DEF IsMain
<1>10. ChannelsOk(st, cam, air.pat.progs, moved) BY <1>3 DEF ChannelsOk
<1>11. EmmOk(st) BY <1>3, PmtPidIs DEF EmmOk, NoPid
<1>12. /\ st.auto.pat.version = -1 /\ st.auto.sdt.version = -1
       /\ st.auto.pat.all_seen = FALSE /\ st.auto.sdt.all_seen = FALSE
  BY <1>3 DEF NewTable
<1>13. air.pat.version = 0 /\ air.sdt.version = 0 BY <1>2
<1>14. SdtAfterPat(st) /\ FiltersSet(st) BY <1>12 DEF SdtAfterPat, FiltersSet
<1>15. TablesKnown(st, air)
  BY <1>12, <1>13 DEF TablesKnown, TablesRead, AllSections, PatKnown, SdtKnown, StatusKnown, InForce
<1>16. GoneKnown(st, air, early) BY <1>3 DEF GoneKnown, GoneChannels
<1>17. MainOk(st, air, cam, moved, early, ~ ahead)
  BY <1>9, <1>10, <1>11, <1>14, <1>15, <1>16 DEF MainOk
<1> QED BY <1>4, <1>5, <1>6, <1>7, <1>17 DEF IInv

-----------------------------------------------------------------------------
(* The theorems *)

(* The invariant of the main thread holds for every number of sections and *)
(* of changes of the transponder.                                          *)
THEOREM PsiInvariant == Spec => []IInv
<1>1. Init => IInv BY InitIInv
<1>2. IInv /\ [Next]_vars => IInv' BY NextIInv
<1> QED BY <1>1, <1>2, PTL DEF Spec

(* The tables, the status of each channel and its requests for             *)
(* descrambling keep their shape, and a channel that autoconf_update_chan   *)
(* made streamable is sent only after update_chan_net opened its sockets.  *)
THEOREM TypeCorrect == Spec => []TypeOK
<1>1. IInv => TypeOK
  <2> SUFFICES ASSUME IInv PROVE TypeOK OBVIOUS
  <2>1. IsMain(st) /\ IsList(st.channels) /\ ChannelsOk(st, cam, air.pat.progs, moved)
    BY DEF IInv, MainOk, IsMain
  <2>2. st.auto.pat \in Table /\ st.auto.sdt \in Table /\ st.auto.cat \in Table
    BY <2>1 DEF IsMain, AutoState
  <2>3. ASSUME NEW s \in DOMAIN st.channels
        PROVE  /\ st.channels[s].ready \in REMOVED .. READY_EXISTING
               /\ st.channels[s].need_cam_ask \in Asks /\ st.channels[s].need_scam_ask \in Asks
               /\ ToSet(st.channels[s].pids) \subseteq Pids
               /\ Streaming(st.channels[s]) => st.channels[s].sockets
    <3>1. st.channels[s] \in Channel BY <2>1 DEF IsList
    <3>2. st.channels[s].pids \in Seq(Pids) BY <3>1 DEF Channel
    <3>3. ToSet(st.channels[s].pids) \subseteq Pids BY <3>2 DEF ToSet
    <3>4. Streaming(st.channels[s]) => st.channels[s].sockets
      BY <2>1 DEF ChannelsOk, ChannelOk
    <3> QED BY <3>1, <3>3, <3>4 DEF Channel
  <2> QED BY <2>2, <2>3 DEF TypeOK
<1> QED BY <1>1, PsiInvariant, PTL

(* Whatever order chan_new_pmt, chan_update_CAM, cam_new_packet and the CAM *)
(* thread write need_cam_ask in, a channel that counts as asked has sent   *)
(* the CAM the PMT it has now.                                             *)
THEOREM DescramblerUpToDate == Spec => []CamHasLatest
<1>1. IInv => CamHasLatest
  BY DEF IInv, MainOk, ChannelsOk, ChannelOk, CamAsked, CamHasLatest
<1> QED BY <1>1, PsiInvariant, PTL

(* update_chan_filters has the card send every PID of the channels that    *)
(* are streamed, once the SDT that follows a PAT was read.                 *)
THEOREM PidsFiltered == Spec => []StreamedPidsFiltered
<1>1. IInv => StreamedPidsFiltered
  BY DEF IInv, MainOk, FiltersSet, Filtered, StreamedPidsFiltered
<1> QED BY <1>1, PsiInvariant, PTL

(* The PAT pat_channel_rewrite made for a channel announces no PMT PID that *)
(* autoconf_read_pmt left out of the PIDs of the channel since.            *)
THEOREM PatHonest == Spec => []AnnouncedPidsStreamed
<1>1. IInv => AnnouncedPidsStreamed
  <2> SUFFICES ASSUME IInv, NEW s \in DOMAIN st.channels \ moved
               PROVE  st.channels[s].generated_pat.programs \subseteq ToSet(st.channels[s].pids)
    BY DEF AnnouncedPidsStreamed
  <2>1. /\ st.channels[s].pids # <<>>
        /\ st.channels[s].generated_pat.programs \subseteq {st.channels[s].pids[1]}
    BY DEF IInv, MainOk, ChannelsOk, ChannelOk, PmtPidKept
  <2>2. st.channels[s].pids \in Seq(Pids)
    BY DEF IInv, MainOk, IsMain, IsList, Channel
  <2>3. st.channels[s].pids[1] \in ToSet(st.channels[s].pids) BY <2>1, <2>2 DEF ToSet
  <2> QED BY <2>1, <2>3
<1> QED BY <1>1, PsiInvariant, PTL

(* Once the tables were read again, autoconf_read_pat, autoconf_read_sdt    *)
(* and autoconf_update_chan_status stream every television service that    *)
(* may be.                                                                 *)
THEOREM ServedRight == Spec => []Served
<1>1. IInv => Served
  <2> SUFFICES ASSUME IInv, Settled, ~ ahead, NEW s \in Services, Streamable(s)
               PROVE  IsStreamed(s)
    BY DEF Served
  <2>1. TablesRead(st, air) /\ StatusKnown(st, air) BY DEF IInv, MainOk, TablesKnown
  <2>2. /\ InForce(st, air) /\ st.auto.pat.all_seen /\ st.auto.sdt.all_seen
        /\ st.auto.pat.version = air.pat.version
    BY DEF Settled, InForce
  <2>3. s \in On(air) BY DEF Streamable, OnAir, On
  <2>4. s \in DOMAIN st.channels BY <2>1, <2>2, <2>3, PatAllRead DEF TablesRead
  <2>5. ~ Scrambled(st, air.sdt.kinds[s]) /\ air.sdt.kinds[s].type = "tv"
    BY DEF Streamable, Allowed, Scrambled
  <2>6. st.channels[s].ready = READY BY <2>1, <2>2, <2>3, <2>5 DEF StatusKnown
  <2> QED BY <2>4, <2>6, StatusNumbers DEF IsStreamed, Streaming
<1> QED BY <1>1, PsiInvariant, PTL

(* And they stream nothing that left the PAT, or that became scrambled.    *)
THEOREM NoGhost == Spec => []NoGhosts
<1>1. IInv => NoGhosts
  <2> SUFFICES ASSUME IInv, Settled, ~ ahead, ~ st.config.scam,
                      NEW s \in Services, IsStreamed(s), s \notin early
               PROVE  s \in OnAir /\ Allowed(s)
    BY DEF NoGhosts
  <2>1. StatusKnown(st, air) /\ GoneChannels(st, air, early)
    BY DEF IInv, MainOk, TablesKnown, GoneKnown
  <2>2. /\ InForce(st, air) /\ st.auto.pat.all_seen /\ st.auto.sdt.all_seen
        /\ st.auto.pat.version = air.pat.version
    BY DEF Settled, InForce
  <2>3. s \in DOMAIN st.channels /\ st.channels[s].ready >= READY BY DEF IsStreamed, Streaming
  <2>4. st.channels[s].ready \notin {REMOVED, NO_STREAMING, READY_EXISTING}
    <3>1. st.channels[s].ready # READY_EXISTING BY <2>1, <2>2, <2>3 DEF GoneChannels
    <3>2. st.channels[s].ready # REMOVED /\ st.channels[s].ready # NO_STREAMING
      BY <2>3, StatusNumbers
    <3> QED BY <3>1, <3>2
  <2>5. s \in On(air)
    <3> SUFFICES ASSUME s \notin On(air) PROVE FALSE OBVIOUS
    <3>1. Gone(st, st.channels[s]) /\ st.channels[s].ready # READY
      BY <2>1, <2>2, <2>3 DEF GoneChannels
    <3> QED BY <2>4, <3>1 DEF Gone
  <2>6. Allowed(s)
    <3>1. ~ Scrambled(st, air.sdt.kinds[s]) BY <2>1, <2>2, <2>4, <2>5 DEF StatusKnown
    <3> QED BY <3>1 DEF Scrambled, Allowed
  <2> QED BY <2>5, <2>6 DEF OnAir, On
<1> QED BY <1>1, PsiInvariant, PTL
=============================================================================
