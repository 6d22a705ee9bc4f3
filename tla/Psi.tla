-------------------------------- MODULE Psi --------------------------------
(***************************************************************************)
(* A transponder whose tables change, the main thread that follows them    *)
(* (mumudvb.c, with autoconf*.c, mumudvb_channels.c and rewrite_pat.c), and *)
(* those that ask for the descrambling of its channels: the CAM (cam.c),   *)
(* or oscam through the monitoring thread (mumudvb_mon.c, scam_capmt.c).   *)
(*                                                                         *)
(* The main thread handles a packet in two steps, since only the second    *)
(* one, the loop on the channels, holds chan_p->lock: first chan_new_pmt,   *)
(* autoconf_new_packet and the rewriting of the whole PAT, then for every  *)
(* channel the CAM, oscam, and the PAT of the channel.  A packet carries   *)
(* the beginning of a section, and the whole of it or not; a section may   *)
(* be sent ahead of its change with current_next_indicator 0.              *)
(***************************************************************************)
EXTENDS Autoconf, FiniteSets

CONSTANTS
    PmtPids,        \* service -> the PMT PIDs it can have
    FirstPmtPid,    \* service -> the one it has at first
    Kinds,          \* service -> the [type, ca] it can have
    FirstKinds,     \* service -> the one it has at first
    PmtOf(_, _),    \* the PMT [streams, pcr, ecm] of a service in a version
    EmmOf(_),       \* the EMM PID in a version of the CAT
    FirstCat,       \* the version of the CAT at first
    Modes,          \* subset of {"fta", "cam", "scam"}: what descrambles
    LastSection,    \* of the PAT and of the SDT; service s is in section s % (LastSection + 1)
    MaxEvents,      \* bound, by mode: the changes of the transponder, with the sections cut
                    \* short, sent ahead, or of another transponder
    MaxOdd,         \* bound, by mode: those sections alone
    Changing        \* bound, by mode: the tables that change

Streams == [pid : Pids, known : BOOLEAN]
PmtData == [streams : Seq(Streams), pcr : Pids, ecm : Pids \cup {NoPid}]
PidsOf(pmt) == {pmt.streams[i].pid : i \in DOMAIN pmt.streams} \cup {pmt.pcr, pmt.ecm}

(* 0 is the number of the NIT; the PIDs below MAX_MANDATORY_PID_NUMBER are *)
(* those of the tables; a PID carries the PMT of one service, or a stream. *)
ASSUME PsiAssumption ==
    /\ \A s \in Services : s \in Nat /\ s > 0
    /\ \A p \in Pids : p \in Nat /\ p > 31
    /\ LastSection \in Nat /\ FirstCat \in Nat
    /\ PmtPids \in [Services -> SUBSET Pids]
    /\ FirstPmtPid \in [Services -> Pids]
    /\ \A s \in Services : FirstPmtPid[s] \in PmtPids[s]
    /\ \A s, t \in Services : s # t => PmtPids[s] \cap PmtPids[t] = {}
    /\ FirstKinds \in [Services -> [type : Types, ca : BOOLEAN]]
    /\ \A s \in Services : \A k \in Kinds[s] : k \in [type : Types, ca : BOOLEAN]
    /\ Modes \subseteq {"fta", "cam", "scam"}
    /\ \A m \in Modes : MaxEvents[m] \in Nat
    /\ \A m \in Modes, s \in Services : \A v \in 0 .. MaxEvents[m] + 1 :
          PmtOf(s, v) \in PmtData /\ PidsOf(PmtOf(s, v)) \cap PmtPids[s] = {}
    /\ \A m \in Modes : \A v \in 0 .. FirstCat + MaxEvents[m] + 1 :
          EmmOf(v) \in Pids \cup {NoPid} /\ \A s \in Services : EmmOf(v) \notin PmtPids[s]

VARIABLES
    air,        \* the transponder: [pat, sdt, cat, pmt], each with its version
    events,     \* how many changes and sections of those kinds there were
    odd,        \* how many of those sections
    ahead,      \* whether one was sent ahead (history)
    st,         \* the main thread: auto_p, chan_p and the configuration
    rewrite,    \* rewrite_vars, for the PAT
    packet,     \* the packet in the second step, or NoPacket
    cam,        \* service -> the PMT the CAM got last
    oscam,      \* service -> the PMT oscam got last
    sending,    \* the services whose CAPMT the monitoring thread has sent and not noted yet
    early,      \* services that left the transponder before they were streamed (history)
    moved       \* services of the list whose PMT went to another PID (history)

vars == <<air, events, odd, ahead, st, rewrite, packet, cam, oscam, sending, early, moved>>

NoPacket == [pid |-> -1]
Config(mode) == [mode |-> mode, scrambled |-> mode # "fta", cam |-> mode = "cam", scam |-> mode = "scam"]

Init ==
    /\ air = [pat |-> [version |-> 0, progs |-> FirstPmtPid],
              sdt |-> [version |-> 0, kinds |-> FirstKinds],
              cat |-> FirstCat,
              pmt |-> [s \in Services |-> 0]]
    /\ events = 0 /\ odd = 0 /\ ahead = FALSE
    /\ \E mode \in Modes :
        st = [auto |-> [pat |-> NewTable, sdt |-> NewTable, cat |-> NewCat, emm |-> NoPid,
                        need_filter_chan_update |-> FALSE],
              channels |-> [s \in {} |-> NewChannel],
              asked_pid |-> [p \in Pids |-> "NOT_ASKED"],
              config |-> Config(mode)]
    /\ rewrite = [version |-> -1, need |-> FALSE, ok |-> FALSE, progs |-> [s \in {} |-> NoPid]]
    /\ packet = NoPacket
    /\ cam = [s \in Services |-> NoSection]
    /\ oscam = [s \in Services |-> NoSection]
    /\ sending = {} /\ early = {} /\ moved = {}

-----------------------------------------------------------------------------
(* The transponder *)

OnAir == {s \in Services : air.pat.progs[s] # NoPid}

IsStreamed(s) == s \in DOMAIN st.channels /\ Streaming(st.channels[s])

Change(table, new) ==
    /\ table \in Changing[st.config.mode]
    /\ events < MaxEvents[st.config.mode]
    /\ events' = events + 1
    /\ air' = new
    /\ UNCHANGED <<odd, ahead, st, rewrite, packet, cam, oscam, sending>>

\* A service moves to another PMT PID, disappears or comes back.
ChangePat == \E s \in Services : \E p \in (PmtPids[s] \cup {NoPid}) \ {air.pat.progs[s]} :
    /\ Change("pat", [air EXCEPT !.pat.version = @ + 1, !.pat.progs[s] = p])
    /\ early' = IF p = NoPid /\ ~ IsStreamed(s) THEN early \cup {s} ELSE early
    /\ moved' = IF s \in DOMAIN st.channels /\ p \notin {NoPid, st.channels[s].pmt_pid}
                THEN moved \cup {s} ELSE moved

ChangeSdt == \E s \in Services : \E k \in Kinds[s] \ {air.sdt.kinds[s]} :
    Change("sdt", [air EXCEPT !.sdt.version = @ + 1, !.sdt.kinds[s] = k]) /\ UNCHANGED <<early, moved>>

ChangePmt == \E s \in OnAir : Change("pmt", [air EXCEPT !.pmt[s] = @ + 1]) /\ UNCHANGED <<early, moved>>

ChangeCat == Change("cat", [air EXCEPT !.cat = @ + 1]) /\ UNCHANGED <<early, moved>>

\* The section of a table: the one in force, or the next one sent ahead
Version(table, current) == IF current THEN table.version ELSE table.version + 1
InSection(n) == {s \in Services : s % (LastSection + 1) = n}

PatSection(n, current) ==
    [n |-> n, last |-> LastSection, version |-> Version(air.pat, current), current |-> current,
     progs |-> [s \in OnAir \cap InSection(n) |-> air.pat.progs[s]]]

SdtSection(n, current) ==
    [n |-> n, last |-> LastSection, version |-> Version(air.sdt, current), current |-> current,
     other |-> FALSE, kinds |-> [s \in OnAir \cap InSection(n) |-> air.sdt.kinds[s]]]

OtherSdt == [n |-> 0, last |-> 0, version |-> 0, current |-> TRUE, other |-> TRUE,
             kinds |-> [s \in {} |-> air.sdt.kinds[s]]]

CatSection(current) ==
    LET version == IF current THEN air.cat ELSE air.cat + 1
    IN [n |-> 0, last |-> 0, version |-> version, current |-> current, emm |-> EmmOf(version)]

PmtSection(s, current) ==
    LET version == IF current THEN air.pmt[s] ELSE air.pmt[s] + 1
        pmt == PmtOf(s, version)
    IN [sid |-> s, version |-> version, current |-> current,
        streams |-> pmt.streams, pcr |-> pmt.pcr, ecm |-> pmt.ecm]

-----------------------------------------------------------------------------
(* The rewritten PAT: one section, in one packet *)

pat_rewrite_new_global_packet(r, section, whole) ==
    LET need == r.need \/ (section.current /\ section.version # r.version)
    IN IF ~ need THEN r
       ELSE IF ~ whole THEN [r EXCEPT !.need = TRUE]
       ELSE IF ~ section.current THEN [r EXCEPT !.need = TRUE, !.progs = section.progs]
       ELSE [version |-> section.version, need |-> FALSE, ok |-> TRUE, progs |-> section.progs]

\* The programs that stay: those of the channel whose PID the channel has
pat_channel_rewrite(r, s, c) ==
    [version |-> r.version,
     programs |-> {r.progs[t] : t \in {u \in DOMAIN r.progs : u = s /\ r.progs[u] \in ToSet(c.pids)}}]

pat_rewrite_new_channel_packet(r, s, c) ==
    IF r.ok /\ ~ r.need /\ Streaming(c) /\ c.generated_pat.version # r.version
    THEN [c EXCEPT !.generated_pat = pat_channel_rewrite(r, s, c)]
    ELSE c

-----------------------------------------------------------------------------
(* The main thread *)

\* First step.  `stale' tells what autoconf_read_pmt finds in memory it never wrote.
NewPacket(pid, section, whole) ==
    /\ packet = NoPacket
    /\ \E stale \in BOOLEAN :
        st' = autoconf_new_packet([st EXCEPT !.channels = chan_new_pmt(@, pid, section, whole)],
                                  pid, section, whole, stale)
    /\ rewrite' = IF pid = 0 THEN pat_rewrite_new_global_packet(rewrite, section, whole) ELSE rewrite
    /\ packet' = IF pid = 0 \/ pid \in Pids THEN [pid |-> pid] ELSE NoPacket
    /\ UNCHANGED <<air, cam, oscam, sending, early, moved>>

\* Most sections are whole and in force.
Kind(current, whole, other) ==
    /\ odd' = odd + (IF current /\ whole /\ ~ other THEN 0 ELSE 1)
    /\ odd' <= MaxOdd[st.config.mode]
    /\ events' = events + (odd' - odd)
    /\ events' <= MaxEvents[st.config.mode]
    /\ ahead' = (ahead \/ ~ current)

PatPacket(n, current, whole) ==
    Kind(current, whole, FALSE) /\ NewPacket(0, PatSection(n, current), whole)
CatPacket(current, whole) ==
    Kind(current, whole, FALSE) /\ NewPacket(1, CatSection(current), whole)
SdtPacket(n, current, whole) ==
    Kind(current, whole, FALSE) /\ NewPacket(17, SdtSection(n, current), whole)
OtherSdtPacket == Kind(TRUE, TRUE, TRUE) /\ NewPacket(17, OtherSdt, TRUE)

\* The card only gives the PIDs that are filtered.
PmtPacket(s, current, whole) ==
    /\ s \in OnAir
    /\ st.asked_pid[air.pat.progs[s]] # "NOT_ASKED"
    /\ Kind(current, whole, FALSE)
    /\ NewPacket(air.pat.progs[s], PmtSection(s, current), whole)

\* The channels the packet is sent for
Sends(c, pid) == Streaming(c) /\ (pid = 0 \/ pid \in ToSet(c.pids))

\* cam_new_packet has a PMT for the CAM
cam_asks(s, c, pid) ==
    /\ c.need_cam_ask \in {"NEED_ASK", "NEED_UPDATE"}
    /\ c.pmt_pid = pid
    /\ c.pmt_packet # NoSection /\ ~ c.pmt_need_update
    /\ c.pmt_packet.sid = s

\* cam_new_packet has not: the PMT is to be read again
cam_new_packet(s, c, pid) ==
    IF c.need_cam_ask \notin {"NEED_ASK", "NEED_UPDATE"} \/ c.pmt_pid # pid THEN c
    ELSE IF c.pmt_packet = NoSection THEN [c EXCEPT !.pmt_need_update = TRUE]
    ELSE IF cam_asks(s, c, pid) THEN [c EXCEPT !.need_cam_ask = "ASKED"]
    ELSE c

scam_new_packet(s, c, pid) ==
    IF c.need_scam_ask = "NEED_ASK" /\ c.pmt_pid = pid /\ c.pmt_packet.sid = s
    THEN [c EXCEPT !.scam_packet = c.pmt_packet]
    ELSE c

\* Second step.  The CAM is asked at most once in cam_interval_pmt_send: `turn' are
\* the channels for which that time, and the CAM, allow it.
ForEachChannel ==
    /\ packet # NoPacket
    /\ sending = {}
    /\ \E turn \in SUBSET DOMAIN st.channels :
        LET pid == packet.pid
            Asks1(s) == s \in turn /\ Sends(st.channels[s], pid) /\ st.config.cam
            Cam(s) == IF Asks1(s) THEN cam_new_packet(s, st.channels[s], pid) ELSE st.channels[s]
            Scam(s) == IF Sends(Cam(s), pid) /\ st.config.scam
                       THEN scam_new_packet(s, Cam(s), pid) ELSE Cam(s)
            Rewrite(s) == IF Sends(Scam(s), pid) /\ pid = 0
                          THEN pat_rewrite_new_channel_packet(rewrite, s, Scam(s)) ELSE Scam(s)
            asked == {s \in turn : Asks1(s) /\ cam_asks(s, st.channels[s], pid)}
        IN /\ Cardinality(asked) <= 1
           /\ st' = [st EXCEPT !.channels = [s \in DOMAIN @ |-> Rewrite(s)]]
           /\ cam' = [s \in Services |-> IF s \in asked THEN st.channels[s].pmt_packet ELSE cam[s]]
    /\ packet' = NoPacket
    /\ UNCHANGED <<air, events, odd, ahead, rewrite, oscam, sending, early, moved>>

-----------------------------------------------------------------------------
(* The other threads *)

Update(s, c) == st' = [st EXCEPT !.channels[s] = c]

\* The CAM thread: a channel stays scrambled long after the CAM was asked.
CamReask == \E s \in DOMAIN st.channels :
    /\ st.config.cam
    /\ Streaming(st.channels[s])
    /\ st.channels[s].need_cam_ask = "ASKED"
    /\ Update(s, [st.channels[s] EXCEPT !.need_cam_ask = "NEED_UPDATE"])
    /\ UNCHANGED <<air, events, odd, ahead, rewrite, packet, cam, oscam, sending, early, moved>>

\* The monitoring thread holds chan_p->lock.  When the CAPMT cannot be sent nothing changes.
SendCapmt == \E s \in DOMAIN st.channels :
    LET c == st.channels[s] IN
    /\ sending = {}
    /\ c.scam_support /\ Streaming(c)
    /\ c.need_scam_ask = "NEED_ASK"
    /\ c.scam_packet # NoSection
    /\ sending' = {s}
    /\ oscam' = [oscam EXCEPT ![s] = c.scam_packet]
    /\ UNCHANGED <<air, events, odd, ahead, st, rewrite, packet, cam, early, moved>>

NoteCapmt == \E s \in sending :
    /\ Update(s, [st.channels[s] EXCEPT !.need_scam_ask = "ASKED"])
    /\ sending' = {}
    /\ UNCHANGED <<air, events, odd, ahead, rewrite, packet, cam, oscam, early, moved>>

\* The getcw thread, which takes chan_p->lock: oscam hangs up on a channel; the next
\* CAPMT connects again.
CamdHangup == \E s \in DOMAIN st.channels :
    /\ sending = {}
    /\ oscam[s] # NoSection
    /\ Update(s, [st.channels[s] EXCEPT !.need_scam_ask = "NEED_ASK"])
    /\ oscam' = [oscam EXCEPT ![s] = NoSection]
    /\ UNCHANGED <<air, events, odd, ahead, rewrite, packet, cam, sending, early, moved>>

Transponder == ChangePat \/ ChangeSdt \/ ChangePmt \/ ChangeCat
Next ==
    \/ Transponder
    \/ \E current, whole \in BOOLEAN :
        \/ \E n \in 0..LastSection : PatPacket(n, current, whole)
        \/ \E n \in 0..LastSection : SdtPacket(n, current, whole)
        \/ CatPacket(current, whole)
        \/ \E s \in Services : PmtPacket(s, current, whole)
    \/ OtherSdtPacket
    \/ ForEachChannel
    \/ CamReask \/ SendCapmt \/ NoteCapmt \/ CamdHangup

Spec == Init /\ [][Next]_vars

-----------------------------------------------------------------------------
(* Properties *)

Table == [version : Int, need_update : BOOLEAN, seen : SUBSET (0..LastSection), all_seen : BOOLEAN]

(* The state keeps its shape, and a channel is streamed only once its       *)
(* network is up: update_chan_net is what makes it READY.                  *)
TypeOK ==
    /\ st.auto.pat \in Table /\ st.auto.sdt \in Table /\ st.auto.cat \in Table
    /\ \A s \in DOMAIN st.channels : LET c == st.channels[s] IN
        /\ c.ready \in REMOVED..READY_EXISTING
        /\ c.need_cam_ask \in Asks /\ c.need_scam_ask \in Asks
        /\ ToSet(c.pids) \subseteq Pids
        /\ Streaming(c) => c.sockets

\* What the main thread knows of the services is what the transponder sends.
Settled ==
    /\ packet = NoPacket
    /\ st.auto.pat.version = air.pat.version /\ st.auto.pat.all_seen
    /\ st.auto.sdt.version = air.sdt.version /\ st.auto.sdt.all_seen

Allowed(s) == air.sdt.kinds[s].ca => st.config.scrambled
Streamable(s) == s \in OnAir /\ air.sdt.kinds[s].type = "tv" /\ Allowed(s)

(* Once the tables were read again after a change, every television service *)
(* that the transponder carries and the configuration allows is streamed,   *)
(* in whatever order the sections of the PAT and of the SDT came, also when *)
(* it left and is back.  Not so once a section was sent ahead:             *)
(* autoconf_read_pat marks it as seen and skips the real one.              *)
Served == Settled /\ ~ ahead => \A s \in Services : Streamable(s) => IsStreamed(s)

(* And nothing else is streamed: a service that left the PAT is REMOVED,    *)
(* one that became scrambled is dropped without a CAM.  Two exceptions of   *)
(* the code are left out: a service that left before it was streamed is not *)
(* among those autoconf_read_pat marks, so the next SDT streams it (early); *)
(* with oscam, need_filter_chan_update makes READY again a channel that is  *)
(* marked READY_EXISTING, between two sections of the PAT.                  *)
NoGhosts == Settled /\ ~ ahead /\ ~ st.config.scam =>
    \A s \in Services : IsStreamed(s) => s \in early \/ (s \in OnAir /\ Allowed(s))

(* The card filters every PID of a channel that is streamed, except between *)
(* a new PAT and the SDT that follows it: update_chan_filters runs after    *)
(* the SDT and after each PMT.                                             *)
StreamedPidsFiltered ==
    st.auto.sdt.version # -1 /\ st.auto.sdt.all_seen =>
        \A s \in DOMAIN st.channels : Streaming(st.channels[s]) =>
            \A p \in ToSet(st.channels[s].pids) : st.asked_pid[p] # "NOT_ASKED"

(* The rewritten PAT that clients get announces a PMT PID that they get     *)
(* too, though it is made once per version, and the PIDs of the channel are *)
(* replaced at each PMT.  Not so for a service whose PMT moved:             *)
(* autoconf_read_pmt keeps the first PID only.                             *)
AnnouncedPidsStreamed ==
    packet = NoPacket => \A s \in DOMAIN st.channels \ moved : LET c == st.channels[s] IN
        Streaming(c) /\ c.generated_pat.version = rewrite.version
            => c.generated_pat.programs \subseteq ToSet(c.pids)

\* A version of the PMT of a service; one sent ahead is received again when it is in force.
SamePmt(pmt, other) == pmt.sid # NoSection.sid /\ pmt.sid = other.sid /\ pmt.version = other.version

(* While a channel counts as asked, the CAM has the PMT the channel has     *)
(* now: each PMT stored makes it to be asked again, with chan_new_pmt,      *)
(* chan_update_CAM, the CAM thread and cam_new_packet all writing           *)
(* need_cam_ask.                                                           *)
CamHasLatest == \A s \in DOMAIN st.channels :
    st.channels[s].need_cam_ask = "ASKED" => SamePmt(cam[s], st.channels[s].pmt_packet)

(* A change of the tables does not interrupt a service it leaves alone: the *)
(* channel stays up while the sections of a new PAT and a new SDT are read. *)
KeepsStreaming ==
    [][\A s \in Services :
        IsStreamed(s) /\ Streamable(s) /\ Streamable(s)' /\ ~ ahead' => IsStreamed(s)']_vars

(* "need to send the new PMT to Oscam" (mumudvb_channels.c, chan_update_CAM): *)
(* once the PMT of a channel was read and the packet handled, a channel that *)
(* counts as asked had that PMT sent.                                      *)
OscamHasLatest == packet = NoPacket =>
    \A s \in DOMAIN st.channels : LET c == st.channels[s] IN
        c.need_scam_ask = "ASKED" /\ ~ c.autoconf_pmt
            => oscam[s] = c.pmt_packet

=============================================================================
