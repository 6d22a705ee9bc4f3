------------------------------ MODULE Autoconf ------------------------------
(***************************************************************************)
(* The automatic configuration in mode full (autoconf.c, autoconf_pat.c,   *)
(* autoconf_sdt.c, autoconf_cat.c, autoconf_pmt.c): from the tables of the *)
(* transponder to the list of channels, their status and their PIDs.       *)
(*                                                                         *)
(* As in Channels these are operators on the state of the main thread,     *)
(*   st = [auto, channels, asked_pid, config].                             *)
(* A table (PAT, SDT, CAT) keeps the version, the sections seen, whether   *)
(* all were, and need_update: the packets are assembled and read only then.*)
(* A section is a record with its number n and the number of the last one, *)
(* its version, whether it is current (current_next_indicator), and        *)
(*   progs (PAT)  service -> PMT PID    kinds (SDT)  service -> [type, ca] *)
(*   emm (CAT)  PID or NoPid            sid, ecm, streams, pcr (PMT).      *)
(***************************************************************************)
EXTENDS Channels

NewTable == [version |-> -1, need_update |-> FALSE, seen |-> {}, all_seen |-> FALSE]

\* init_aconf_v gives cat_version no value: a CAT of version 0 is not read.
NewCat == [NewTable EXCEPT !.version = 0]

\* A section begins; its checksum is not known yet.
NeedUpdate(table, section) ==
    IF section.version # table.version
    THEN [table EXCEPT !.need_update = @ \/ section.current]
    ELSE [table EXCEPT !.need_update = @ /\ ~ table.all_seen]

IsNew(table, section) == section.version # table.version
AlreadySeen(table, section) == ~ IsNew(table, section) /\ section.n \in table.seen

\* The section is marked, whether it is current or not.
Mark(table, section) ==
    IF IsNew(table, section)
    THEN [table EXCEPT !.version = section.version, !.seen = {section.n}, !.all_seen = FALSE]
    ELSE [table EXCEPT !.seen = @ \cup {section.n}]

\* Slip of AllSeen: the last section is taken for all of them
LastSeen(table, section) == section.last \in table.seen

AllSeen(table, section) == 0..section.last \subseteq table.seen
Done(table) == [table EXCEPT !.all_seen = TRUE, !.need_update = FALSE]

-----------------------------------------------------------------------------
(* PAT: which services there are *)

autoconf_pat_need_update(st, section) == [st EXCEPT !.auto.pat = NeedUpdate(@, section)]

\* Channels of the old PAT; those of the new one become READY again.
MarkExisting(channels) ==
    [s \in DOMAIN channels |->
        IF channels[s].ready = READY THEN [channels[s] EXCEPT !.ready = READY_EXISTING]
        ELSE channels[s]]

\* Slip of autoconf_pat_update_chan: a channel that is still there is not marked so
ForgetStillThere(channels, s, pid) ==
    LET c == IF s \in DOMAIN channels THEN channels[s] ELSE NewChannel
        back == IF c.ready = REMOVED THEN mumu_init_chan([c EXCEPT !.ready = NOT_READY]) ELSE c
    IN [back EXCEPT !.pmt_pid = pid, !.pmt_version = -1,
                    !.pids = IF pid \in ToSet(@) THEN @ ELSE Append(@, pid)]

\* The channel of service s once the PAT gave it this PMT PID
autoconf_pat_update_chan(channels, s, pid) ==
    LET c == IF s \in DOMAIN channels THEN channels[s] ELSE NewChannel
        back == CASE c.ready = READY_EXISTING -> [c EXCEPT !.ready = READY]
                  [] c.ready = REMOVED -> mumu_init_chan([c EXCEPT !.ready = NOT_READY])
                  [] OTHER -> c
    IN [back EXCEPT !.pmt_pid = pid, !.pmt_version = -1,
                    !.pids = IF pid \in ToSet(@) THEN @ ELSE Append(@, pid)]

\* Slip of PatComplete: the channels that disappeared stay
KeepExisting(channels) == [s \in DOMAIN channels |-> [channels[s] EXCEPT !.pmt_version = -1]]

\* All sections were seen.
PatComplete(channels) ==
    [s \in DOMAIN channels |->
        IF channels[s].ready = READY_EXISTING THEN [channels[s] EXCEPT !.ready = REMOVED]
        ELSE [channels[s] EXCEPT !.pmt_version = -1]]

autoconf_read_pat(st, section) ==
    LET pat == Mark(st.auto.pat, section)
        new == IsNew(st.auto.pat, section)
        marked == IF new THEN MarkExisting(st.channels) ELSE st.channels
        listed == [s \in DOMAIN marked \cup DOMAIN section.progs |->
                    IF s \in DOMAIN section.progs
                    THEN autoconf_pat_update_chan(marked, s, section.progs[s])
                    ELSE marked[s]]
        complete == section.current /\ AllSeen(pat, section)
    IN IF AlreadySeen(st.auto.pat, section) THEN st
       ELSE [st EXCEPT !.auto.pat = IF complete THEN Done(pat) ELSE pat,
                       !.auto.sdt.version = IF new \/ complete THEN -1 ELSE @,
                       !.channels = IF ~ section.current THEN marked
                                    ELSE IF complete THEN PatComplete(listed) ELSE listed]

-----------------------------------------------------------------------------
(* SDT: what the services are.  A section of another transport stream      *)
(* (table id 0x46) stops the update of an SDT that was all seen.           *)

autoconf_sdt_need_update(st, section) ==
    LET sdt == st.auto.sdt
    IN [st EXCEPT !.auto.sdt = IF section.other THEN [sdt EXCEPT !.need_update = @ /\ ~ sdt.all_seen]
                               ELSE NeedUpdate(sdt, section)]

\* The service descriptor has the type of the service.
parse_sdt_descriptor(c, kind) == [c EXCEPT !.type = kind.type]

autoconf_read_sdt(st, section) ==
    LET sdt == Mark(st.auto.sdt, section)
    IN IF section.other \/ AlreadySeen(st.auto.sdt, section) THEN st
       ELSE [st EXCEPT !.auto.sdt = IF AllSeen(sdt, section) THEN Done(sdt) ELSE sdt,
                       !.auto.need_filter_chan_update = @ \/ AllSeen(sdt, section),
                       !.channels = [s \in DOMAIN @ |->
                            IF s \notin DOMAIN section.kinds THEN @[s]
                            ELSE LET kind == section.kinds[s]
                                 IN [parse_sdt_descriptor(@[s], kind) EXCEPT !.free_ca = kind.ca]]]

-----------------------------------------------------------------------------
(* CAT: the EMM PID of the CA system *)

autoconf_cat_need_update(st, section) == [st EXCEPT !.auto.cat = NeedUpdate(@, section)]

CatComplete(channels) ==
    [s \in DOMAIN channels |->
        IF channels[s].ca_sys THEN [channels[s] EXCEPT !.pmt_version = -1] ELSE channels[s]]

autoconf_read_cat(st, section) ==
    LET cat == Mark(st.auto.cat, section)
        complete == section.current /\ AllSeen(cat, section)
    IN IF AlreadySeen(st.auto.cat, section) THEN st
       ELSE [st EXCEPT !.auto.cat = IF complete THEN Done(cat) ELSE cat,
                       !.auto.sdt.version = IF IsNew(st.auto.cat, section) THEN -1 ELSE @,
                       !.auto.emm = IF section.current THEN section.emm ELSE @,
                       !.channels = IF complete THEN CatComplete(@) ELSE @]

-----------------------------------------------------------------------------
(* The status: is the channel to be streamed? *)

\* No list of service ids, wanted or ignored, is configured.
Status(config, c) ==
    IF c.ready = REMOVED THEN REMOVED
    ELSE IF (c.free_ca /\ ~ config.scrambled) \/ c.pmt_pid = NoPid THEN NO_STREAMING
    ELSE IF c.type = "tv" THEN ALMOST_READY ELSE c.ready

autoconf_update_chan_status(st) ==
    [st EXCEPT !.channels = [s \in DOMAIN @ |->
        [@[s] EXCEPT !.ready = Status(st.config, st.channels[s])]]]

-----------------------------------------------------------------------------
(* PMT: the PIDs of a channel *)

\* The ECM PID of the PMT, and the EMM PID of the CAT for that system, if there are
CaPids(auto, section) ==
    LET ecm == IF section.ecm = NoPid THEN <<>> ELSE <<section.ecm>>
        emm == IF section.ecm = NoPid \/ auto.emm = NoPid THEN <<>> ELSE <<auto.emm>>
    IN ecm \o emm

\* Audio, video, subtitles... and private sections with the descriptor of an application are
\* kept (known); the other types of stream are left out.
KeptOf(stream) == IF stream.known THEN <<stream.pid>> ELSE <<>>

KeptUpTo(streams) ==
    LET kept[i \in 0 .. Len(streams)] ==
            IF i = 0 THEN <<>> ELSE kept[i - 1] \o KeptOf(streams[i])
    IN  kept

StreamPids(section) == KeptUpTo(section.streams)[Len(section.streams)]

autoconf_get_pmt_pids(auto, section) == CaPids(auto, section) \o StreamPids(section)

\* Slip of autoconf_read_pmt: forgets that the PMT PID comes first
ReadOverPmt(auto, c, stale) ==
    LET temp == autoconf_get_pmt_pids(auto, c.pmt_packet)
    IN [c EXCEPT !.pids = temp \o IF c.pmt_packet.pcr \in ToSet(temp) THEN <<>> ELSE <<c.pmt_packet.pcr>>,
                 !.ca_sys = c.pmt_packet.ecm # NoPid, !.autoconf_pmt = FALSE]

\* The PCR is searched in as many entries as the channel had PIDs: when these are
\* more than were found, the entries read last were never written (stale).
autoconf_read_pmt(auto, c, stale) ==
    LET temp == autoconf_get_pmt_pids(auto, c.pmt_packet)
        pcr == c.pmt_packet.pcr
        found == \/ \E i \in DOMAIN temp : i <= Len(c.pids) /\ temp[i] = pcr
                 \/ stale /\ Len(c.pids) > Len(temp)
    IN [c EXCEPT !.pids = <<c.pids[1]>> \o temp \o IF found THEN <<>> ELSE <<pcr>>,
                 !.ca_sys = c.pmt_packet.ecm # NoPid, !.autoconf_pmt = FALSE]

-----------------------------------------------------------------------------
(* A packet of PID `pid': `section' begins in it, and is `whole' or not. *)

ReadTable(st, pid, section, whole) ==
    LET Read(asked, need, Reader(_, _)) == IF whole /\ need THEN Reader(asked, section) ELSE asked
        pat == autoconf_pat_need_update(st, section)
        cat == autoconf_cat_need_update(st, section)
        sdt == autoconf_sdt_need_update(st, section)
    IN CASE pid = 0 -> Read(pat, pat.auto.pat.need_update, autoconf_read_pat)
         [] pid = 1 -> Read(cat, cat.auto.cat.need_update, autoconf_read_cat)
         [] pid = 17 /\ st.auto.pat.all_seen -> Read(sdt, sdt.auto.sdt.need_update, autoconf_read_sdt)
         [] OTHER -> st

UpdateChannels(st) ==
    IF st.auto.need_filter_chan_update
    THEN [update_chan_net(update_chan_filters(autoconf_update_chan_status(st)))
            EXCEPT !.auto.need_filter_chan_update = FALSE]
    ELSE st

\* The channels whose PMT came
PmtToRead(st, pid) ==
    {s \in DOMAIN st.channels : LET c == st.channels[s] IN
        /\ pid # 0
        /\ c.pmt_pid = pid
        /\ Streaming(c)
        /\ c.autoconf_pmt
        /\ c.pmt_packet.sid = s}

ReadPmts(st, pid, stale) ==
    LET read == PmtToRead(st, pid)
    IN IF ~ st.auto.pat.all_seen \/ read = {} THEN st
       ELSE chan_update_CAM(update_chan_filters(
                [st EXCEPT !.channels = [s \in DOMAIN @ |->
                    IF s \in read THEN autoconf_read_pmt(st.auto, @[s], stale) ELSE @[s]]]))

autoconf_new_packet(st, pid, section, whole, stale) ==
    ReadPmts(UpdateChannels(ReadTable(st, pid, section, whole)), pid, stale)

=============================================================================
