------------------------------ MODULE Channels ------------------------------
(***************************************************************************)
(* The list of channels and the PID filters of the card                    *)
(* (mumudvb_channels.c, the filters of dvb.c).  The main thread calls these *)
(* operations one after the other while it handles a packet, so they are   *)
(* operators on a channel, on the list, or on the filters; the module Psi  *)
(* composes them into steps.                                               *)
(*                                                                         *)
(* `channels' has for domain the services of the list, in place of the     *)
(* array and of number_of_channels: no operation depends on the order.     *)
(* All channels are autodetected (F_DETECTED).                             *)
(***************************************************************************)
EXTENDS Integers, Sequences, SequencesExt, TLC

CONSTANTS
    Services,           \* the service ids (program numbers) that can exist
    Pids                \* the PIDs from MAX_MANDATORY_PID_NUMBER on

\* chan_status
REMOVED        == -3
NO_STREAMING   == -2
NOT_READY      == -1
ALMOST_READY   == 0
READY          == 1
READY_EXISTING == 2

NoPid == 0
NoSection == [sid |-> 0]

\* need_cam_ask and need_scam_ask
Asks == {"NO_ASK", "NEED_ASK", "NEED_UPDATE", "ASKED"}

\* What a service is, as far as it is to be streamed or not
Types == {"none", "tv", "data"}

\* What the rewriting made of the PAT for the channel
NoPat == [version |-> -1, programs |-> {}]

\* The statistics it also clears are in the module Monitor.
mumu_init_chan(c) == [c EXCEPT !.generated_pat = NoPat]

NewChannel == mumu_init_chan(
    [ready |-> NOT_READY, pmt_pid |-> NoPid, pids |-> <<>>, type |-> "none", free_ca |-> FALSE,
     ca_sys |-> FALSE, pmt_version |-> -1, pmt_need_update |-> FALSE, pmt_packet |-> NoSection,
     autoconf_pmt |-> FALSE, need_cam_ask |-> "NO_ASK", need_scam_ask |-> "NO_ASK",
     scam_support |-> FALSE, scam_packet |-> NoSection, scam_started |-> FALSE,
     sockets |-> FALSE, generated_pat |-> NoPat])

Streaming(c) == c.ready >= READY

-----------------------------------------------------------------------------
(* A packet of a PID that is the PMT PID of channels.  `section' is the    *)
(* PMT that begins in the packet; `whole' tells whether all of it came.    *)

chan_pmt_need_update(s, c, section) ==
    /\ section.version # c.pmt_version
    /\ section.current
    /\ section.sid = s

\* Slip of StorePmt: the CAM is not told of the new PMT
StorePmtSilently(c, section) ==
    [c EXCEPT !.pmt_version = section.version, !.pmt_need_update = FALSE, !.autoconf_pmt = TRUE]

\* chan_pmt_ok said yes.
StorePmt(c, section) ==
    [c EXCEPT !.pmt_version = section.version, !.pmt_need_update = FALSE, !.autoconf_pmt = TRUE,
              !.need_cam_ask = IF @ = "ASKED" THEN "NEED_UPDATE" ELSE @]

\* The section got assembled in pmt_packet: is it one for this channel?
chan_pmt_ok(s, c, section) ==
    IF section.sid # s THEN c
    ELSE IF section.version = c.pmt_version THEN [c EXCEPT !.pmt_need_update = FALSE]
    ELSE StorePmt(c, section)

chan_new_pmt(channels, pid, section, whole) ==
    [s \in DOMAIN channels |->
        LET c == channels[s]
            need == c.pmt_need_update \/ chan_pmt_need_update(s, c, section)
            got == [c EXCEPT !.pmt_need_update = TRUE, !.pmt_packet = section]
        IN IF pid = 0 \/ c.pmt_pid # pid \/ ~ Streaming(c) \/ ~ need THEN c
           ELSE IF whole THEN chan_pmt_ok(s, got, section)
           ELSE [c EXCEPT !.pmt_need_update = TRUE]]

-----------------------------------------------------------------------------
(* Asking for descrambling *)

AskCam(c) == [c EXCEPT !.need_cam_ask = CASE @ = "NO_ASK" -> "NEED_ASK"
                                          [] @ = "ASKED" -> "NEED_UPDATE"
                                          [] OTHER -> @]

\* The first time, the channel gets support and filters and network are to be redone.
AskOscam(c) ==
    IF ~ c.scam_support
    THEN [c EXCEPT !.scam_support = TRUE, !.need_scam_ask = "NEED_ASK"]
    ELSE [c EXCEPT !.need_scam_ask = IF @ = "ASKED" THEN "NEED_ASK" ELSE @]

\* st.config: [scrambled |-> autoconf_scrambled, scam |-> scam_support]
chan_update_CAM(st) ==
    LET Scrambled(c) == c.ready = READY /\ c.free_ca
        Cam(c) == IF Scrambled(c) /\ st.config.scrambled THEN AskCam(c) ELSE c
        Oscam(c) == IF Scrambled(c) /\ st.config.scam THEN AskOscam(c) ELSE c
        first == st.config.scam /\ \E s \in DOMAIN st.channels :
                    Scrambled(st.channels[s]) /\ ~ st.channels[s].scam_support
    IN [st EXCEPT !.channels = [s \in DOMAIN @ |-> Oscam(Cam(@[s]))],
                  !.auto.need_filter_chan_update = @ \/ first]

-----------------------------------------------------------------------------
(* Network and filters *)

\* Slip of update_chan_net: READY before the network is up
ReadyWithoutNet(st) ==
    [st EXCEPT !.channels = [s \in DOMAIN @ |->
        IF @[s].ready # ALMOST_READY THEN @[s] ELSE [@[s] EXCEPT !.ready = READY]]]

\* Sockets that are open, and a descrambling ring that was started, stay as they are.
OpenSockets(c) == [c EXCEPT !.sockets = TRUE, !.scam_started = @ \/ c.scam_support]

\* What the sockets are bound to does not matter here; num_clients is in Clients.
update_chan_net(st) ==
    [st EXCEPT !.channels = [s \in DOMAIN @ |->
        IF @[s].ready # ALMOST_READY THEN @[s]
        ELSE [OpenSockets(@[s]) EXCEPT !.ready = READY]]]

\* Slip of Wanted: only the first PID of a channel
WantedFirst(channels) ==
    {channels[s].pids[1] : s \in {t \in DOMAIN channels : channels[t].ready >= ALMOST_READY}}

Wanted(channels) ==
    UNION {ToSet(channels[s].pids) : s \in {t \in DOMAIN channels : channels[t].ready >= ALMOST_READY}}

\* create_card_fd opens what is missing, set_filters has the card send the PID.
set_filters(asked_pid) == [p \in Pids |-> IF asked_pid[p] = "ASKED" THEN "FILTERED" ELSE asked_pid[p]]

\* As in the code, a filter is closed only when it is asked and not yet set.
update_chan_filters(st) ==
    LET wanted == Wanted(st.channels)
        Asked(p) == CASE st.asked_pid[p] = "ASKED" /\ p \notin wanted -> "NOT_ASKED"
                      [] p \in wanted /\ st.asked_pid[p] = "NOT_ASKED" -> "ASKED"
                      [] OTHER -> st.asked_pid[p]
    IN [st EXCEPT !.asked_pid = set_filters([p \in Pids |-> Asked(p)])]

=============================================================================
