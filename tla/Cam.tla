-------------------------------- MODULE Cam ---------------------------------
(* The conditional access module: the CAM thread (cam.c) which polls it,    *)
(* resets it and has channels in trouble asked again, and the PMTs the main *)
(* loop sends it.  Its menus are CamMenu's.  Time is counted in seconds.    *)
EXTENDS Integers, FiniteSets

CONSTANTS
    CamChannels,            \* channels to descramble, all READY
    cam_delay_pmt_send,     \* seconds a module rests after its CA info
    cam_interval_pmt_send,  \* seconds between two PMTs
    cam_reask_interval,     \* seconds before a channel is asked again
    reset_interval,
    max_reset_number,
    MaxNow                  \* bound on the time

CamAssumption ==
    /\ cam_delay_pmt_send \in Nat /\ cam_interval_pmt_send \in Nat /\ cam_reask_interval \in Nat
    /\ reset_interval \in Nat /\ max_reset_number \in Nat /\ MaxNow \in Nat

VARIABLES
    camthread,              \* "off", "running", "stopped"
    cam_type,               \* "link", "hlci"
    seconds,                \* the time since the thread started
    polled,                 \* the thread did a round in this second
    ca_info_ok_time,        \* -1 until the CA info comes
    ca_resource_connected,
    timeout_no_cam_init,
    reset_counts,
    cam_interrupted,        \* "no", ERROR_CAM, ERROR_NO_CAM_INIT
    last_channel_check,
    cam_pmt_send_time,
    asked,                  \* per channel: need_cam_ask and cam_asking_time
    bad,                    \* per channel: scrambled or without traffic, -1 or since when
    resets                  \* HISTORY when the module was reset

camVars == <<camthread, cam_type, seconds, polled, ca_info_ok_time, ca_resource_connected,
             timeout_no_cam_init, reset_counts, cam_interrupted, last_channel_check,
             cam_pmt_send_time, asked, bad, resets>>

initVars == <<ca_info_ok_time, ca_resource_connected, timeout_no_cam_init, reset_counts,
              cam_interrupted, last_channel_check, resets>>

TypeOK ==
    /\ camthread \in {"off", "running", "stopped"} /\ cam_type \in {"link", "hlci"}
    /\ seconds \in 0..MaxNow /\ polled \in BOOLEAN
    /\ ca_info_ok_time \in -1..MaxNow /\ ca_resource_connected \in BOOLEAN
    /\ timeout_no_cam_init \in 0..MaxNow + reset_interval
    /\ reset_counts \in 0..max_reset_number
    /\ cam_interrupted \in {"no", "ERROR_CAM", "ERROR_NO_CAM_INIT"}
    /\ last_channel_check \in 0..MaxNow /\ cam_pmt_send_time \in 0..MaxNow
    /\ asked \in [CamChannels -> [need : {"NEED_ASK", "NEED_UPDATE", "ASKED"}, time : 0..MaxNow]]
    /\ bad \in [CamChannels -> -1..MaxNow]
    /\ resets \subseteq 0..MaxNow

Init ==
    /\ camthread = "off" /\ cam_type = "link" /\ seconds = 0 /\ polled = FALSE
    /\ ca_info_ok_time = -1 /\ ca_resource_connected = FALSE
    /\ timeout_no_cam_init = reset_interval /\ reset_counts = 0 /\ cam_interrupted = "no"
    /\ last_channel_check = 0 /\ cam_pmt_send_time = 0
    /\ asked = [c \in CamChannels |-> [need |-> "NEED_ASK", time |-> 0]]
    /\ bad = [c \in CamChannels |-> -1]
    /\ resets = {}

cam_start ==
    /\ camthread = "off"
    /\ camthread' = "running" /\ cam_type' \in {"link", "hlci"}
    /\ UNCHANGED <<seconds, polled, cam_pmt_send_time, asked, bad>>
    /\ UNCHANGED initVars

\* The program closes after set_interrupted, and cam_stop joins the thread.
cam_stop ==
    /\ camthread = "running" /\ cam_interrupted # "no"
    /\ camthread' = "stopped"
    /\ UNCHANGED <<cam_type, seconds, polled, cam_pmt_send_time, asked, bad>>
    /\ UNCHANGED initVars

\* The thread sleeps a tenth of a second between two rounds.
Tick ==
    /\ camthread = "running" /\ polled /\ seconds < MaxNow
    /\ seconds' = seconds + 1 /\ polled' = FALSE
    /\ UNCHANGED <<camthread, cam_type, cam_pmt_send_time, asked, bad>>
    /\ UNCHANGED initVars

-----------------------------------------------------------------------------
(* One round of the thread.                                                 *)

Connects ==
    /\ ca_info_ok_time # -1
    /\ seconds - ca_info_ok_time > cam_delay_pmt_send

\* Every third second at most, channels in trouble are marked for an update.
Checks(connected) ==
    /\ connected /\ cam_reask_interval > 0
    /\ seconds - last_channel_check > 2

Reasked(c) ==
    /\ bad[c] # -1 /\ asked[c].need = "ASKED"
    /\ seconds - asked[c].time > cam_reask_interval

\* The poll may bring the CA info of a module that is initialised, once or again.
Poll == ca_info_ok_time' \in {ca_info_ok_time, seconds}

\* Slip of TimeAfterReset: the module gets no time of its own after a reset.
NoTimeAfterReset == timeout_no_cam_init
TimeAfterReset == seconds + reset_interval

\* A module that stays silent is reset; one that cannot be, or was too often, ends the program.
ResetCheck(error) ==
    LET silent == ca_info_ok_time' = -1 /\ seconds > timeout_no_cam_init /\ reset_interval > 0
        resetting == silent /\ cam_type = "link" /\ reset_counts < max_reset_number
    IN  /\ timeout_no_cam_init' = IF resetting THEN TimeAfterReset
                                  ELSE timeout_no_cam_init
        /\ reset_counts' = IF resetting THEN reset_counts + 1 ELSE reset_counts
        /\ resets' = IF resetting THEN resets \cup {seconds} ELSE resets
        /\ cam_interrupted' = (IF silent /\ ~resetting THEN "ERROR_NO_CAM_INIT"
                               ELSE IF error THEN "ERROR_CAM" ELSE cam_interrupted)

Round ==
    /\ camthread = "running"
    /\ polled' = TRUE
    /\ ca_resource_connected' = (ca_resource_connected \/ Connects)
    /\ IF Checks(ca_resource_connected')
       THEN /\ last_channel_check' = seconds
            /\ asked' = [c \in CamChannels |->
                            IF Reasked(c) THEN [need |-> "NEED_UPDATE", time |-> seconds]
                            ELSE asked[c]]
       ELSE UNCHANGED <<last_channel_check, asked>>
    /\ Poll
    /\ \E changed \in BOOLEAN : ResetCheck(changed /\ ca_resource_connected')
    /\ UNCHANGED <<camthread, cam_type, seconds, cam_pmt_send_time, bad>>

-----------------------------------------------------------------------------
(* The main thread.                                                         *)

\* mumudvb_cam_new_pmt: the PMT is sent as a CA PMT.  When it cannot be read, or the module
\* refuses it, nothing is noted: the next PMT of the channel is tried.
SendCaPmt(c, sent) ==
    IF sent
    THEN /\ asked' = [asked EXCEPT ![c] = [need |-> "ASKED", time |-> seconds]]
         /\ cam_pmt_send_time' = seconds
    ELSE UNCHANGED <<asked, cam_pmt_send_time>>

\* A PMT of the channel comes: cam_new_packet.
NewPmt(c) ==
    /\ camthread = "running" /\ ca_resource_connected
    /\ seconds - cam_pmt_send_time >= cam_interval_pmt_send
    /\ asked[c].need # "ASKED"
    /\ \E sent \in BOOLEAN : SendCaPmt(c, sent)
    /\ UNCHANGED <<camthread, cam_type, seconds, polled, bad>>
    /\ UNCHANGED initVars

\* The monitor finds the channel scrambled or down, or well again.
Judge(c) ==
    /\ camthread = "running"
    /\ bad' = [bad EXCEPT ![c] = IF @ = -1 THEN seconds ELSE -1]
    /\ UNCHANGED <<camthread, cam_type, seconds, polled, cam_pmt_send_time, asked>>
    /\ UNCHANGED initVars

Next ==
    \/ cam_start \/ cam_stop \/ Tick \/ Round
    \/ \E c \in CamChannels : NewPmt(c) \/ Judge(c)

Spec == Init /\ [][Next]_camVars

-----------------------------------------------------------------------------
\* A module that can be reset is given up only after all its resets, each with its interval
\* to answer, and none of them once its CA info came.
GivenUp == cam_interrupted = "ERROR_NO_CAM_INIT" /\ cam_type = "link"
NotGivenUpEarly ==
    /\ GivenUp => Cardinality(resets) = max_reset_number
    /\ GivenUp => \A r \in resets : seconds > r + reset_interval
    /\ \A r, s \in resets : r < s => s > r + reset_interval
    /\ ca_info_ok_time # -1 => \A r \in resets : r <= ca_info_ok_time

\* Once the round of a second is done, no channel that has been in trouble for more than two
\* seconds waits for more than two beyond the interval after it was asked, if there is one.
AskedAgain ==
    \A c \in CamChannels :
        cam_reask_interval > 0 /\ polled /\ camthread = "running"
        /\ bad[c] # -1 /\ asked[c].need = "ASKED" =>
            \/ seconds <= bad[c] + 2
            \/ seconds <= asked[c].time + cam_reask_interval + 2
=============================================================================
