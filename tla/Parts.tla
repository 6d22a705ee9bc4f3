------------------------------- MODULE Parts -------------------------------
(* Thirteen components, each alone: a behaviour is one of one of them, and the *)
(* variables of the others keep their first values.  They do not interact   *)
(* here; they share a run, and theorems.                                    *)
EXTENDS RewriteState

Sp == INSTANCE Sap
N == INSTANCE NitPsip

ASSUME SapTimed == Sp!SapAssumption
ASSUME NitNumbered == N!NitAssumption

Parts == {"keys", "cam", "menu", "monitor", "sap", "nit", "clients", "hls", "sdt", "eit", "pmt",
          "lifecycle", "datagrams"}

Init ==
    /\ part \in Parts
    /\ part # "nit" => reader = "nit"
    /\ part # "lifecycle" => config = CHOOSE c \in Configs : TRUE
    /\ part # "datagrams" =>
           net_options = [multicast |-> TRUE, rtp_header |-> TRUE, dont_send_scrambled |-> TRUE]
    /\ K!Init /\ C!Init /\ Menu!Init /\ Mon!Init
    /\ Sp!Init /\ N!Init /\ Cl!Init /\ H!Init
    /\ Sdt!Init /\ Eit!Init /\ Pmt!Init /\ L!Init /\ D!Init

\* A step of component p, and of no other.
Only(p) ==
    /\ part = p /\ UNCHANGED part
    /\ IF p = "keys" THEN TRUE ELSE UNCHANGED keyVars
    /\ IF p = "cam" THEN TRUE ELSE UNCHANGED camVars
    /\ IF p = "menu" THEN TRUE ELSE UNCHANGED menuVars
    /\ IF p = "monitor" THEN TRUE ELSE UNCHANGED monVars
    /\ IF p = "sap" THEN TRUE ELSE UNCHANGED sapVars
    /\ IF p = "nit" THEN TRUE ELSE UNCHANGED nitVars
    /\ IF p = "clients" THEN TRUE ELSE UNCHANGED clVars
    /\ IF p = "hls" THEN TRUE ELSE UNCHANGED hlsVars
    /\ IF p = "sdt" THEN TRUE ELSE UNCHANGED sdtVars
    /\ IF p = "eit" THEN TRUE ELSE UNCHANGED eitVars
    /\ IF p = "pmt" THEN TRUE ELSE UNCHANGED pmtVars
    /\ IF p = "lifecycle" THEN TRUE ELSE UNCHANGED lcVars
    /\ IF p = "datagrams" THEN TRUE ELSE UNCHANGED dgVars

Next ==
    \/ Only("keys") /\ K!Next
    \/ Only("cam") /\ C!Next
    \/ Only("menu") /\ Menu!Next
    \/ Only("monitor") /\ Mon!Next
    \/ Only("sap") /\ Sp!Next
    \/ Only("nit") /\ N!Next
    \/ Only("clients") /\ Cl!Next
    \/ Only("hls") /\ H!Next
    \/ Only("sdt") /\ Sdt!Next
    \/ Only("eit") /\ Eit!Next
    \/ Only("pmt") /\ Pmt!Next
    \/ Only("lifecycle") /\ L!Next
    \/ Only("datagrams") /\ D!Next

Spec == Init /\ [][Next]_<<part, keyVars, camVars, menuVars, monVars, sapVars, nitVars, clVars, hlsVars,
         sdtVars, eitVars, pmtVars, lcVars, dgVars>>

-----------------------------------------------------------------------------

\* A descrambled channel is served: a packet is decrypted with the key of its period and with
\* no other (decsathread_func against the dialogue with oscam); a CAM is given up only after
\* all its resets and is asked again for a channel in trouble (camthread_func); and the answer
\* typed in its menu fits the answer it expects.
DescramblingServed ==
    /\ part = "keys" => K!TypeOK /\ K!KeysRight
    /\ part = "cam" => C!TypeOK /\ C!NotGivenUpEarly /\ C!AskedAgain
    /\ part = "menu" => Menu!TypeOK /\ Menu!EnquiryFits

\* The monitor is honest: it neither stops the program while a channel is received nor lets it
\* run for ever without, whatever the traffic it samples (monitor_func).
MonitorHonest == part = "monitor" => Mon!TypeOK /\ Mon!NeverForNothing /\ Mon!NeverForever

\* What is announced is the channel as it is: by SAP, each message with a version of its own
\* (sap_update, sap_poll), and with the logical number the NIT or the PSIP gives it.
AnnouncedRight ==
    /\ part = "sap" => Sp!TypeOK /\ Sp!AnnouncedAsItIs /\ Sp!OneVersionOneMessage
    /\ part = "nit" => N!TypeOK /\ N!NumbersRight

\* The three views of the HTTP clients agree, and a client the poll reported is treated
\* (unicast_handle_fd_event), whoever leaves during the walk.
ClientsAgree == part = "clients" => Cl!TypeOK /\ Cl!ClientsAgree /\ Cl!NoneForgotten

\* The HLS files agree: a playlist names files that exist, chunks are bounded, and nothing is
\* left when a service or the program ends (hls_worker_main, hls_playlist_master).
FilesAgree == part = "hls" => H!TypeOK /\ H!FilesAgree /\ H!ChunkBounded /\ H!NothingLeft

\* A channel sends its own SDT, EIT and PMT, of the version on air, once the broadcast is
\* stable (rewrite_sdt.c, rewrite_eit.c, rewrite_pmt.c), and its packets reach the network
\* once each and in order, in datagrams of a bounded length (buffer_func, send_func).
RewrittenRight ==
    /\ part = "sdt" => Sdt!TypeOK /\ Sdt!OwnSdt
    /\ part = "eit" => Eit!TypeOK /\ Eit!OwnEit
    /\ part = "pmt" => Pmt!TypeOK /\ Pmt!OwnPmt
    /\ part = "datagrams" =>
           D!TypeOK /\ D!NeverTooLong /\ D!NothingLost /\ D!Numbered

\* The program ends cleanly from whatever step of its start, and nothing is freed under a
\* thread that uses it (main, mumudvb_close).
CleanEnd == part = "lifecycle" => L!TypeOK /\ L!CleanEnd
=============================================================================
