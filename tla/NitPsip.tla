------------------------------- MODULE NitPsip -------------------------------
(* The tables autoconfiguration reads once: the NIT, which numbers the      *)
(* channels (autoconf_nit.c), and the PSIP of ATSC, which describes them    *)
(* (autoconf_atsc.c); and the names made from them (autoconf_update_chan_name). *)
(* The two readers do the same but where it is said.  What a section says   *)
(* of a channel is the version it has.                                      *)
EXTENDS Integers, FiniteSets

CONSTANTS
    NitChannels,      \* 1..n, in the order the PAT gives them
    NitVersions,      \* 0..n
    NitLast,          \* last_section_number
    NitSectionOf(_)   \* the section that is about a channel, or -1

NitAssumption ==
    /\ NitVersions \subseteq Nat /\ 0 \in NitVersions /\ NitLast \in Nat
    /\ \A c \in NitChannels : NitSectionOf(c) \in -1..NitLast

VARIABLES
    reader,           \* "nit" or "psip"
    nit_air,          \* EXTERNAL the version broadcast
    nit_assembling,   \* the section started last, or NoNit
    nit_version, nit_seen, nit_all_sections_seen, nit_need_update,
    listed,           \* the channels the PAT gave
    value,            \* what is known of a channel: a version, or Unknown
    named,            \* what the name of a channel was made of
    sap_asked,        \* sap_need_update set for it
    unread,           \* HISTORY sections counted as seen though they did not apply yet
    missed,           \* HISTORY channels listed after their section was read, or after all were
    untimely          \* HISTORY a section that did not apply yet was read

nitVars == <<reader, nit_air, nit_assembling, nit_version, nit_seen, nit_all_sections_seen,
             nit_need_update, listed, value, named, sap_asked, unread, missed, untimely>>

Unknown == -1
NoNit == [version |-> -1, number |-> 0, applicable |-> FALSE, actual |-> FALSE]
NitSections == [version : NitVersions, number : 0..NitLast, applicable : BOOLEAN, actual : BOOLEAN]

TypeOK ==
    /\ reader \in {"nit", "psip"} /\ nit_air \in NitVersions
    /\ nit_assembling \in NitSections \cup {NoNit}
    /\ nit_version \in NitVersions \cup {-1} /\ nit_seen \subseteq 0..NitLast
    /\ {nit_all_sections_seen, nit_need_update, untimely} \subseteq BOOLEAN
    /\ listed \subseteq NitChannels /\ missed \subseteq NitChannels
    /\ {value, named} \subseteq [NitChannels -> NitVersions \cup {Unknown}]
    /\ sap_asked \subseteq NitChannels /\ unread \subseteq 0..NitLast

Init ==
    /\ reader \in {"nit", "psip"} /\ nit_air = 0 /\ nit_assembling = NoNit
    /\ nit_version = -1 /\ nit_seen = {} /\ nit_all_sections_seen = FALSE /\ nit_need_update = FALSE
    /\ listed = {} /\ value = [c \in NitChannels |-> Unknown]
    /\ named = [c \in NitChannels |-> Unknown] /\ sap_asked = {}
    /\ unread = {} /\ missed = {} /\ untimely = FALSE

-----------------------------------------------------------------------------

\* The second looks at any table of the PID.
NitNeedUpdate(s) == s.version # nit_version /\ ~nit_all_sections_seen /\ s.applicable /\ s.actual
PsipNeedUpdate(s) == s.version # nit_version /\ ~nit_all_sections_seen /\ s.applicable

NeedUpdate(s) == s # NoNit /\ (IF reader = "nit" THEN NitNeedUpdate(s) ELSE PsipNeedUpdate(s))

\* autoconf_update_chan_name: a name with the number in it is not announced before the NIT is read.
UpdateNames(channels, values, complete) ==
    /\ named' = [c \in NitChannels |-> IF c \in channels THEN values[c] ELSE named[c]]
    /\ sap_asked' = IF complete \/ reader = "psip" THEN sap_asked \cup channels ELSE sap_asked \ channels

\* Slip of Seen: the sections of the version before still count.
SeenOfAnyVersion(s) == nit_seen \cup {s.number}
Seen(s) == IF s.version = nit_version THEN nit_seen \cup {s.number} ELSE {s.number}

Known(s) == s.version = nit_version /\ s.number \in nit_seen

\* autoconf_parse_vct_channel, and parse_lcn_descriptor likewise: the channels of the PAT that
\* the section is about have what it says.
About(s) == {c \in NitChannels : NitSectionOf(c) = s.number}
Described(s) == [c \in NitChannels |-> IF c \in About(s) \cap listed THEN s.version ELSE value[c]]

\* A section is counted, parsed, and may be the last one.  The names are made again then, and
\* when the reading ends early.
Reads(s, parsed, ends) ==
    LET complete == parsed /\ Seen(s) = 0..NitLast
    IN  /\ IF s.actual /\ ~Known(s)
           THEN /\ nit_version' = s.version /\ nit_seen' = Seen(s)
                /\ unread' = (IF s.version = nit_version THEN unread ELSE {})
                             \cup (IF parsed THEN {} ELSE {s.number})
                /\ untimely' = (untimely \/ ~s.applicable)
           ELSE UNCHANGED <<nit_version, nit_seen, unread, untimely>>
        /\ IF parsed
           THEN value' = Described(s) /\ missed' = (missed \ About(s)) \cup (About(s) \ listed)
           ELSE UNCHANGED <<value, missed>>
        /\ nit_all_sections_seen' = complete /\ nit_need_update' = ~complete
        /\ IF complete \/ ends
           THEN UpdateNames(listed, value', complete)
           ELSE UNCHANGED <<named, sap_asked>>

\* Another table ends the reading of the NIT, and so does a section that does not apply yet,
\* which is counted all the same.  The PSIP is parsed whether it applies or not.
ReadNit(s) ==
    LET new == s.actual /\ ~Known(s)
    IN  Reads(s, new /\ s.applicable, ~s.actual \/ (new /\ ~s.applicable))
ReadPsip(s) == Reads(s, s.actual /\ ~Known(s), FALSE)

\* A packet that starts section s, or none, with which get_ts_packet may give the section
\* started before.
Packet(s, given) ==
    /\ listed # {}
    /\ LET needs == nit_need_update \/ NeedUpdate(s)
       IN  IF ~needs
           THEN UNCHANGED nitVars
           ELSE /\ nit_assembling' = IF s # NoNit THEN s ELSE IF given THEN NoNit ELSE nit_assembling
                /\ IF given /\ nit_assembling # NoNit
                   THEN IF reader = "nit" THEN ReadNit(nit_assembling) ELSE ReadPsip(nit_assembling)
                   ELSE /\ nit_need_update' = TRUE
                        /\ UNCHANGED <<nit_version, nit_seen, nit_all_sections_seen, value, named,
                                       sap_asked, unread, missed, untimely>>
                /\ UNCHANGED <<reader, nit_air, listed>>

OnAir ==
    {s \in NitSections : s.actual /\ (IF s.applicable THEN s.version = nit_air ELSE s.version = nit_air + 1)}
        \cup {[version |-> nit_air, number |-> 0, applicable |-> TRUE, actual |-> FALSE]}

NewVersion ==
    /\ nit_air + 1 \in NitVersions /\ nit_air' = nit_air + 1
    /\ UNCHANGED <<reader, nit_assembling, nit_version, nit_seen, nit_all_sections_seen,
                   nit_need_update, listed, value, named, sap_asked, unread, missed, untimely>>

\* The PAT lists a service; an SDT, or its PMT, has the names made again.
List(c) ==
    /\ c \notin listed /\ listed' = listed \cup {c}
    /\ missed' = IF NitSectionOf(c) \in nit_seen \/ nit_all_sections_seen
                 THEN missed \cup {c} ELSE missed
    /\ UNCHANGED <<reader, nit_air, nit_assembling, nit_version, nit_seen, nit_all_sections_seen,
                   nit_need_update, value, named, sap_asked, unread, untimely>>

Names ==
    /\ listed # {} /\ UpdateNames(listed, value, nit_all_sections_seen)
    /\ UNCHANGED <<reader, nit_air, nit_assembling, nit_version, nit_seen, nit_all_sections_seen,
                   nit_need_update, listed, value, unread, missed, untimely>>

Next ==
    \/ \E s \in OnAir \cup {NoNit}, given \in BOOLEAN : Packet(s, given)
    \/ NewVersion \/ Names \/ (\E c \in NitChannels : List(c))

Spec == Init /\ [][Next]_nitVars

-----------------------------------------------------------------------------

\* Once the table is read, every channel has what its section in that version says, unless the
\* section was counted before it applied, or the channel was listed later; and a channel listed
\* then is named and announced after it, with its number.
NumbersRight ==
    nit_all_sections_seen =>
        \A c \in listed \ missed :
            /\ NitSectionOf(c) \in 0..NitLast \ unread => value[c] = nit_version
            /\ named[c] = value[c] /\ c \in sap_asked
            /\ ~untimely => nit_version <= nit_air
=============================================================================
