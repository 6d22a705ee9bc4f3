----------------------------- MODULE SdtRewrite -----------------------------
(* The rewritten SDT (rewrite_sdt.c and the main loop): one source for all  *)
(* channels, read section by section, from which each channel gets an SDT   *)
(* with its own service.  A packet of PID 17 may start a section and may be *)
(* the one with which get_ts_packet gives the section started before.       *)
EXTENDS Integers, FiniteSetsExt

CONSTANTS
    SdtChannels,     \* 1..n, in the order of the array; the number is the service id too
    SdtVersions,     \* 0..n
    LastSection,     \* last_section_number
    SectionOf(_, _)  \* in a version, of a service: the section that describes it, or NoSection

SdtAssumption ==
    /\ SdtChannels \subseteq Nat /\ SdtVersions \subseteq Nat /\ 0 \in SdtVersions /\ LastSection \in Nat
    /\ \A v \in SdtVersions, c \in SdtChannels : SectionOf(v, c) \in -1..LastSection

VARIABLES
    air_version,     \* EXTERNAL the version that is broadcast
    assembling,      \* full_sdt->data_partial: the section started last, or Nothing
    full_sdt,        \* the last section read, or Nothing
    full_sdt_ok, sdt_version, sdt_needs_update, sdt_need_others,
    sections_seen,   \* sdt_section_numbers_seen
    sdt_ready,       \* channel_ready >= READY
    generated_sdt, generated_sdt_version, sdt_rewrite_skip,
    sdt_sent,        \* what each channel sent for the last packet
    seen_versions,   \* HISTORY the versions of the sections that sections_seen counts
    failed,          \* HISTORY channels whose last rewrite found no section: generated_sdt_version
                     \* says the version all the same
    late_ready,      \* HISTORY channels that became ready after a section of this version
    unlucky,         \* HISTORY channels skipped because they were late, or because sections of
                     \* two versions were counted together
    early            \* HISTORY a section of a version to come was kept as the source

sdtVars == <<air_version, assembling, full_sdt, full_sdt_ok, sdt_version, sdt_needs_update,
             sdt_need_others, sections_seen, sdt_ready, generated_sdt, generated_sdt_version,
             sdt_rewrite_skip, sdt_sent, seen_versions, failed, late_ready, unlucky,
             early>>

NoSection == -1
Nothing == [kind |-> "nothing"]
Section(v, n, applicable) == [kind |-> "section", version |-> v, number |-> n, applicable |-> applicable]
OtherTable == [kind |-> "other"]
Original == [kind |-> "original"]
Blank == [kind |-> "blank"]
Sdt(c, v) == [kind |-> "sdt", service |-> c, version |-> v]

Sections == {Section(v, n, applicable) : v \in SdtVersions, n \in 0..LastSection, applicable \in BOOLEAN}
Outputs == {Nothing, Original, Blank} \cup {Sdt(c, v) : c \in SdtChannels, v \in SdtVersions}

TypeOK ==
    /\ air_version \in SdtVersions
    /\ {assembling, full_sdt} \subseteq Sections \cup {Nothing, OtherTable}
    /\ {full_sdt_ok, sdt_needs_update, sdt_need_others, early} \subseteq BOOLEAN
    /\ sdt_version \in SdtVersions \cup {-1} /\ sections_seen \subseteq 0..LastSection
    /\ generated_sdt \in [SdtChannels -> Outputs \ {Nothing, Original}]
    /\ generated_sdt_version \in [SdtChannels -> SdtVersions \cup {-1}]
    /\ sdt_rewrite_skip \in [SdtChannels -> BOOLEAN] /\ sdt_sent \in [SdtChannels -> Outputs]
    /\ sdt_ready \subseteq SdtChannels

Init ==
    /\ air_version = 0 /\ assembling = Nothing /\ full_sdt = Nothing /\ full_sdt_ok = FALSE
    /\ sdt_version = -1 /\ sdt_needs_update = TRUE /\ sdt_need_others = FALSE
    /\ sections_seen = {} /\ sdt_ready = {}
    /\ generated_sdt = [c \in SdtChannels |-> Blank]
    /\ generated_sdt_version = [c \in SdtChannels |-> -1]
    /\ sdt_rewrite_skip = [c \in SdtChannels |-> FALSE]
    /\ sdt_sent = [c \in SdtChannels |-> Nothing] /\ seen_versions = {} /\ failed = {}
    /\ late_ready = {} /\ unlucky = {} /\ early = FALSE

-----------------------------------------------------------------------------
(* sdt_rewrite_new_global_packet                                            *)

Starts(s) == s \in Sections

\* The state of the source, as a record, after a packet that starts section s and with which
\* get_ts_packet gives d.
Source(s, d) ==
    LET newer == ~sdt_needs_update /\ Starts(s) /\ s.version # sdt_version /\ s.applicable
        wanted == sdt_needs_update \/ newer \/ sdt_need_others
        seen == IF newer THEN {} ELSE sections_seen
        src == [full |-> full_sdt, ok |-> full_sdt_ok, version |-> sdt_version,
                needs |-> sdt_needs_update \/ newer, others |-> sdt_need_others, seen |-> seen,
                versions |-> IF newer THEN {} ELSE seen_versions, updated |-> FALSE]
    IN  CASE ~wanted \/ d = Nothing -> src
          [] wanted /\ d = OtherTable -> [src EXCEPT !.full = d, !.needs = TRUE]
          [] wanted /\ d \in Sections /\ ~d.applicable -> [src EXCEPT !.full = d]
          [] OTHER -> [full |-> d, ok |-> TRUE, version |-> d.version, needs |-> FALSE,
                       others |-> FALSE, seen |-> seen \cup {d.number},
                       versions |-> src.versions \cup {d.version}, updated |-> ~sdt_need_others]

-----------------------------------------------------------------------------
(* sdt_rewrite_new_channel_packet and sdt_channel_rewrite, for each channel in turn. *)

Describes(section, c) == section \in Sections /\ SectionOf(section.version, c) = section.number

\* The channels whose SDT is to be rewritten from the source, and those it describes.
Rewritten(src, skip) ==
    {c \in sdt_ready : ~skip[c] /\ src.ok /\ ~src.needs /\ generated_sdt_version[c] # src.version}
Found(src, skip) == {c \in Rewritten(src, skip) : Describes(src.full, c)}

\* sdt_channel_rewrite: a channel that no section describes is done with when all were seen.
Done(src, skip) ==
    {c \in Rewritten(src, skip) :
        src.full # OtherTable /\ (Describes(src.full, c) \/ src.seen = 0..LastSection)}

\* The packet of the main loop as channel c finds it: the SDT of a channel that sent its own
\* replaced it, for the channels that follow as well.
PacketAt(c, sends, gen) ==
    LET before == {b \in sends : b < c}
    IN  IF before = {} THEN Original ELSE gen[Max(before)]

Packet(s, given) ==
    LET d == IF given THEN assembling ELSE Nothing
        src == Source(s, d)
        wanted == sdt_needs_update \/ src.needs \/ sdt_need_others \/ src.updated
        skip == IF src.updated THEN [c \in SdtChannels |-> FALSE] ELSE sdt_rewrite_skip
        rewritten == Rewritten(src, skip)
        found == Found(src, skip)
        done == Done(src, skip)
        gen == [c \in SdtChannels |-> IF c \in found THEN Sdt(c, src.full.version) ELSE generated_sdt[c]]
        genv == [c \in SdtChannels |-> IF c \in done THEN src.version ELSE generated_sdt_version[c]]
        sends == {c \in sdt_ready : ~skip[c] /\ src.ok /\ genv[c] = src.version}
    IN  /\ assembling' = IF ~wanted THEN Nothing ELSE IF s # Nothing THEN s
                         ELSE IF given THEN Nothing ELSE assembling
        /\ full_sdt' = src.full /\ full_sdt_ok' = src.ok /\ sdt_version' = src.version
        /\ sdt_needs_update' = (src.needs \/ (src.full = OtherTable /\ rewritten # {}))
        /\ sdt_need_others' = (src.others \/ (src.full # OtherTable /\ rewritten # done))
        /\ sections_seen' = src.seen
        /\ generated_sdt' = gen /\ generated_sdt_version' = genv
        /\ sdt_rewrite_skip' = [c \in SdtChannels |-> IF c \in done THEN c \notin found ELSE skip[c]]
        /\ sdt_sent' = [c \in SdtChannels |->
                           IF c \in sdt_ready /\ skip[c] THEN PacketAt(c, sends, gen)
                           ELSE IF c \in sends THEN gen[c] ELSE Nothing]
        /\ late_ready' = IF src.updated THEN {} ELSE late_ready
        /\ seen_versions' = src.versions /\ failed' = (failed \cup done) \ found
        /\ unlucky' = {c \in SdtChannels :
                          /\ sdt_rewrite_skip'[c]
                          /\ IF sdt_rewrite_skip[c] /\ ~src.updated THEN c \in unlucky
                             ELSE c \in late_ready' \/ seen_versions' # {src.version}}
        /\ early' = (early \/ (src.full \in Sections /\ ~src.full.applicable /\ ~src.needs))
        /\ UNCHANGED <<air_version, sdt_ready>>

-----------------------------------------------------------------------------

\* What is on air: the sections of the version, those of the next one announced ahead, or the
\* table of another multiplex.
OnAir == {Section(air_version, n, TRUE) : n \in 0..LastSection}
         \cup (IF air_version + 1 \in SdtVersions THEN {Section(air_version + 1, 0, FALSE)} ELSE {})
         \cup {OtherTable}

NewVersion ==
    /\ air_version + 1 \in SdtVersions /\ air_version' = air_version + 1
    /\ UNCHANGED <<assembling, full_sdt, full_sdt_ok, sdt_version, sdt_needs_update,
                   sdt_need_others, sections_seen, sdt_ready, generated_sdt,
                   generated_sdt_version, sdt_rewrite_skip, sdt_sent, seen_versions, failed,
                   late_ready, unlucky, early>>

\* Autoconfiguration ends for the channel.
Ready(c) ==
    /\ c \notin sdt_ready /\ sdt_ready' = sdt_ready \cup {c}
    /\ late_ready' = IF full_sdt_ok THEN late_ready \cup {c} ELSE late_ready
    /\ UNCHANGED <<air_version, assembling, full_sdt, full_sdt_ok, sdt_version,
                   sdt_needs_update, sdt_need_others, sections_seen, generated_sdt,
                   generated_sdt_version, sdt_rewrite_skip, sdt_sent, seen_versions, failed,
                   unlucky, early>>

Next ==
    \/ NewVersion
    \/ \E c \in SdtChannels : Ready(c)
    \/ \E s \in OnAir \cup {Nothing}, given \in BOOLEAN : Packet(s, given)

Spec == Init /\ [][Next]_sdtVars

-----------------------------------------------------------------------------

\* A channel whose rewrite succeeded sends the description of its own service, in the version
\* read last, unless a section of a version to come was kept; and a channel is skipped only if no
\* section describes it, or it was unlucky.
OwnSdt ==
    \A c \in SdtChannels :
        /\ ~early /\ c \notin failed => sdt_sent[c] \in {Nothing, Sdt(c, sdt_version)}
        /\ sdt_rewrite_skip[c] /\ c \notin unlucky => SectionOf(sdt_version, c) = NoSection
=============================================================================
