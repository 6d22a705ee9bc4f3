------------------------------ MODULE MCParts ------------------------------
(* Small instances of the components: the constants that the .cfg cannot     *)
(* write down.                                                              *)
EXTENDS Parts

\* Monitor: no traffic, none scrambled, 9, 40, 78 and 95 %.
MCSamples == {<<0, 0>>, <<50, 0>>, <<100, 9>>, <<100, 40>>, <<100, 78>>, <<100, 95>>}

\* NitPsip: a section about each of two channels, and none about the third.
MCNitSectionOf(c) == IF c = 3 THEN -1 ELSE c - 1

\* SdtRewrite: each service in a section of its own; in version 1 the second is not described.
MCSectionOf(v, c) == IF v = 0 THEN c - 1 ELSE IF c = 1 THEN 1 ELSE -1

\* EitRewrite: a service with present and following, one with a schedule; version 0 has two
\* sections and version 1 one.
MCTables == <<78, 80>>
MCKeys == {<<1, 78>>, <<2, 80>>}
MCEitLast == [v \in EitVersions |-> 1 - v]

\* PmtRewrite: two packets in version 0, three in version 1.
MCPartsOf(v) == 2 + v

\* Lifecycle: all is configured, nothing, or all but one.
Options == {"daemon", "threaded", "hls", "scam", "cam", "sap"}
MCConfigs ==
    {[o \in Options |-> TRUE], [o \in Options |-> FALSE]}
        \cup {[o \in Options |-> o # off] : off \in Options}
=============================================================================
