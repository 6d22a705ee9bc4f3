----------------------------- MODULE PmtRewrite -----------------------------
(* The rewritten PMT (rewrite_pmt.c and the main loop).  A PMT takes one or  *)
(* more packets, put together without get_ts_packet; the packet to send is  *)
(* put in a buffer the channels share.                                      *)
EXTENDS Integers, Sequences, SequencesExt

CONSTANTS
    PmtChannels,
    PmtVersions,    \* 0..n
    PartsOf(_)      \* the number of packets of the PMT, by version

PmtAssumption ==
    /\ PmtVersions \subseteq Nat /\ 0 \in PmtVersions
    /\ \A v \in PmtVersions : PartsOf(v) \in Nat \ {0}

VARIABLES
    pmt_air,                \* EXTERNAL per channel: the version broadcast
    pmt_at,                 \* EXTERNAL per channel: the next packet of the section, from 0
    original_pmt,           \* per channel: the packets copied, in their places
    original_pmt_ready, pmt_part_num, pmt_part_count,
    generated_pmt,          \* per channel: what it was rewritten from
    generated_pmt_version,
    pmt_ts_packet,          \* the buffer: what it holds, and whose it is
    pmt_sent,               \* what each channel sent last
    pmt_fresh,              \* HISTORY the channel was rewritten with its last packet
    pmt_lost                \* HISTORY channels of which a packet was lost

pmtVars == <<pmt_air, pmt_at, original_pmt, original_pmt_ready, pmt_part_num, pmt_part_count,
             generated_pmt, generated_pmt_version, pmt_ts_packet, pmt_sent, pmt_fresh, pmt_lost>>

NoPmt == [of |-> 0, parts |-> <<>>]
Part(v, k) == [version |-> v, part |-> k]
Whole(v) == [k \in 1..PartsOf(v) |-> Part(v, k - 1)]

TypeOK ==
    /\ pmt_air \in [PmtChannels -> PmtVersions]
    /\ \A c \in PmtChannels :
         /\ pmt_at[c] \in 0..PartsOf(pmt_air[c]) - 1
         /\ pmt_part_count[c] <= pmt_part_num[c]
         /\ Len(original_pmt[c]) <= pmt_part_num[c] + 1
    /\ original_pmt_ready \in [PmtChannels -> BOOLEAN]
    /\ generated_pmt_version \in [PmtChannels -> PmtVersions]
    /\ pmt_ts_packet.of \in PmtChannels \cup {0}
    /\ pmt_fresh \in [PmtChannels -> BOOLEAN] /\ pmt_lost \subseteq PmtChannels

Init ==
    /\ pmt_air = [c \in PmtChannels |-> 0] /\ pmt_at = [c \in PmtChannels |-> 0]
    /\ original_pmt = [c \in PmtChannels |-> <<>>]
    /\ original_pmt_ready = [c \in PmtChannels |-> FALSE]
    /\ pmt_part_num = [c \in PmtChannels |-> 0] /\ pmt_part_count = [c \in PmtChannels |-> 0]
    /\ generated_pmt = [c \in PmtChannels |-> NoPmt]
    /\ generated_pmt_version = [c \in PmtChannels |-> 0]
    /\ pmt_ts_packet = NoPmt /\ pmt_sent = [c \in PmtChannels |-> NoPmt]
    /\ pmt_fresh = [c \in PmtChannels |-> FALSE] /\ pmt_lost = {}

-----------------------------------------------------------------------------

Advances(c) == pmt_at' = [pmt_at EXCEPT ![c] = (@ + 1) % PartsOf(pmt_air[c])]

\* pmt_send_packet
Sends(c) ==
    /\ pmt_ts_packet' = generated_pmt[c]
    /\ pmt_sent' = [pmt_sent EXCEPT ![c] = generated_pmt[c]]
    /\ pmt_fresh' = [pmt_fresh EXCEPT ![c] = FALSE]
    /\ UNCHANGED <<generated_pmt, generated_pmt_version>>

\* pmt_channel_rewrite.  The rewritten PMT is not copied to the buffer: what the buffer held
\* is sent.
Rewrites(c, parts) ==
    /\ generated_pmt' = [generated_pmt EXCEPT ![c] = [of |-> c, parts |-> parts]]
    /\ generated_pmt_version' = [generated_pmt_version EXCEPT ![c] = parts[1].version]
    /\ pmt_sent' = [pmt_sent EXCEPT ![c] = pmt_ts_packet]
    /\ pmt_fresh' = [pmt_fresh EXCEPT ![c] = TRUE]
    /\ UNCHANGED pmt_ts_packet

SendsNothing == UNCHANGED <<generated_pmt, generated_pmt_version, pmt_ts_packet, pmt_sent, pmt_fresh>>

\* The packet a PMT starts with: its version tells whether it is new.
First(c) ==
    LET v == pmt_air[c]
        known == original_pmt_ready[c] /\ v = generated_pmt_version[c]
    IN  /\ pmt_at[c] = 0 /\ Advances(c)
        /\ IF known
           THEN UNCHANGED <<original_pmt, original_pmt_ready, pmt_part_num, pmt_part_count>>
           ELSE /\ pmt_part_num' = [pmt_part_num EXCEPT ![c] = PartsOf(v) - 1]
                /\ pmt_part_count' = [pmt_part_count EXCEPT ![c] = 0]
                /\ original_pmt' = [original_pmt EXCEPT ![c] = <<Part(v, 0)>>]
                /\ original_pmt_ready' = [original_pmt_ready EXCEPT ![c] = (PartsOf(v) = 1)]
        /\ IF known THEN Sends(c)
           ELSE IF PartsOf(v) = 1 THEN Rewrites(c, <<Part(v, 0)>>) ELSE SendsNothing
        /\ UNCHANGED <<pmt_air, pmt_lost>>

\* A packet in the middle of a PMT: counted, not looked at.
Continues(c) ==
    LET parts == Append(original_pmt[c], Part(pmt_air[c], pmt_at[c]))
        wanted == ~original_pmt_ready[c] /\ pmt_part_num[c] > 0
        last == pmt_part_count[c] + 1 = pmt_part_num[c]
    IN  /\ pmt_at[c] > 0 /\ Advances(c)
        /\ IF wanted
           THEN /\ pmt_part_count' = [pmt_part_count EXCEPT ![c] = @ + 1]
                /\ original_pmt' = [original_pmt EXCEPT ![c] = parts]
                /\ original_pmt_ready' = [original_pmt_ready EXCEPT ![c] = last]
           ELSE UNCHANGED <<original_pmt, original_pmt_ready, pmt_part_count>>
        /\ IF ~wanted THEN Sends(c) ELSE IF last THEN Rewrites(c, parts) ELSE SendsNothing
        /\ UNCHANGED <<pmt_air, pmt_part_num, pmt_lost>>

\* EXTERNAL a packet is lost, a new version follows the end of a section.
Lose(c) ==
    /\ pmt_lost' = pmt_lost \cup {c} /\ Advances(c)
    /\ UNCHANGED <<pmt_air, original_pmt, original_pmt_ready, pmt_part_num, pmt_part_count,
                   generated_pmt, generated_pmt_version, pmt_ts_packet, pmt_sent, pmt_fresh>>

NewPmt(c) ==
    /\ pmt_at[c] = 0 /\ pmt_air[c] + 1 \in PmtVersions
    /\ pmt_air' = [pmt_air EXCEPT ![c] = @ + 1]
    /\ UNCHANGED <<pmt_at, original_pmt, original_pmt_ready, pmt_part_num, pmt_part_count,
                   generated_pmt, generated_pmt_version, pmt_ts_packet, pmt_sent, pmt_fresh, pmt_lost>>

Next == \E c \in PmtChannels : First(c) \/ Continues(c) \/ Lose(c) \/ NewPmt(c)

Spec == Init /\ [][Next]_pmtVars

-----------------------------------------------------------------------------

\* What is announced as a version was rewritten from all the packets of that version, in their
\* order, unless packets were lost, and a channel sends its own PMT, except for the packet with
\* which it was rewritten.
OwnPmt ==
    \A c \in PmtChannels :
        /\ original_pmt_ready[c] /\ c \notin pmt_lost =>
               generated_pmt[c] = [of |-> c, parts |-> Whole(generated_pmt_version[c])]
        /\ ~pmt_fresh[c] => pmt_sent[c] \in {NoPmt, generated_pmt[c]} \/ pmt_sent[c].of = c
=============================================================================
