------------------------------ MODULE Monitor ------------------------------
(* The rounds of the monitor thread (mumudvb_mon.c): it judges each channel *)
(* from the packets counted since the round before, and ends the program or *)
(* tunes again when the card gives nothing.  The packets of a round are a   *)
(* choice among Samples; those counted between the moment a counter is read *)
(* and the moment it is reset are lost.                                     *)
EXTENDS Integers

CONSTANTS
    MonChannels,
    Samples,         \* <<packets, scrambled ones>> per second
    MaxLost,         \* packets a reset may lose
    MaxRound,        \* seconds between two rounds, at most
    up_threshold, down_threshold,
    timeout_no_diff,
    Tunings,         \* values of tuning_no_diff
    MaxMonNow        \* bound on the time

\* The rate at which a channel goes down is not above the one at which it comes up: 30 and 80
\* packets per second.  Without tuning_no_diff the card is never tuned again.
MonitorAssumption ==
    /\ Samples \subseteq Nat \X Nat /\ MaxLost \in Nat /\ MaxRound \in Nat /\ MaxMonNow \in Nat
    /\ up_threshold \in Nat /\ down_threshold \in 0..up_threshold
    /\ timeout_no_diff \in Nat /\ Tunings \subseteq Nat /\ 0 \in Tunings

VARIABLES
    monitor_now,
    dont_send_scrambled, tuning_no_diff,  \* the configuration
    running,
    ready,               \* channel_ready >= READY
    has_traffic,
    scrambled_channel,
    last_updown_check,
    time_no_diff,
    mon_interrupted,     \* ERROR_NO_DIFF
    seen,                \* HISTORY when the round was in which a channel last ...
    tuned                \* HISTORY the last round tuned the card

monVars == <<monitor_now, dont_send_scrambled, tuning_no_diff, running, ready, has_traffic,
             scrambled_channel, last_updown_check, time_no_diff, mon_interrupted, seen, tuned>>

TypeOK ==
    /\ monitor_now \in 0..MaxMonNow /\ dont_send_scrambled \in BOOLEAN
    /\ tuning_no_diff \in Tunings /\ running \in BOOLEAN
    /\ ready \in [MonChannels -> BOOLEAN] /\ has_traffic \in [MonChannels -> BOOLEAN]
    /\ scrambled_channel \in [MonChannels -> {"FULLY", "PARTIALLY", "HIGHLY"}]
    /\ last_updown_check \in 0..monitor_now /\ time_no_diff \in 0..monitor_now
    /\ mon_interrupted \in BOOLEAN /\ tuned \in BOOLEAN
    /\ seen \in [full : 0..MaxMonNow, some : 0..MaxMonNow]

Init ==
    /\ monitor_now = 0 /\ running = FALSE
    /\ dont_send_scrambled = FALSE /\ tuning_no_diff = 0
    /\ ready = [c \in MonChannels |-> FALSE]
    /\ has_traffic = [c \in MonChannels |-> TRUE]
    /\ scrambled_channel = [c \in MonChannels |-> "FULLY"]
    /\ last_updown_check = 0 /\ time_no_diff = 0 /\ mon_interrupted = FALSE
    /\ seen = [full |-> 0, some |-> 0] /\ tuned = FALSE

Start ==
    /\ ~running
    /\ running' = TRUE
    /\ dont_send_scrambled' \in BOOLEAN /\ tuning_no_diff' \in Tunings
    /\ UNCHANGED <<monitor_now, ready, has_traffic, scrambled_channel, last_updown_check,
                   time_no_diff, mon_interrupted, seen, tuned>>

\* The autoconfiguration puts the channel on the air or takes it off.
ChannelReady(c) ==
    /\ running
    /\ ready' = [ready EXCEPT ![c] = ~@]
    /\ UNCHANGED <<monitor_now, dont_send_scrambled, tuning_no_diff, running, has_traffic,
                   scrambled_channel, last_updown_check, time_no_diff, mon_interrupted, seen, tuned>>

-----------------------------------------------------------------------------
\* The percentage of scrambled packets, of ten scrambled packets at least.
Ratio(packets, scrambled) ==
    IF packets > 0 /\ scrambled > 10 THEN (scrambled * 100) \div packets ELSE 0

\* The bands leave gaps, in which a channel keeps its state.
Band(ratio, old) ==
    CASE ratio < 2 -> "FULLY"
      [] ratio \in 5..75 -> "PARTIALLY"
      [] ratio > 80 -> "HIGHLY"
      [] OTHER -> old

\* Packets sent per second decide whether a channel is up; twice, so that it does not flap.
UpDown(packets, elapsed, old) ==
    \/ packets >= up_threshold * elapsed /\ ~old
    \/ packets >= down_threshold * elapsed /\ old

Active(traffic) == \E c \in MonChannels : traffic[c] /\ ready[c]

\* Slip of NoDiffSince: the time is not reset when a channel is active again.
NoDiffSinceFirst(traffic, t) == IF time_no_diff = 0 /\ ~Active(traffic) THEN t ELSE time_no_diff

\* The time since when no channel is active, 0 if one is.
NoDiffSince(traffic, t) ==
    IF Active(traffic) THEN 0 ELSE IF time_no_diff = 0 THEN t ELSE time_no_diff

Round(elapsed, sample, lost) ==
    LET t == monitor_now + elapsed
        packets == [c \in MonChannels |-> sample[c][1] * elapsed - lost]
        scrambled == [c \in MonChannels |-> sample[c][2] * elapsed]
        sent == [c \in MonChannels |->
                    IF dont_send_scrambled THEN packets[c] - scrambled[c] ELSE packets[c]]
        checked == last_updown_check # 0
        since == NoDiffSince(has_traffic', t)
        quiet == t - since
    IN  /\ running /\ ~mon_interrupted /\ t <= MaxMonNow
        /\ \A c \in MonChannels : packets[c] >= scrambled[c]
        /\ monitor_now' = t /\ last_updown_check' = t
        /\ scrambled_channel' = [c \in MonChannels |->
               IF ready[c] THEN Band(Ratio(packets[c], scrambled[c]), scrambled_channel[c])
               ELSE scrambled_channel[c]]
        /\ has_traffic' = [c \in MonChannels |->
               IF ready[c] /\ checked THEN UpDown(sent[c], t - last_updown_check, has_traffic[c])
               ELSE has_traffic[c]]
        /\ mon_interrupted' = (timeout_no_diff # 0 /\ since # 0 /\ quiet > timeout_no_diff)
        /\ tuned' = (tuning_no_diff # 0 /\ since # 0 /\ quiet > tuning_no_diff)
        /\ time_no_diff' = IF tuned' THEN 0 ELSE since
        /\ seen' = [full |-> IF \E c \in MonChannels :
                                    ready[c] /\ sent[c] + lost >= up_threshold * elapsed + MaxLost
                             THEN t ELSE seen.full,
                    some |-> IF \/ \E c \in MonChannels :
                                       ready[c] /\ sent[c] >= down_threshold * elapsed
                                \/ ~checked
                             THEN t ELSE seen.some]
        /\ UNCHANGED <<dont_send_scrambled, tuning_no_diff, running, ready>>

Next ==
    \/ Start
    \/ \E c \in MonChannels : ChannelReady(c)
    \/ \E elapsed \in 1..MaxRound, sample \in [MonChannels -> Samples], lost \in {0, MaxLost} :
           Round(elapsed, sample, lost)

Spec == Init /\ [][Next]_monVars

-----------------------------------------------------------------------------
\* The program only ends, and the card is only tuned again, when for the time configured no
\* channel was received at the rate that makes it up; packets a reset lost change nothing.
NeverForNothing ==
    /\ mon_interrupted => monitor_now > seen.full + timeout_no_diff
    /\ tuned => monitor_now > seen.full + tuning_no_diff

\* Without tuning, a program whose channels are all below the lower rate ends within a round
\* of its time, if it was given one.
NeverForever ==
    timeout_no_diff # 0 /\ tuning_no_diff = 0 /\ ~mon_interrupted =>
        monitor_now <= seen.some + timeout_no_diff + MaxRound
=============================================================================
