---------------------------- MODULE Parts_lemmas ----------------------------
(***************************************************************************)
(* The inductive invariants of the components of PartsState: each holds    *)
(* initially and every step of its component keeps it.                     *)
(***************************************************************************)
EXTENDS PartsState, FiniteSetTheorems, SequenceTheorems, WellFoundedInduction, TLAPS

-----------------------------------------------------------------------------
(* Monitor                                                                  *)

\* A round is looked at since the one before, and the first finds the channels as they were.
MonRounds ==
    /\ last_updown_check = monitor_now
    /\ monitor_now = 0 => has_traffic = [c \in MonChannels |-> TRUE] /\ seen.some = 0
    /\ seen.full <= monitor_now /\ seen.some <= monitor_now

\* The time is counted from after the last round in which a channel was received well.
MonQuiet == time_no_diff # 0 => time_no_diff > seen.full

\* Without tuning it is counted from the round after the last one in which any came.
MonCounted ==
    tuning_no_diff = 0 =>
        /\ ~tuned
        /\ time_no_diff = 0 => monitor_now = seen.some
        /\ time_no_diff # 0 => time_no_diff <= seen.some + MaxRound
        /\ timeout_no_diff # 0 /\ time_no_diff # 0 /\ ~mon_interrupted =>
               monitor_now <= time_no_diff + timeout_no_diff

MonStart == ~running => monitor_now = 0 /\ time_no_diff = 0 /\ ~tuned

MonInv == Mon!TypeOK /\ MonRounds /\ MonQuiet /\ MonCounted /\ MonStart /\ Mon!NeverForNothing

LEMMA MonInit == Mon!Init => MonInv
<1> SUFFICES ASSUME Mon!Init PROVE MonInv OBVIOUS
<1> USE MonitorConfigured DEF Mon!MonitorAssumption, Mon!Init
<1>1. Mon!TypeOK
  <2>1. /\ seen \in [full : 0..MaxMonNow, some : 0..MaxMonNow]
        /\ ready \in [MonChannels -> BOOLEAN] /\ has_traffic \in [MonChannels -> BOOLEAN]
    OBVIOUS
  <2>2. scrambled_channel \in [MonChannels -> {"FULLY", "PARTIALLY", "HIGHLY"}] OBVIOUS
  <2>3. /\ monitor_now \in 0..MaxMonNow
        /\ last_updown_check \in 0..monitor_now /\ time_no_diff \in 0..monitor_now
    OBVIOUS
  <2>4. /\ dont_send_scrambled \in BOOLEAN /\ tuning_no_diff \in Tunings /\ running \in BOOLEAN
        /\ mon_interrupted \in BOOLEAN /\ tuned \in BOOLEAN
    OBVIOUS
  <2> QED BY <2>1, <2>2, <2>3, <2>4 DEF Mon!TypeOK
<1>2. MonRounds /\ MonQuiet /\ MonCounted /\ MonStart
  BY DEF MonRounds, MonQuiet, MonCounted, MonStart
<1>3. Mon!NeverForNothing BY DEF Mon!NeverForNothing
<1> QED BY <1>1, <1>2, <1>3 DEF MonInv

\* What a round makes of the channels: one received well is up, and one that is up came at the
\* lower rate at least.
LEMMA MonTraffic ==
  ASSUME NEW packets \in Int, NEW elapsed \in Nat \ {0}, NEW old \in BOOLEAN, NEW lost \in 0..MaxLost
  PROVE  /\ packets + lost >= up_threshold * elapsed + MaxLost => Mon!UpDown(packets, elapsed, old)
         /\ Mon!UpDown(packets, elapsed, old) => packets >= down_threshold * elapsed
<1> USE MonitorConfigured DEF Mon!MonitorAssumption
<1>1. up_threshold * elapsed \in Nat /\ down_threshold * elapsed \in Nat OBVIOUS
<1>2. down_threshold * elapsed <= up_threshold * elapsed OBVIOUS
<1> DEFINE u == up_threshold * elapsed
           d == down_threshold * elapsed
<1>3. u \in Nat /\ d \in Nat /\ d <= u BY <1>1, <1>2
<1>4. Mon!UpDown(packets, elapsed, old) <=> (packets >= u /\ ~old) \/ (packets >= d /\ old)
  BY DEF Mon!UpDown
<1> HIDE DEF u, d
<1>5. /\ packets + lost >= u + MaxLost => Mon!UpDown(packets, elapsed, old)
      /\ Mon!UpDown(packets, elapsed, old) => packets >= d
  BY <1>3, <1>4
<1> QED BY <1>5 DEF u, d

LEMMA MonRound ==
  ASSUME MonInv, NEW elapsed \in 1..MaxRound, NEW sample \in [MonChannels -> Samples],
         NEW lost \in {0, MaxLost}, Mon!Round(elapsed, sample, lost)
  PROVE  MonInv'
<1> USE MonitorConfigured DEF Mon!MonitorAssumption
<1> DEFINE t == monitor_now + elapsed
           packets == [c \in MonChannels |-> sample[c][1] * elapsed - lost]
           scrambled == [c \in MonChannels |-> sample[c][2] * elapsed]
           sent == [c \in MonChannels |->
                       IF dont_send_scrambled THEN packets[c] - scrambled[c] ELSE packets[c]]
           checked == last_updown_check # 0
           since == Mon!NoDiffSince(has_traffic', t)
           well == \E c \in MonChannels :
                      ready[c] /\ sent[c] + lost >= up_threshold * elapsed + MaxLost
           any == \/ \E c \in MonChannels : ready[c] /\ sent[c] >= down_threshold * elapsed
                  \/ ~checked
\* What the round assigns
<1>1. /\ running /\ ~mon_interrupted /\ t <= MaxMonNow
      /\ monitor_now' = t /\ last_updown_check' = t
      /\ scrambled_channel' = [c \in MonChannels |->
             IF ready[c] THEN Mon!Band(Mon!Ratio(packets[c], scrambled[c]), scrambled_channel[c])
             ELSE scrambled_channel[c]]
      /\ has_traffic' = [c \in MonChannels |->
             IF ready[c] /\ checked THEN Mon!UpDown(sent[c], t - last_updown_check, has_traffic[c])
             ELSE has_traffic[c]]
      /\ mon_interrupted' = (timeout_no_diff # 0 /\ since # 0 /\ t - since > timeout_no_diff)
      /\ tuned' = (tuning_no_diff # 0 /\ since # 0 /\ t - since > tuning_no_diff)
      /\ time_no_diff' = IF tuned' THEN 0 ELSE since
      /\ seen' = [full |-> IF well THEN t ELSE seen.full, some |-> IF any THEN t ELSE seen.some]
      /\ UNCHANGED <<dont_send_scrambled, tuning_no_diff, running, ready>>
  BY DEF Mon!Round
<1>2. Mon!TypeOK /\ MonRounds /\ MonQuiet /\ MonCounted BY DEF MonInv
<1>3. /\ elapsed \in Nat \ {0} /\ monitor_now \in Nat /\ t \in Nat \ {0} /\ t > monitor_now
      /\ t - last_updown_check = elapsed /\ lost \in 0..MaxLost /\ time_no_diff \in 0..monitor_now
      /\ seen.full \in 0..monitor_now /\ seen.some \in 0..monitor_now
  BY <1>2 DEF Mon!TypeOK, MonRounds
<1>4. \A c \in MonChannels : packets[c] \in Int /\ scrambled[c] \in Int /\ sent[c] \in Int
  <2> SUFFICES ASSUME NEW c \in MonChannels
               PROVE  packets[c] \in Int /\ scrambled[c] \in Int /\ sent[c] \in Int
    OBVIOUS
  <2>1. sample[c] \in Nat \X Nat OBVIOUS
  <2>2. sample[c][1] \in Nat /\ sample[c][2] \in Nat BY <2>1
  <2>3. sample[c][1] * elapsed \in Int /\ sample[c][2] * elapsed \in Int BY <1>3, <2>2
  <2> QED BY <1>3, <2>3
<1> HIDE DEF packets, scrambled
<1>5. \A c \in MonChannels :
         /\ sent[c] + lost >= up_threshold * elapsed + MaxLost =>
                Mon!UpDown(sent[c], elapsed, has_traffic[c])
         /\ Mon!UpDown(sent[c], elapsed, has_traffic[c]) => sent[c] >= down_threshold * elapsed
  BY <1>2, <1>3, <1>4, MonTraffic DEF Mon!TypeOK
<1> HIDE DEF sent
\* What it sees of the channels
<1>6. well => Mon!Active(has_traffic')
  <2> SUFFICES ASSUME NEW c \in MonChannels, ready[c],
                      sent[c] + lost >= up_threshold * elapsed + MaxLost
               PROVE  Mon!Active(has_traffic')
    OBVIOUS
  <2>1. has_traffic'[c]
    <3>1. CASE checked BY <1>1, <1>3, <1>5, <3>1
    <3>2. CASE ~checked BY <1>1, <1>2, <3>2 DEF MonRounds
    <3> QED BY <3>1, <3>2
  <2>2. ready'[c] BY <1>1
  <2> QED BY <1>1, <2>1, <2>2 DEF Mon!Active
<1>7. Mon!Active(has_traffic') => any
  <2> SUFFICES ASSUME NEW c \in MonChannels, has_traffic'[c], ready[c], checked
               PROVE  sent[c] >= down_threshold * elapsed
    BY <1>1 DEF Mon!Active
  <2> QED BY <1>1, <1>3, <1>5
<1>8. /\ Mon!Active(has_traffic') => since = 0
      /\ ~Mon!Active(has_traffic') => since = (IF time_no_diff = 0 THEN t ELSE time_no_diff)
  BY DEF Mon!NoDiffSince
<1>9. since \in 0..t BY <1>3, <1>8
<1> HIDE DEF since, well, any
<1>10. seen'.full = (IF well THEN t ELSE seen.full) /\ seen'.some = (IF any THEN t ELSE seen.some)
  BY <1>1
<1>11. any \/ monitor_now # 0 BY <1>2 DEF any, MonRounds
<1> HIDE DEF t
<1>12. Mon!TypeOK'
  <2>1. seen' \in [full : 0..MaxMonNow, some : 0..MaxMonNow]
    BY <1>1, <1>2, <1>3 DEF Mon!TypeOK
  <2>2. has_traffic' \in [MonChannels -> BOOLEAN]
    BY <1>1, <1>2 DEF Mon!TypeOK, Mon!UpDown
  <2>3. \A ratio, old : old \in {"FULLY", "PARTIALLY", "HIGHLY"} =>
           Mon!Band(ratio, old) \in {"FULLY", "PARTIALLY", "HIGHLY"}
    BY DEF Mon!Band
  <2>4. scrambled_channel' \in [MonChannels -> {"FULLY", "PARTIALLY", "HIGHLY"}]
    BY <1>1, <1>2, <2>3 DEF Mon!TypeOK
  <2>5. /\ monitor_now' \in 0..MaxMonNow /\ last_updown_check' \in 0..monitor_now'
        /\ time_no_diff' \in 0..monitor_now'
    BY <1>1, <1>3, <1>9
  <2> QED BY <1>1, <1>2, <2>1, <2>2, <2>4, <2>5 DEF Mon!TypeOK
<1>13. MonRounds'
  <2>1. last_updown_check' = monitor_now' /\ monitor_now' = t BY <1>1
  <2>2. monitor_now' # 0 /\ seen'.full <= monitor_now' /\ seen'.some <= monitor_now'
    BY <1>3, <1>10, <2>1
  <2> QED BY <2>1, <2>2 DEF MonRounds
<1>14. MonQuiet' BY <1>1, <1>2, <1>3, <1>6, <1>8, <1>9, <1>10 DEF MonQuiet
<1>15. MonCounted'
  <2> SUFFICES ASSUME tuning_no_diff = 0 PROVE MonCounted' BY <1>1 DEF MonCounted
  <2>1. ~tuned' /\ time_no_diff' = since BY <1>1
  <2>2. time_no_diff' = 0 => monitor_now' = seen'.some
    BY <1>1, <1>3, <1>7, <1>8, <1>10, <2>1
  <2>3. time_no_diff' # 0 => time_no_diff' <= seen'.some + MaxRound
    <3>1. CASE time_no_diff = 0
      <4>1. monitor_now = seen.some BY <1>2, <3>1 DEF MonCounted
      <4> QED BY <1>3, <1>9, <1>10, <2>1, <3>1, <4>1 DEF t
    <3>2. CASE time_no_diff # 0
      BY <1>2, <1>3, <1>8, <1>10, <2>1, <3>2 DEF MonCounted
    <3> QED BY <3>1, <3>2
  <2>4. timeout_no_diff # 0 /\ time_no_diff' # 0 /\ ~mon_interrupted' =>
           monitor_now' <= time_no_diff' + timeout_no_diff
    <3>1. timeout_no_diff # 0 /\ since # 0 /\ t - since > timeout_no_diff => mon_interrupted'
      BY <1>1
    <3>2. monitor_now' = t BY <1>1
    <3> QED BY <1>3, <1>9, <2>1, <3>1, <3>2
  <2> QED BY <2>1, <2>2, <2>3, <2>4 DEF MonCounted
<1>16. MonStart' BY <1>1 DEF MonStart
<1>17. Mon!NeverForNothing'
  <2>1. since # 0 => since > seen'.full
    BY <1>2, <1>3, <1>6, <1>8, <1>10 DEF MonQuiet
  <2> QED BY <1>1, <1>2, <1>3, <1>9, <1>10, <2>1 DEF Mon!NeverForNothing, Mon!TypeOK
<1> QED BY <1>12, <1>13, <1>14, <1>15, <1>16, <1>17 DEF MonInv

LEMMA MonStep == MonInv /\ (Mon!Next \/ UNCHANGED monVars) => MonInv'
<1> SUFFICES ASSUME MonInv, Mon!Next \/ UNCHANGED monVars PROVE MonInv' OBVIOUS
<1> USE DEF MonInv
<1>1. CASE UNCHANGED monVars
  BY <1>1 DEF monVars, Mon!TypeOK, MonRounds, MonQuiet, MonCounted, MonStart, Mon!NeverForNothing
<1>2. CASE Mon!Start
  BY <1>2, MonitorConfigured
  DEF Mon!Start, Mon!TypeOK, MonRounds, MonQuiet, MonCounted, MonStart, Mon!NeverForNothing, Mon!MonitorAssumption
<1>3. ASSUME NEW c \in MonChannels, Mon!ChannelReady(c) PROVE MonInv'
  BY <1>3
  DEF Mon!ChannelReady, Mon!TypeOK, MonRounds, MonQuiet, MonCounted, MonStart, Mon!NeverForNothing
<1> HIDE DEF MonInv
<1> QED BY <1>1, <1>2, <1>3, MonRound DEF Mon!Next

LEMMA MonHonest == MonInv => Mon!TypeOK /\ Mon!NeverForNothing /\ Mon!NeverForever
<1> SUFFICES ASSUME MonInv PROVE Mon!NeverForever BY DEF MonInv
<1> USE MonitorConfigured DEF Mon!MonitorAssumption
<1> QED BY DEF MonInv, MonRounds, MonCounted, Mon!TypeOK, Mon!NeverForever

-----------------------------------------------------------------------------
(* Lifecycle                                                                *)

\* The place of a step in the whole life of the program.
LifeRank(step) ==
    CASE step = "config" -> 1 [] step = "lists" -> 2 [] step = "open" -> 3 [] step = "tune" -> 4
      [] step = "strength" -> 5 [] step = "monitor" -> 6 [] step = "hls" -> 7
      [] step = "getcw" -> 8 [] step = "cam" -> 9 [] step = "tables" -> 10 [] step = "net" -> 11
      [] step = "sap" -> 12 [] step = "card" -> 13 [] step = "loop" -> 14
      [] step = "join_strength" -> 15 [] step = "stop_card" -> 16 [] step = "join_monitor" -> 17
      [] step = "stop_hls" -> 18 [] step = "sockets" -> 19 [] step = "ring" -> 20
      [] step = "fds" -> 21 [] step = "stop_cam" -> 22 [] step = "stop_getcw" -> 23
      [] step = "free_tables" -> 24 [] step = "remove_lists" -> 25 [] step = "remove_pid" -> 26
      [] step = "buffers" -> 27 [] OTHER -> 28

\* The step that releases a resource; the log goes last, with the exit.
LifeEnd ==
    [mutex |-> 16, slots |-> 18, sockets |-> 19, pmt |-> 19, ring |-> 20, fds |-> 21,
     clients |-> 21, session |-> 22, tables |-> 24, sap |-> 24, lists |-> 25, pidfile |-> 26,
     buffers |-> 27, dirs |-> 27, log |-> 27]

LifeSteps ==
    {"config", "lists", "open", "tune", "strength", "monitor", "hls", "getcw", "cam", "tables",
     "net", "sap", "card", "loop", "join_strength", "stop_card", "join_monitor", "stop_hls",
     "sockets", "ring", "fds", "stop_cam", "stop_getcw", "free_tables", "remove_lists",
     "remove_pid", "buffers", "log"}

LEMMA StartupNames ==
  /\ L!Startup[1] = "config" /\ L!Startup[2] = "lists" /\ L!Startup[3] = "open"
  /\ L!Startup[4] = "tune" /\ L!Startup[5] = "strength" /\ L!Startup[6] = "monitor"
  /\ L!Startup[7] = "hls" /\ L!Startup[8] = "getcw" /\ L!Startup[9] = "cam"
  /\ L!Startup[10] = "tables" /\ L!Startup[11] = "net" /\ L!Startup[12] = "sap"
  /\ L!Startup[13] = "card" /\ L!Startup[14] = "loop"
BY DEF L!Startup

LEMMA ClosingNames ==
  /\ L!Closing[1] = "join_strength" /\ L!Closing[2] = "stop_card"
  /\ L!Closing[3] = "join_monitor" /\ L!Closing[4] = "stop_hls" /\ L!Closing[5] = "sockets"
  /\ L!Closing[6] = "ring" /\ L!Closing[7] = "fds" /\ L!Closing[8] = "stop_cam"
  /\ L!Closing[9] = "stop_getcw" /\ L!Closing[10] = "free_tables"
  /\ L!Closing[11] = "remove_lists" /\ L!Closing[12] = "remove_pid"
  /\ L!Closing[13] = "buffers" /\ L!Closing[14] = "log"
BY DEF L!Closing

LEMMA StartupRanks ==
  /\ Len(L!Startup) = 14
  /\ \A i \in 1..14 : L!Startup[i] \in LifeSteps /\ LifeRank(L!Startup[i]) = i
<1>1. Len(L!Startup) = 14 BY DEF L!Startup
<1>2. \A i \in 1..14 : i \in {1, 2, 3, 4, 5, 6, 7, 8, 9, 10, 11, 12, 13, 14} OBVIOUS
<1>3. \A i \in 1..14 : L!Startup[i] \in LifeSteps BY <1>2, StartupNames DEF LifeSteps
<1>4. \A i \in {1, 2, 3, 4, 5, 6, 7} : LifeRank(L!Startup[i]) = i BY StartupNames DEF LifeRank
<1>5. \A i \in {8, 9, 10, 11, 12, 13, 14} : LifeRank(L!Startup[i]) = i BY StartupNames DEF LifeRank
<1> QED BY <1>1, <1>2, <1>3, <1>4, <1>5

LEMMA ClosingRanks ==
  /\ Len(L!Closing) = 14
  /\ \A i \in 1..14 : L!Closing[i] \in LifeSteps /\ LifeRank(L!Closing[i]) = 14 + i
<1>1. Len(L!Closing) = 14 BY DEF L!Closing
<1>2. \A i \in 1..14 : i \in {1, 2, 3, 4, 5, 6, 7, 8, 9, 10, 11, 12, 13, 14} OBVIOUS
<1>3. \A i \in 1..14 : L!Closing[i] \in LifeSteps BY <1>2, ClosingNames DEF LifeSteps
<1>4. \A i \in {1, 2, 3, 4, 5, 6, 7} : LifeRank(L!Closing[i]) = 14 + i BY ClosingNames DEF LifeRank
<1>5. \A i \in {8, 9, 10, 11, 12, 13, 14} : LifeRank(L!Closing[i]) = 14 + i BY ClosingNames DEF LifeRank
<1> QED BY <1>1, <1>2, <1>3, <1>4, <1>5

LEMMA StepRanks == \A s \in LifeSteps : LifeRank(s) \in 1..28
BY DEF LifeSteps, LifeRank

\* A step is known by its place.
LEMMA RankInjective == \A r, s \in LifeSteps : LifeRank(r) = LifeRank(s) => r = s
BY DEF LifeSteps, LifeRank

\* The step after one of a list is at the next place.
LEMMA NextRank ==
  /\ \A i \in 1..13 : L!After(L!Startup, L!Startup[i]) = L!Startup[i + 1]
  /\ \A i \in 1..13 : L!After(L!Closing, L!Closing[i]) = L!Closing[i + 1]
<1>1. ASSUME NEW i \in 1..13 PROVE L!After(L!Startup, L!Startup[i]) = L!Startup[i + 1]
  <2>1. \A j \in 1..Len(L!Startup) : L!Startup[j] = L!Startup[i] => j = i
    BY StartupRanks
  <2>2. i \in 1..Len(L!Startup) BY StartupRanks
  <2>3. (CHOOSE j \in 1..Len(L!Startup) : L!Startup[j] = L!Startup[i]) = i
    BY <2>1, <2>2
  <2> QED BY <2>3 DEF L!After
<1>2. ASSUME NEW i \in 1..13 PROVE L!After(L!Closing, L!Closing[i]) = L!Closing[i + 1]
  <2>1. \A j \in 1..Len(L!Closing) : L!Closing[j] = L!Closing[i] => j = i
    BY ClosingRanks
  <2>2. i \in 1..Len(L!Closing) BY ClosingRanks
  <2>3. (CHOOSE j \in 1..Len(L!Closing) : L!Closing[j] = L!Closing[i]) = i
    BY <2>1, <2>2
  <2> QED BY <2>3 DEF L!After
<1> QED BY <1>1, <1>2

Rank == LifeRank(at)

\* A thread that was joined in time, or in five seconds, is told apart by what it ended or not.
LifeJoined ==
    /\ Rank > 15 /\ "strength" \in alive => "strength" \in timedout
    /\ Rank > 17 /\ "monitor" \in alive => "monitor" \in timedout
    /\ Rank > 20 => "scam" \notin alive
    /\ Rank > 22 => "cam" \notin alive
    /\ "hls" \in told => Rank > 18

\* What is there is released at its step and not before; the slots of HLS with its thread.
LifeMade ==
    /\ \A r \in made : r # "log" => Rank <= LifeEnd[r]
    /\ \A r \in released : Rank > LifeEnd[r]
    /\ "slots" \in made /\ exitcode = "none" => "hls" \in alive
    /\ exitcode \in {"0", "error"} => made = {}

\* What is not there though it is configured was not come to: the step that failed is before.
LifeFailed ==
    /\ failed_at # "none" => Rank > 14
    /\ failed_at \notin {"none", "hls"} => why # "no"
    /\ config.daemon /\ "pidfile" \notin made /\ Rank \in 4..26 =>
           failed_at \in {"config", "open"}
    /\ config.scam /\ "ring" \notin made /\ Rank \in 12..20 =>
           failed_at \in {"config", "open", "tune", "hls", "tables"}

LifeEnded ==
    /\ exitcode # "none" => Rank = 28 \/ alive = {}
    /\ exitcode = "0" => why # "error"
    /\ exitcode = "ERROR_DEL_FILE" => failed_at = "config" \/ (config.daemon /\ failed_at = "open")
    /\ exitcode = "crash" => config.scam /\ failed_at \in {"config", "open", "tune", "hls", "tables"}

LifeInv == L!TypeOK /\ LifeJoined /\ LifeMade /\ LifeFailed /\ LifeEnded

\* The names of what there is
LifeThings ==
    {"mutex", "slots", "sockets", "pmt", "ring", "fds", "clients", "session", "tables", "sap",
     "lists", "pidfile", "buffers", "dirs", "log"}
LEMMA LifeResources ==
  /\ L!Resources = LifeThings
  /\ L!Threads = {"strength", "monitor", "hls", "card", "cam", "getcw", "scam"}
  /\ \A r \in LifeThings : LifeEnd[r] \in 16..27
<1>1. L!Threads = {"strength", "monitor", "hls", "card", "cam", "getcw", "scam"} BY DEF L!Threads
<1>2. ASSUME NEW r
      PROVE  r \in L!Resources <=>
                \/ r \in L!Uses["strength"] \/ r \in L!Uses["monitor"] \/ r \in L!Uses["hls"]
                \/ r \in L!Uses["card"] \/ r \in L!Uses["cam"] \/ r \in L!Uses["getcw"]
                \/ r \in L!Uses["scam"] \/ r \in {"tables", "lists", "pidfile"}
  <2>1. r \in L!Resources <=> (\E t \in L!Threads : r \in L!Uses[t]) \/ r \in {"tables", "lists", "pidfile"}
    BY DEF L!Resources
  <2> QED BY <1>1, <2>1
<1>3. L!Resources = LifeThings BY <1>2 DEF L!Uses, LifeThings
<1>4. \A r \in LifeThings : LifeEnd[r] \in 16..27 BY DEF LifeThings, LifeEnd
<1> QED BY <1>1, <1>3, <1>4

LEMMA LifeClean == LifeInv => L!CleanEnd
<1> SUFFICES ASSUME LifeInv PROVE L!CleanEnd OBVIOUS
<1> USE DEF LifeInv
<1>1. Rank \in 1..28 /\ at \in LifeSteps
  BY StartupRanks, ClosingRanks, StepRanks DEF L!TypeOK, Rank
<1>2. alive \subseteq {"strength", "monitor", "hls", "card", "cam", "getcw", "scam"}
  BY LifeResources DEF L!TypeOK
<1>3. released \subseteq LifeThings /\ made \subseteq LifeThings BY LifeResources DEF L!TypeOK
<1>4. ASSUME NEW t \in alive \ timedout PROVE L!Uses[t] \cap released \subseteq L!Exposed[t]
  <2>1. \A r \in released : r \in LifeThings /\ Rank > LifeEnd[r] BY <1>3 DEF LifeMade
  <2>2. CASE t = "strength"
    <3>1. Rank <= 15 BY <1>1, <1>4, <2>2 DEF LifeJoined
    <3> QED BY <1>1, <2>1, <2>2, <3>1 DEF L!Uses, L!Exposed, LifeEnd
  <2>3. CASE t = "monitor"
    <3>1. Rank <= 17 BY <1>1, <1>4, <2>3 DEF LifeJoined
    <3> QED BY <1>1, <2>1, <2>3, <3>1 DEF L!Uses, L!Exposed, LifeEnd
  <2>4. CASE t = "scam"
    <3>1. Rank <= 20 BY <1>1, <1>4, <2>4 DEF LifeJoined
    <3> QED BY <1>1, <2>1, <2>4, <3>1 DEF L!Uses, L!Exposed, LifeEnd
  <2>5. CASE t = "cam"
    <3>1. Rank <= 22 BY <1>1, <1>4, <2>5 DEF LifeJoined
    <3> QED BY <1>1, <2>1, <2>5, <3>1 DEF L!Uses, L!Exposed, LifeEnd
  <2>6. CASE t = "hls" BY <2>6 DEF L!Uses, L!Exposed
  <2>7. CASE t = "card" BY <2>7 DEF L!Uses, L!Exposed
  <2>8. CASE t = "getcw" BY <2>8 DEF L!Uses, L!Exposed
  <2> QED BY <1>2, <2>2, <2>3, <2>4, <2>5, <2>6, <2>7, <2>8
<1>5. ASSUME exitcode \in {"0", "error"} PROVE alive \ timedout \subseteq {"card", "hls", "getcw"}
  <2> SUFFICES ASSUME NEW t \in alive \ timedout PROVE t \in {"card", "hls", "getcw"}
    OBVIOUS
  <2>1. Rank = 28 BY <1>5 DEF LifeEnded
  <2>2. t # "strength" /\ t # "monitor" /\ t # "scam" /\ t # "cam" BY <2>1 DEF LifeJoined
  <2> QED BY <1>2, <2>2
<1>6. failed_at \notin {"none", "hls"} /\ exitcode = "0" => why = "signal"
  BY DEF LifeFailed, LifeEnded, L!TypeOK
<1> QED BY <1>4, <1>5, <1>6 DEF LifeMade, LifeEnded, L!CleanEnd

LEMMA LifeInitial == L!Init => LifeInv
<1> SUFFICES ASSUME L!Init PROVE LifeInv OBVIOUS
<1> USE DEF L!Init
<1>1. at = L!Startup[1] /\ Rank = 1 BY StartupRanks, StartupNames DEF Rank
<1>2. L!TypeOK
  <2>1. \E list \in {L!Startup, L!Closing} : \E i \in 1..Len(list) : at = list[i]
    BY <1>1, StartupRanks
  <2>2. made \subseteq L!Resources BY LifeResources DEF LifeThings
  <2> QED BY <2>1, <2>2 DEF L!TypeOK
<1>3. LifeMade
  <2>1. \A r \in made : r # "log" => Rank <= LifeEnd[r]
    BY <1>1, LifeResources DEF LifeThings
  <2> QED BY <2>1 DEF LifeMade
<1> QED BY <1>1, <1>2, <1>3 DEF LifeInv, LifeJoined, LifeFailed, LifeEnded

\* A step of the start that succeeds.
LEMMA LifePasses ==
  ASSUME LifeInv, NEW k \in 1..13, NEW starts, NEW makes, L!Passes(L!Startup[k], starts, makes),
         starts \subseteq L!Threads, makes \subseteq LifeThings,
         "slots" \in makes => "hls" \in starts,
         k = 3 /\ config.daemon => "pidfile" \in makes,
         k = 11 /\ config.scam => "ring" \in makes
  PROVE  LifeInv'
<1> USE DEF LifeInv
<1>1. /\ at = L!Startup[k] /\ at' = L!Startup[k + 1] /\ exitcode = "none"
      /\ alive' = alive \cup starts /\ made' = made \cup makes
      /\ UNCHANGED <<config, told, released, timedout, why, failed_at, exitcode>>
  BY NextRank DEF L!Passes
<1>2. Rank = k /\ Rank' = k + 1 BY <1>1, StartupRanks DEF Rank
<1>3. L!TypeOK'
  <2>1. k + 1 \in 1..Len(L!Startup) BY StartupRanks
  <2>2. \E list \in {L!Startup, L!Closing} : \E i \in 1..Len(list) : at' = list[i]
    BY <1>1, <2>1
  <2>3. (\E list \in {L!Startup, L!Closing} : \E i \in 1..Len(list) : at = list[i])'
    BY <2>2 DEF L!Startup, L!Closing
  <2> QED BY <1>1, <2>3, LifeResources DEF L!TypeOK
<1>4. LifeJoined' BY <1>1, <1>2 DEF LifeJoined
<1>5. LifeMade'
  <2>1. made' \subseteq LifeThings /\ released \subseteq LifeThings
    BY <1>1, LifeResources DEF L!TypeOK
  <2>2. released' = {}
    <3>1. ASSUME NEW r \in released PROVE FALSE
      <4>1. Rank > LifeEnd[r] /\ LifeEnd[r] \in 16..27 BY <2>1, LifeResources DEF LifeMade
      <4> QED BY <1>2, <4>1
    <3> QED BY <1>1, <3>1
  <2>3. ASSUME NEW r \in made', r # "log" PROVE Rank' <= LifeEnd[r]
    <3>1. LifeEnd[r] \in 16..27 BY <2>1, LifeResources
    <3> QED BY <1>2, <3>1
  <2> QED BY <1>1, <2>2, <2>3 DEF LifeMade
<1>6. LifeFailed' BY <1>1, <1>2 DEF LifeFailed
<1>7. LifeEnded' BY <1>1 DEF LifeEnded
<1> QED BY <1>3, <1>4, <1>5, <1>6, <1>7

\* A step of the end that gets through.
LEMMA LifeCloses ==
  ASSUME LifeInv, NEW k \in 1..13, NEW stopping, NEW releases,
         L!Closes(L!Closing[k], stopping, releases), alive' = alive,
         timedout \subseteq timedout', timedout' \subseteq L!Threads,
         stopping \subseteq L!Threads, "hls" \in stopping => k >= 4,
         \A r \in releases : r \in LifeThings /\ LifeEnd[r] = 14 + k,
         \A r \in made : r # "log" /\ LifeEnd[r] = 14 + k => r \in releases,
         k = 1 /\ "strength" \in alive => "strength" \in timedout',
         k = 3 /\ "monitor" \in alive => "monitor" \in timedout',
         k = 6 => "scam" \notin alive,
         k = 8 => "cam" \notin alive
  PROVE  LifeInv'
<1> USE DEF LifeInv
<1>1. /\ at = L!Closing[k] /\ at' = L!Closing[k + 1] /\ exitcode = "none"
      /\ told' = told \cup stopping
      /\ released' = released \cup (releases \cap made) /\ made' = made \ releases
      /\ UNCHANGED <<config, why, failed_at, exitcode>>
  BY NextRank DEF L!Closes
<1>2. Rank = 14 + k /\ Rank' = 15 + k BY <1>1, ClosingRanks DEF Rank
<1>3. L!TypeOK'
  <2>1. k + 1 \in 1..Len(L!Closing) BY ClosingRanks
  <2>2. \E list \in {L!Startup, L!Closing} : \E i \in 1..Len(list) : at' = list[i]
    BY <1>1, <2>1
  <2>3. (\E list \in {L!Startup, L!Closing} : \E i \in 1..Len(list) : at = list[i])'
    BY <2>2 DEF L!Startup, L!Closing
  <2> QED BY <1>1, <2>3 DEF L!TypeOK
<1>4. LifeJoined' BY <1>1, <1>2 DEF LifeJoined
<1>5. LifeMade'
  <2>1. made \subseteq LifeThings /\ released \subseteq LifeThings
    BY LifeResources DEF L!TypeOK
  <2>2. ASSUME NEW r \in made', r # "log" PROVE Rank' <= LifeEnd[r]
    <3>1. LifeEnd[r] \in 16..27 BY <1>1, <2>1, LifeResources
    <3>2. Rank <= LifeEnd[r] /\ LifeEnd[r] # 14 + k BY <1>1, <2>2 DEF LifeMade
    <3> QED BY <1>2, <3>1, <3>2
  <2>3. ASSUME NEW r \in released' PROVE Rank' > LifeEnd[r]
    <3>1. LifeEnd[r] \in 16..27 BY <1>1, <2>1, LifeResources
    <3>2. r \in releases \/ Rank > LifeEnd[r] BY <1>1, <2>3 DEF LifeMade
    <3> QED BY <1>2, <3>1, <3>2
  <2>4. "slots" \in made' => "hls" \in alive' BY <1>1 DEF LifeMade
  <2> QED BY <1>1, <2>2, <2>3, <2>4 DEF LifeMade
<1>6. LifeFailed'
  <2>1. "pidfile" \in releases => k = 12 BY DEF LifeEnd
  <2>2. "ring" \in releases => k = 6 BY DEF LifeEnd
  <2> QED BY <1>1, <1>2, <2>1, <2>2 DEF LifeFailed
<1>7. LifeEnded' BY <1>1 DEF LifeEnded
<1> QED BY <1>3, <1>4, <1>5, <1>6, <1>7

LEMMA LifeStart == ASSUME LifeInv, L!Start PROVE LifeInv'
<1> USE StartupNames, LifeResources DEF LifeThings, L!If
<1>1. CASE L!ReadConfig \/ L!Tune
  <2>1. L!Passes(L!Startup[1], {}, {}) \/ L!Passes(L!Startup[4], {}, {})
    BY <1>1 DEF L!ReadConfig, L!Tune
  <2> QED BY <2>1, LifePasses
<1>2. CASE L!CreateLists
  <2>1. PICK created \in BOOLEAN : L!Passes(L!Startup[2], {}, L!If(created, {"lists"}))
    BY <1>2 DEF L!CreateLists
  <2> QED BY <2>1, LifePasses
<1>3. CASE L!Open
  <2>1. L!Passes(L!Startup[3], {}, {"fds"} \cup L!If(config.daemon, {"pidfile"}))
    BY <1>3 DEF L!Open
  <2> QED BY <2>1, LifePasses
<1>4. CASE L!StartStrength
  <2>1. L!Passes(L!Startup[5], {"strength"}, L!If(config.threaded, {"mutex"}))
    BY <1>4 DEF L!StartStrength
  <2> QED BY <2>1, LifePasses
<1>5. CASE L!StartMonitor
  <2>1. L!Passes(L!Startup[6], {"monitor"}, {}) BY <1>5 DEF L!StartMonitor
  <2> QED BY <2>1, LifePasses
<1>6. CASE L!StartHls
  <2>1. L!Passes(L!Startup[7], L!If(config.hls, {"hls"}), L!If(config.hls, {"slots", "dirs"}))
    BY <1>6 DEF L!StartHls
  <2> QED BY <2>1, LifePasses
<1>7. CASE L!StartGetcw
  <2>1. L!Passes(L!Startup[8], L!If(config.scam, {"getcw"}), {}) BY <1>7 DEF L!StartGetcw
  <2> QED BY <2>1, LifePasses
<1>8. CASE L!StartCam
  <2>1. PICK started \in BOOLEAN :
           L!Passes(L!Startup[9], L!If(config.cam /\ started, {"cam"}),
                    L!If(config.cam /\ started, {"session"}))
    BY <1>8 DEF L!StartCam
  <2> QED BY <2>1, LifePasses
<1>9. CASE L!InitTables
  <2>1. L!Passes(L!Startup[10], {}, {"tables", "pmt"}) BY <1>9 DEF L!InitTables
  <2> QED BY <2>1, LifePasses
<1>10. CASE L!UpdateNet
  <2>1. L!Passes(L!Startup[11], L!If(config.scam, {"scam"}),
                 {"sockets"} \cup L!If(config.scam, {"ring"}))
    BY <1>10 DEF L!UpdateNet
  <2> QED BY <2>1, LifePasses
<1>11. CASE L!InitSap
  <2>1. L!Passes(L!Startup[12], {}, L!If(config.sap, {"sap"})) BY <1>11 DEF L!InitSap
  <2> QED BY <2>1, LifePasses
<1>12. CASE L!StartCard
  <2>1. L!Passes(L!Startup[13], L!If(config.threaded, {"card"}), {"buffers"})
    BY <1>12 DEF L!StartCard
  <2> QED BY <2>1, LifePasses
<1> QED BY <1>1, <1>2, <1>3, <1>4, <1>5, <1>6, <1>7, <1>8, <1>9, <1>10, <1>11, <1>12 DEF L!Start

\* The loop ends, or a step of the start fails: the closing begins.
LEMMA LifeBegins ==
  ASSUME LifeInv, NEW k \in 1..14, at = L!Startup[k], at' = L!Closing[1], exitcode = "none",
         UNCHANGED <<config, alive, told, released, timedout, exitcode>>,
         made' \in {made, made \ {"fds"}},
         why' = IF why = "no" THEN why' ELSE why, why' \in {"no", "signal", "error"},
         failed_at' \notin {"none", "hls"} => why' # "no",
         failed_at' = "none" => k = 14,
         failed_at' \notin {"none", "config", "open"} => k >= 4,
         failed_at' \notin {"none", "config", "open", "tune", "hls", "tables"} => k >= 12
  PROVE  LifeInv'
<1> USE DEF LifeInv
<1>1. Rank = k /\ Rank' = 15 BY StartupRanks, ClosingRanks DEF Rank
<1>2. L!TypeOK'
  <2>1. \E list \in {L!Startup, L!Closing} : \E i \in 1..Len(list) : at' = list[i]
    <3>1. 1 \in 1..Len(L!Closing) BY ClosingRanks
    <3> QED BY <3>1
  <2>2. (\E list \in {L!Startup, L!Closing} : \E i \in 1..Len(list) : at = list[i])'
    BY <2>1 DEF L!Startup, L!Closing
  <2> QED BY <2>2 DEF L!TypeOK
<1>3. LifeJoined' BY <1>1 DEF LifeJoined
<1>4. LifeMade'
  <2>1. made \subseteq LifeThings /\ released \subseteq LifeThings
    BY LifeResources DEF L!TypeOK
  <2>2. ASSUME NEW r \in made' PROVE Rank' <= LifeEnd[r]
    BY <1>1, <2>1, LifeResources
  <2>3. released' = {}
    <3>1. ASSUME NEW r \in released PROVE FALSE
      <4>1. Rank > LifeEnd[r] /\ LifeEnd[r] \in 16..27 BY <2>1, LifeResources DEF LifeMade
      <4> QED BY <1>1, <4>1
    <3> QED BY <3>1
  <2> QED BY <2>2, <2>3 DEF LifeMade
<1>5. LifeFailed' BY <1>1 DEF LifeFailed
<1>6. LifeEnded' BY DEF LifeEnded
<1> QED BY <1>2, <1>3, <1>4, <1>5, <1>6

LEMMA LifeFails ==
  ASSUME LifeInv, NEW step, L!Fails(step) PROVE LifeInv'
<1> DEFINE c == L!Closing[1]
<1>1. /\ at = step /\ exitcode = "none" /\ at' = c /\ failed_at' = step
      /\ step = "hls" => UNCHANGED why
      /\ step # "hls" => why' = IF why = "no" THEN "error" ELSE why
      /\ made' \in {made, made \ {"fds"}}
      /\ UNCHANGED <<config, alive, told, released, timedout, exitcode>>
      /\ step \in {"config", "open", "tune", "hls", "tables", "sap"}
  BY DEF L!Fails, L!Interrupt
<1>2. why \in {"no", "signal", "error"} BY DEF LifeInv, L!TypeOK
<1>3. PICK k \in {1, 3, 4, 7, 10, 12} : L!Startup[k] = step /\ (step = "config" => k = 1)
                /\ (step = "open" => k = 3) /\ (step = "tune" => k = 4) /\ (step = "hls" => k = 7)
                /\ (step = "tables" => k = 10) /\ (step = "sap" => k = 12)
  BY <1>1, StartupNames
<1>4. /\ why' = (IF why = "no" THEN why' ELSE why) /\ why' \in {"no", "signal", "error"}
      /\ failed_at' \notin {"none", "hls"} => why' # "no"
  BY <1>1, <1>2
<1>5. /\ failed_at' = "none" => k = 14
      /\ failed_at' \notin {"none", "config", "open"} => k >= 4
      /\ failed_at' \notin {"none", "config", "open", "tune", "hls", "tables"} => k >= 12
  BY <1>1, <1>3
<1>6. k \in 1..14 BY <1>3
<1> QED BY <1>1, <1>3, <1>4, <1>5, <1>6, LifeBegins

LEMMA LifeLoopEnds == ASSUME LifeInv, L!LoopEnds PROVE LifeInv'
<1>1. /\ at = L!Startup[14] /\ exitcode = "none" /\ at' = L!Closing[1]
      /\ UNCHANGED <<config, alive, told, made, released, timedout, why, failed_at, exitcode>>
  BY StartupNames DEF L!LoopEnds
<1>2. failed_at = "none"
  <2>1. Rank = 14 BY <1>1, StartupRanks DEF Rank
  <2> QED BY <2>1 DEF LifeInv, LifeFailed
<1>3. why \in {"no", "signal", "error"} BY DEF LifeInv, L!TypeOK
<1> QED BY <1>1, <1>2, <1>3, LifeBegins

\* What leaves the place, the things and the failure alone.
LEMMA LifeStays ==
  ASSUME LifeInv, UNCHANGED <<config, at, made, released, failed_at, timedout>>, L!TypeOK',
         told \subseteq told', "hls" \in told' => "hls" \in told \/ Rank > 18,
         alive' \subseteq alive, why # "no" => why' = why,
         exitcode' = "none" /\ "hls" \in alive => "hls" \in alive' \/ "slots" \notin made,
         \/ exitcode' = exitcode
         \/ /\ exitcode = "none" /\ exitcode' \notin {"0", "error"} /\ alive' = {}
            /\ exitcode' = "ERROR_DEL_FILE" =>
                   failed_at = "config" \/ (config.daemon /\ failed_at = "open")
            /\ exitcode' = "crash" =>
                   config.scam /\ failed_at \in {"config", "open", "tune", "hls", "tables"},
         exitcode' = "0" => why' = why
  PROVE  LifeInv'
<1> USE DEF LifeInv
<1>1. Rank' = Rank BY DEF Rank
<1>2. LifeJoined' BY <1>1 DEF LifeJoined
<1>3. LifeMade' BY <1>1 DEF LifeMade
<1>4. LifeFailed' BY <1>1 DEF LifeFailed
<1>5. LifeEnded' BY <1>1 DEF LifeEnded
<1> QED BY <1>2, <1>3, <1>4, <1>5

\* What TypeOK says of the place is not changed with it.
LEMMA LifePlace ==
  ASSUME L!TypeOK, at' = at
  PROVE  (\E list \in {L!Startup, L!Closing} : \E i \in 1..Len(list) : at = list[i])'
<1>1. \E list \in {L!Startup, L!Closing} : \E i \in 1..Len(list) : at' = list[i]
  BY DEF L!TypeOK
<1> QED BY <1>1 DEF L!Startup, L!Closing

LEMMA LifeSignal == ASSUME LifeInv, L!Signal PROVE LifeInv'
<1>1. L!TypeOK BY DEF LifeInv
<1>2. /\ exitcode = "none" /\ UNCHANGED <<config, at, told, made, released, timedout, failed_at>>
      /\ \/ /\ exitcode' \in {"killed", "ERROR_TUNE"} /\ alive' = {} /\ UNCHANGED why
         \/ /\ why' = (IF why = "no" THEN "signal" ELSE why) /\ UNCHANGED <<alive, exitcode>>
  BY DEF L!Signal, L!If, L!Interrupt
<1>3. L!TypeOK'
  <2>1. (\E list \in {L!Startup, L!Closing} : \E i \in 1..Len(list) : at = list[i])'
    BY <1>1, <1>2, LifePlace
  <2> QED BY <1>1, <1>2, <2>1 DEF L!TypeOK
<1> QED BY <1>2, <1>3, LifeStays

LEMMA LifeError == ASSUME LifeInv, L!Error PROVE LifeInv'
<1>1. L!TypeOK BY DEF LifeInv
<1>2. /\ exitcode = "none" /\ why' = (IF why = "no" THEN "error" ELSE why)
      /\ UNCHANGED <<config, at, alive, told, made, released, timedout, failed_at, exitcode>>
  BY DEF L!Error, L!Interrupt
<1>3. L!TypeOK'
  <2>1. (\E list \in {L!Startup, L!Closing} : \E i \in 1..Len(list) : at = list[i])'
    BY <1>1, <1>2, LifePlace
  <2> QED BY <1>1, <1>2, <2>1 DEF L!TypeOK
<1> QED BY <1>2, <1>3, LifeStays

LEMMA LifeThreadEnds == ASSUME LifeInv, NEW t \in L!Threads, L!ThreadEnds(t) PROVE LifeInv'
<1>1. L!TypeOK BY DEF LifeInv
<1>2. /\ t \in alive /\ (t \in told \/ t = "card") /\ alive' = alive \ {t}
      /\ UNCHANGED <<config, at, told, made, released, timedout, why, failed_at, exitcode>>
  BY DEF L!ThreadEnds
<1>3. L!TypeOK'
  <2>1. (\E list \in {L!Startup, L!Closing} : \E i \in 1..Len(list) : at = list[i])'
    BY <1>1, <1>2, LifePlace
  <2> QED BY <1>1, <1>2, <2>1 DEF L!TypeOK
<1>4. t = "hls" => "slots" \notin made
  <2>1. t = "hls" => Rank > 18 BY <1>2 DEF LifeInv, LifeJoined
  <2>2. "slots" \in made => Rank <= 18 BY DEF LifeInv, LifeMade, LifeEnd
  <2>3. Rank \in 1..28
    BY <1>1, StartupRanks, ClosingRanks, StepRanks DEF L!TypeOK, Rank
  <2> QED BY <2>1, <2>2, <2>3
<1> QED BY <1>2, <1>3, <1>4, LifeStays

LEMMA LifeTells == ASSUME LifeInv, NEW t \in L!Threads, L!Tells(t) PROVE LifeInv'
<1>1. L!TypeOK BY DEF LifeInv
<1>2. /\ t # "hls" /\ told' = told \cup {t}
      /\ UNCHANGED <<config, at, alive, made, released, timedout, why, failed_at, exitcode>>
  BY DEF L!Tells
<1>3. L!TypeOK'
  <2>1. (\E list \in {L!Startup, L!Closing} : \E i \in 1..Len(list) : at = list[i])'
    BY <1>1, <1>2, LifePlace
  <2> QED BY <1>1, <1>2, <2>1 DEF L!TypeOK
<1> QED BY <1>2, <1>3, LifeStays

\* The two ways the closing ends before its time
LEMMA LifeBreaks ==
  ASSUME LifeInv, exitcode = "none", exitcode' \in {"crash", "ERROR_DEL_FILE"}, alive' = {},
         UNCHANGED <<config, at, told, made, released, timedout, why, failed_at>>,
         exitcode' = "ERROR_DEL_FILE" =>
             failed_at = "config" \/ (config.daemon /\ failed_at = "open"),
         exitcode' = "crash" =>
             config.scam /\ failed_at \in {"config", "open", "tune", "hls", "tables"}
  PROVE  LifeInv'
<1>1. L!TypeOK BY DEF LifeInv
<1>2. L!TypeOK'
  <2>1. (\E list \in {L!Startup, L!Closing} : \E i \in 1..Len(list) : at = list[i])'
    BY <1>1, LifePlace
  <2> QED BY <1>1, <2>1 DEF L!TypeOK
<1> QED BY <1>2, LifeStays

LEMMA LifeExit == ASSUME LifeInv, L!Exit PROVE LifeInv'
<1> USE DEF LifeInv
<1>1. /\ at = L!Closing[14] /\ exitcode = "none"
      /\ exitcode' = (IF why = "error" THEN "error" ELSE "0")
      /\ released' = released \cup {"log"} /\ made' = made \ {"log"}
      /\ UNCHANGED <<config, at, alive, told, timedout, why, failed_at>>
  BY ClosingNames DEF L!Exit
<1>2. Rank = 28 /\ Rank' = 28 BY <1>1, ClosingRanks DEF Rank
<1>3. made \subseteq LifeThings /\ released \subseteq LifeThings BY LifeResources DEF L!TypeOK
<1>4. L!TypeOK'
  <2>1. (\E list \in {L!Startup, L!Closing} : \E i \in 1..Len(list) : at = list[i])'
    BY <1>1, LifePlace
  <2>2. "log" \in L!Resources BY LifeResources DEF LifeThings
  <2> QED BY <1>1, <2>1, <2>2 DEF L!TypeOK
<1>5. made' = {}
  <2>1. ASSUME NEW r \in made, r # "log" PROVE FALSE
    <3>1. LifeEnd[r] \in 16..27 BY <1>3, LifeResources
    <3> QED BY <1>2, <2>1, <3>1 DEF LifeMade
  <2> QED BY <1>1, <2>1
<1>6. LifeMade'
  <2>1. ASSUME NEW r \in released' PROVE Rank' > LifeEnd[r]
    <3>1. r \in LifeThings BY <1>1, <1>3, <2>1 DEF LifeThings
    <3> QED BY <1>2, <3>1, LifeResources
  <2> QED BY <1>5, <2>1 DEF LifeMade
<1>7. LifeJoined' BY <1>1, <1>2 DEF LifeJoined
<1>8. LifeFailed' BY <1>1, <1>2 DEF LifeFailed
<1>9. LifeEnded' BY <1>1, <1>2 DEF LifeEnded
<1> QED BY <1>4, <1>6, <1>7, <1>8, <1>9

\* A step of the closing that gets through, and what it releases
LEMMA LifeCloseEach ==
  ASSUME LifeInv, NEW k \in 1..13, NEW stopping, NEW releases,
         L!Closes(L!Closing[k], stopping, releases), UNCHANGED alive,
         \/ UNCHANGED timedout
         \/ \E t \in L!Threads : timedout' = timedout \cup ({t} \cap alive),
         stopping \subseteq L!Threads, "hls" \in stopping => k >= 4,
         releases = {r \in LifeThings : LifeEnd[r] = 14 + k} \ {"log"}
             \/ (k = 4 /\ releases = L!If("hls" \in alive, {"slots"})),
         k = 1 /\ "strength" \in alive => "strength" \in timedout',
         k = 3 /\ "monitor" \in alive => "monitor" \in timedout',
         k = 6 => "scam" \notin alive,
         k = 8 => "cam" \notin alive
  PROVE  LifeInv'
<1>1. made \subseteq LifeThings /\ timedout \subseteq L!Threads
  BY LifeResources DEF LifeInv, L!TypeOK
<1>2. \A r \in releases : r \in LifeThings /\ LifeEnd[r] = 14 + k
  BY DEF L!If, LifeThings, LifeEnd
<1>3. ASSUME NEW r \in made, r # "log", LifeEnd[r] = 14 + k PROVE r \in releases
  <2>1. CASE releases = {q \in LifeThings : LifeEnd[q] = 14 + k} \ {"log"}
    BY <1>1, <1>3, <2>1
  <2>2. CASE k = 4 /\ releases = L!If("hls" \in alive, {"slots"})
    <3>1. LifeEnd[r] = 18 /\ r \in LifeThings BY <1>1, <1>3, <2>2
    <3>2. r = "slots" BY <3>1 DEF LifeEnd, LifeThings
    <3>3. "hls" \in alive BY <3>2, <1>3 DEF LifeInv, LifeMade, L!Closes
    <3> QED BY <2>2, <3>2, <3>3 DEF L!If
  <2> QED BY <2>1, <2>2
<1>4. timedout \subseteq timedout' /\ timedout' \subseteq L!Threads BY <1>1
<1> QED BY <1>2, <1>3, <1>4, LifeCloses

\* What each step of the closing releases
LifeReleases(k) == {r \in LifeThings : LifeEnd[r] = 14 + k} \ {"log"}
LEMMA LifeAllReleases ==
  /\ LifeReleases(1) = {} /\ LifeReleases(2) = {"mutex"} /\ LifeReleases(3) = {}
  /\ LifeReleases(5) = {"sockets", "pmt"} /\ LifeReleases(6) = {"ring"}
  /\ LifeReleases(7) = {"fds", "clients"} /\ LifeReleases(8) = {"session"}
  /\ LifeReleases(9) = {} /\ LifeReleases(10) = {"tables", "sap"}
  /\ LifeReleases(11) = {"lists"} /\ LifeReleases(12) = {"pidfile"}
  /\ LifeReleases(13) = {"buffers", "dirs"}
BY DEF LifeReleases, LifeThings, LifeEnd

LEMMA LifeCloseStep == ASSUME LifeInv, L!Close PROVE LifeInv'
<1> USE ClosingNames, LifeAllReleases DEF LifeReleases
<1>1. {"strength", "monitor", "hls", "card", "cam", "getcw", "scam"} \subseteq L!Threads
  BY LifeResources
<1>2. CASE L!JoinStrength
  <2>1. /\ L!Closes(L!Closing[1], {"strength"} \cap alive, {}) /\ UNCHANGED alive
        /\ timedout' = timedout \cup ({"strength"} \cap alive)
    BY <1>2 DEF L!JoinStrength, L!TimedJoin
  <2> QED BY <1>1, <2>1, LifeCloseEach
<1>3. CASE L!JoinMonitor
  <2>1. /\ L!Closes(L!Closing[3], {"monitor"} \cap alive, {}) /\ UNCHANGED alive
        /\ timedout' = timedout \cup ({"monitor"} \cap alive)
    BY <1>3 DEF L!JoinMonitor, L!TimedJoin
  <2> QED BY <1>1, <2>1, LifeCloseEach
<1>4. CASE L!StopCard
  <2>1. L!Closes(L!Closing[2], {"card"} \cap alive, {"mutex"}) /\ UNCHANGED <<alive, timedout>>
    BY <1>4 DEF L!StopCard
  <2> QED BY <1>1, <2>1, LifeCloseEach
<1>5. CASE L!StopHls
  <2>1. /\ L!Closes(L!Closing[4], {"hls"} \cap alive, L!If("hls" \in alive, {"slots"}))
        /\ UNCHANGED <<alive, timedout>>
    BY <1>5 DEF L!StopHls
  <2> QED BY <1>1, <2>1, LifeCloseEach
<1>6. CASE L!CloseSockets
  <2>1. L!Closes(L!Closing[5], {}, {"sockets", "pmt"}) /\ UNCHANGED <<alive, timedout>>
    BY <1>6 DEF L!CloseSockets
  <2> QED BY <2>1, LifeCloseEach
<1>7. CASE L!FreeRing
  <2>1. /\ "scam" \notin alive /\ L!Closes(L!Closing[6], {}, {"ring"})
        /\ UNCHANGED <<alive, timedout>>
    BY <1>7 DEF L!FreeRing, L!Unjoined
  <2> QED BY <2>1, LifeCloseEach
<1>8. CASE L!CloseFds
  <2>1. L!Closes(L!Closing[7], {}, {"fds", "clients"}) /\ UNCHANGED <<alive, timedout>>
    BY <1>8 DEF L!CloseFds
  <2> QED BY <2>1, LifeCloseEach
<1>9. CASE L!StopCam
  <2>1. /\ "cam" \notin alive /\ L!Closes(L!Closing[8], {}, {"session"})
        /\ UNCHANGED <<alive, timedout>>
    BY <1>9 DEF L!StopCam, L!Unjoined
  <2> QED BY <2>1, LifeCloseEach
<1>10. CASE L!StopGetcw
  <2>1. L!Closes(L!Closing[9], {"getcw"} \cap alive, {}) /\ UNCHANGED <<alive, timedout>>
    BY <1>10 DEF L!StopGetcw
  <2> QED BY <1>1, <2>1, LifeCloseEach
<1>11. CASE L!FreeTables
  <2>1. L!Closes(L!Closing[10], {}, {"tables", "sap"}) /\ UNCHANGED <<alive, timedout>>
    BY <1>11 DEF L!FreeTables
  <2> QED BY <2>1, LifeCloseEach
<1>12. CASE L!FreeBuffers
  <2>1. L!Closes(L!Closing[13], {}, {"buffers", "dirs"}) /\ UNCHANGED <<alive, timedout>>
    BY <1>12 DEF L!FreeBuffers
  <2> QED BY <2>1, LifeCloseEach
<1>13. CASE L!FreeNoRing
  <2>1. /\ at = L!Closing[6] /\ exitcode = "none" /\ config.scam /\ "ring" \notin made
        /\ exitcode' = "crash" /\ alive' = {}
        /\ UNCHANGED <<config, at, told, made, released, timedout, why, failed_at>>
    BY <1>13 DEF L!FreeNoRing
  <2>2. Rank = 20 BY <2>1, ClosingRanks DEF Rank
  <2>3. failed_at \in {"config", "open", "tune", "hls", "tables"}
    BY <2>1, <2>2 DEF LifeInv, LifeFailed
  <2> QED BY <2>1, <2>3, LifeBreaks
<1>14. CASE L!RemoveLists
  <2>1. PICK garbage \in BOOLEAN :
           L!Removes("remove_lists", "lists", failed_at = "config" /\ garbage)
    BY <1>14 DEF L!RemoveLists
  <2>2. CASE failed_at = "config" /\ garbage /\ "lists" \notin made
    BY <2>1, <2>2, LifeBreaks DEF L!Removes
  <2>3. CASE ~(failed_at = "config" /\ garbage /\ "lists" \notin made)
    <3>1. L!Closes(L!Closing[11], {}, {"lists"}) /\ UNCHANGED <<alive, timedout>>
      BY <2>1, <2>3 DEF L!Removes
    <3> QED BY <3>1, LifeCloseEach
  <2> QED BY <2>2, <2>3
<1>15. CASE L!RemovePid
  <2>1. L!Removes("remove_pid", "pidfile", config.daemon) BY <1>15 DEF L!RemovePid
  <2>2. CASE config.daemon /\ "pidfile" \notin made
    <3>1. /\ at = L!Closing[12] /\ exitcode = "none"
          /\ exitcode' = "ERROR_DEL_FILE" /\ alive' = {}
          /\ UNCHANGED <<config, at, told, made, released, timedout, why, failed_at>>
      BY <2>1, <2>2 DEF L!Removes
    <3>2. Rank = 26 BY <3>1, ClosingRanks DEF Rank
    <3>3. failed_at \in {"config", "open"} BY <2>2, <3>2 DEF LifeInv, LifeFailed
    <3> QED BY <2>2, <3>1, <3>3, LifeBreaks
  <2>3. CASE ~(config.daemon /\ "pidfile" \notin made)
    <3>1. L!Closes(L!Closing[12], {}, {"pidfile"}) /\ UNCHANGED <<alive, timedout>>
      BY <2>1, <2>3 DEF L!Removes
    <3> QED BY <3>1, LifeCloseEach
  <2> QED BY <2>2, <2>3
<1> QED
  BY <1>2, <1>3, <1>4, <1>5, <1>6, <1>7, <1>8, <1>9, <1>10, <1>11, <1>12, <1>13, <1>14, <1>15,
     LifeTells, LifeExit
  DEF L!Close

LEMMA LifeStep == LifeInv /\ (L!Next \/ UNCHANGED lcVars) => LifeInv'
<1> SUFFICES ASSUME LifeInv, L!Next \/ UNCHANGED lcVars PROVE LifeInv' OBVIOUS
<1>1. CASE UNCHANGED lcVars
  <2>1. /\ UNCHANGED <<config, at, alive, told, made, released, timedout, why, failed_at, exitcode>>
        /\ L!TypeOK
    BY <1>1 DEF lcVars, LifeInv
  <2>2. (\E list \in {L!Startup, L!Closing} : \E i \in 1..Len(list) : at = list[i])'
    BY <2>1, LifePlace
  <2>3. L!TypeOK' BY <2>1, <2>2 DEF L!TypeOK
  <2> QED BY <2>1, <2>3, LifeStays
<1> QED
  BY <1>1, LifeStart, LifeFails, LifeSignal, LifeError, LifeLoopEnds, LifeCloseStep, LifeThreadEnds
  DEF L!Next

-----------------------------------------------------------------------------
(* CamMenu                                                                  *)

\* A digit that is treated has room, whatever the module asks or closes meanwhile.
MenuInv == Menu!TypeOK /\ Menu!EnquiryFits /\ (key = "digit" => mmi_enq_entered < mmi_enq_length)

LEMMA MenuInitial == Menu!Init => MenuInv
BY DEF Menu!Init, MenuInv, Menu!TypeOK, Menu!EnquiryFits, Menu!Branches

LEMMA MenuStep == MenuInv /\ (Menu!Next \/ UNCHANGED menuVars) => MenuInv'
<1> SUFFICES ASSUME MenuInv, Menu!Next \/ UNCHANGED menuVars PROVE MenuInv' OBVIOUS
<1> USE MenuLengths DEF MenuInv, Menu!TypeOK, Menu!EnquiryFits, Menu!MenuAssumption, Menu!Branches
<1>1. CASE UNCHANGED menuVars BY <1>1 DEF menuVars
<1>2. CASE Menu!Menu \/ Menu!DisplayControl \/ Menu!Close
  BY <1>2 DEF Menu!Menu, Menu!DisplayControl, Menu!Close, Menu!Waits
<1>3. CASE Menu!Enquiry BY <1>3 DEF Menu!Enquiry, Menu!Waits
<1>4. ASSUME NEW branch \in Menu!Branches, Menu!Key(branch) PROVE MenuInv'
  BY <1>4 DEF Menu!Key
<1>5. CASE Menu!KeySent BY <1>5 DEF Menu!KeySent
<1> QED BY <1>1, <1>2, <1>3, <1>4, <1>5 DEF Menu!Next

-----------------------------------------------------------------------------
(* Cam                                                                      *)

\* Each reset gave the module its interval, and came before its CA info.
CamResets ==
    /\ \A r \in resets : r <= seconds /\ timeout_no_cam_init >= r + reset_interval
    /\ IsFiniteSet(resets) /\ Cardinality(resets) = reset_counts
    /\ camthread = "off" => resets = {} /\ cam_interrupted = "no"

\* A channel in trouble before the last check was looked at then.
CamChecked ==
    /\ last_channel_check <= seconds
    /\ \A c \in CamChannels : bad[c] <= seconds
    /\ \A c \in CamChannels : asked[c].need = "ASKED" =>
         /\ ca_resource_connected /\ asked[c].time <= seconds
         /\ bad[c] # -1 /\ bad[c] < last_channel_check =>
                asked[c].time + cam_reask_interval >= last_channel_check
    /\ cam_reask_interval > 0 /\ polled /\ ca_resource_connected =>
           seconds <= last_channel_check + 2

LEMMA SameCardinality == ASSUME NEW S PROVE C!Cardinality(S) = Cardinality(S)
BY DEF C!Cardinality, Cardinality

CamInv == C!TypeOK /\ CamResets /\ CamChecked /\ C!NotGivenUpEarly

LEMMA CamInitial == C!Init => CamInv
<1> SUFFICES ASSUME C!Init PROVE CamInv OBVIOUS
<1> USE CamConfigured DEF C!CamAssumption, C!Init
<1>1. C!TypeOK
  <2>1. asked \in [CamChannels -> [need : {"NEED_ASK", "NEED_UPDATE", "ASKED"}, time : 0..MaxNow]]
    OBVIOUS
  <2>2. bad \in [CamChannels -> -1..MaxNow] OBVIOUS
  <2>3. /\ seconds \in 0..MaxNow /\ ca_info_ok_time \in -1..MaxNow
        /\ timeout_no_cam_init \in 0..MaxNow + reset_interval /\ reset_counts \in 0..max_reset_number
        /\ last_channel_check \in 0..MaxNow /\ cam_pmt_send_time \in 0..MaxNow
    OBVIOUS
  <2>4. /\ camthread \in {"off", "running", "stopped"} /\ cam_type \in {"link", "hlci"}
        /\ polled \in BOOLEAN /\ ca_resource_connected \in BOOLEAN
        /\ cam_interrupted \in {"no", "ERROR_CAM", "ERROR_NO_CAM_INIT"} /\ resets \subseteq 0..MaxNow
    OBVIOUS
  <2> QED BY <2>1, <2>2, <2>3, <2>4 DEF C!TypeOK
<1>2. CamResets BY FS_EmptySet DEF CamResets
<1>3. CamChecked BY DEF CamChecked
<1>4. C!NotGivenUpEarly BY DEF C!NotGivenUpEarly, C!GivenUp
<1> QED BY <1>1, <1>2, <1>3, <1>4 DEF CamInv

LEMMA CamRoundTypes == ASSUME CamInv, C!Round PROVE C!TypeOK'
<1> USE CamConfigured DEF C!CamAssumption
<1>1. C!TypeOK BY DEF CamInv
<1>2. asked' \in [CamChannels -> [need : {"NEED_ASK", "NEED_UPDATE", "ASKED"}, time : 0..MaxNow]]
  <2>1. CASE C!Checks(ca_resource_connected') BY <1>1, <2>1 DEF C!Round, C!TypeOK
  <2>2. CASE ~C!Checks(ca_resource_connected') BY <1>1, <2>2 DEF C!Round, C!TypeOK
  <2> QED BY <2>1, <2>2
<1>3. last_channel_check' \in 0..MaxNow /\ ca_info_ok_time' \in -1..MaxNow
  BY <1>1 DEF C!Round, C!TypeOK, C!Poll
<1>4. PICK info \in BOOLEAN : C!ResetCheck(info /\ ca_resource_connected')
  BY DEF C!Round
<1>5. /\ timeout_no_cam_init' \in 0..MaxNow + reset_interval
      /\ reset_counts' \in 0..max_reset_number /\ resets' \subseteq 0..MaxNow
  BY <1>1, <1>4 DEF C!ResetCheck, C!TypeOK, C!TimeAfterReset
<1>6. cam_interrupted' \in {"no", "ERROR_CAM", "ERROR_NO_CAM_INIT"}
  BY <1>1, <1>4 DEF C!ResetCheck, C!TypeOK
<1>7. /\ ca_resource_connected' \in BOOLEAN /\ polled' = TRUE
      /\ UNCHANGED <<camthread, cam_type, seconds, cam_pmt_send_time, bad>>
  BY DEF C!Round
<1> QED BY <1>1, <1>2, <1>3, <1>5, <1>6, <1>7 DEF C!TypeOK

\* Whether the round resets the module, and whether it gives it up
LEMMA CamRoundResets ==
  ASSUME CamInv, C!Round PROVE CamResets' /\ C!NotGivenUpEarly'
<1> USE CamConfigured DEF C!CamAssumption
<1>1. C!TypeOK /\ CamResets /\ C!NotGivenUpEarly BY DEF CamInv
<1>2. PICK info \in BOOLEAN : C!ResetCheck(info /\ ca_resource_connected')
  BY DEF C!Round
<1>3. /\ camthread = "running" /\ ca_info_ok_time' \in {ca_info_ok_time, seconds}
      /\ UNCHANGED <<camthread, cam_type, seconds>>
  BY DEF C!Round, C!Poll
<1> DEFINE silent == ca_info_ok_time' = -1 /\ seconds > timeout_no_cam_init /\ reset_interval > 0
           resetting == silent /\ cam_type = "link" /\ reset_counts < max_reset_number
<1>4. /\ seconds \in Nat /\ timeout_no_cam_init \in Nat /\ reset_counts \in 0..max_reset_number
      /\ resets \subseteq Nat /\ ca_info_ok_time \in Int
  BY <1>1 DEF C!TypeOK
<1>5. ASSUME silent, NEW r \in resets PROVE seconds > r + reset_interval
  BY <1>1, <1>4, <1>5 DEF CamResets
<1>6. CASE resetting
  <2>1. /\ timeout_no_cam_init' = seconds + reset_interval /\ reset_counts' = reset_counts + 1
        /\ resets' = resets \cup {seconds} /\ ca_info_ok_time' = -1
        /\ cam_interrupted' \in {"ERROR_CAM", cam_interrupted} /\ cam_type = "link"
        /\ reset_counts < max_reset_number
    BY <1>2, <1>6 DEF C!ResetCheck, C!TimeAfterReset
  <2>2. \A r \in resets : seconds > r + reset_interval BY <1>5, <1>6
  <2> HIDE DEF silent, resetting
  <2>3. seconds \notin resets BY <1>4, <2>2
  <2>4. IsFiniteSet(resets) /\ Cardinality(resets) = reset_counts BY <1>1 DEF CamResets
  <2>5. IsFiniteSet(resets') /\ Cardinality(resets') = reset_counts'
    BY <2>1, <2>3, <2>4, FS_AddElement
  <2>6. ASSUME NEW r \in resets'
        PROVE  r <= seconds' /\ timeout_no_cam_init' >= r + reset_interval
    <3>1. r = seconds \/ r \in resets BY <2>1
    <3>2. CASE r \in resets
      <4>1. r \in Nat /\ seconds > r + reset_interval BY <1>4, <2>2, <3>2
      <4> QED BY <1>3, <1>4, <2>1, <4>1
    <3>3. CASE r = seconds BY <1>3, <1>4, <2>1, <3>3
    <3> QED BY <3>1, <3>2, <3>3
  <2>7. CamResets' BY <1>3, <2>5, <2>6 DEF CamResets
  <2>8. cam_interrupted' # "ERROR_NO_CAM_INIT"
    <3>1. cam_interrupted = "ERROR_NO_CAM_INIT" => reset_counts = max_reset_number
      BY <1>1, <2>1, <2>4, SameCardinality DEF C!NotGivenUpEarly, C!GivenUp
    <3> QED BY <1>4, <2>1, <3>1
  <2>9. ASSUME NEW r \in resets', NEW s \in resets', r < s PROVE s > r + reset_interval
    <3>1. \A q, p \in resets : q < p => p > q + reset_interval BY <1>1 DEF C!NotGivenUpEarly
    <3>2. CASE s = seconds /\ r \in resets BY <2>2, <3>2
    <3>3. CASE s \in resets /\ r = seconds BY <1>4, <2>2, <2>9, <3>3
    <3>4. CASE s \in resets /\ r \in resets BY <2>9, <3>1, <3>4
    <3>5. CASE s = seconds /\ r = seconds BY <1>4, <2>9, <3>5
    <3> QED BY <2>1, <3>2, <3>3, <3>4, <3>5
  <2> QED BY <2>1, <2>7, <2>8, <2>9 DEF C!NotGivenUpEarly, C!GivenUp
<1>7. CASE ~resetting
  <2>1. /\ UNCHANGED <<timeout_no_cam_init, reset_counts, resets>>
        /\ cam_interrupted' = "ERROR_NO_CAM_INIT" => silent \/ cam_interrupted = "ERROR_NO_CAM_INIT"
    BY <1>2, <1>7 DEF C!ResetCheck
  <2>2. CamResets' BY <1>1, <1>3, <2>1 DEF CamResets
  <2>3. silent /\ cam_type = "link" => reset_counts = max_reset_number BY <1>4, <1>7
  <2> HIDE DEF silent, resetting
  <2>4. C!GivenUp' => silent \/ C!GivenUp BY <1>3, <2>1 DEF C!GivenUp
  <2>10. C!GivenUp' => C!Cardinality(resets') = max_reset_number
    <3>1. C!Cardinality(resets) = reset_counts BY <1>1, SameCardinality DEF CamResets
    <3>2. C!GivenUp => C!Cardinality(resets) = max_reset_number BY <1>1 DEF C!NotGivenUpEarly
    <3>3. C!GivenUp' => cam_type = "link" BY <1>3 DEF C!GivenUp
    <3> QED BY <2>1, <2>3, <2>4, <3>1, <3>2, <3>3
  <2>11. C!GivenUp' => \A r \in resets' : seconds' > r + reset_interval
    <3>1. silent => \A r \in resets : seconds > r + reset_interval BY <1>5
    <3> QED BY <1>1, <1>3, <2>1, <2>4, <3>1 DEF C!NotGivenUpEarly
  <2>5. ca_info_ok_time' # -1 => \A r \in resets' : r <= ca_info_ok_time'
    <3>1. \A r \in resets : r <= seconds BY <1>1 DEF CamResets
    <3>2. ca_info_ok_time # -1 => \A r \in resets : r <= ca_info_ok_time
      BY <1>1 DEF C!NotGivenUpEarly
    <3> QED BY <1>3, <2>1, <3>1, <3>2
  <2>6. \A r, s \in resets' : r < s => s > r + reset_interval
    BY <1>1, <2>1 DEF C!NotGivenUpEarly
  <2> QED BY <2>2, <2>10, <2>11, <2>5, <2>6 DEF C!NotGivenUpEarly
<1> QED BY <1>6, <1>7

LEMMA CamRoundChecks == ASSUME CamInv, C!Round PROVE CamChecked'
<1> USE CamConfigured DEF C!CamAssumption
<1>1. C!TypeOK /\ CamChecked BY DEF CamInv
<1>2. /\ seconds \in Nat /\ last_channel_check \in Nat /\ bad \in [CamChannels -> Int]
      /\ \A c \in CamChannels : asked[c].time \in Nat
  BY <1>1 DEF C!TypeOK
<1>3. /\ polled' = TRUE /\ ca_resource_connected' = (ca_resource_connected \/ C!Connects)
      /\ UNCHANGED <<seconds, bad>>
  BY DEF C!Round
<1>4. CASE C!Checks(ca_resource_connected')
  <2>1. /\ last_channel_check' = seconds
        /\ asked' = [c \in CamChannels |->
                       IF C!Reasked(c) THEN [need |-> "NEED_UPDATE", time |-> seconds] ELSE asked[c]]
    BY <1>4 DEF C!Round
  <2>2. ASSUME NEW c \in CamChannels, asked'[c].need = "ASKED"
        PROVE  /\ ~C!Reasked(c) /\ asked'[c] = asked[c]
    BY <2>1, <2>2
  <2>3. ca_resource_connected' BY <1>4 DEF C!Checks
  <2>4. ASSUME NEW c \in CamChannels, asked'[c].need = "ASKED"
        PROVE  /\ asked'[c].time <= seconds'
               /\ bad'[c] # -1 /\ bad'[c] < last_channel_check' =>
                      asked'[c].time + cam_reask_interval >= last_channel_check'
    <3>1. asked'[c] = asked[c] /\ asked[c].need = "ASKED" BY <2>2, <2>4
    <3>2. asked[c].time <= seconds /\ bad[c] <= seconds BY <1>1, <3>1 DEF CamChecked
    <3>3. bad[c] = -1 \/ seconds - asked[c].time <= cam_reask_interval
      BY <1>2, <2>2, <2>4, <3>1 DEF C!Reasked
    <3> QED BY <1>2, <1>3, <2>1, <3>1, <3>2, <3>3
  <2>5. last_channel_check' <= seconds' /\ seconds' <= last_channel_check' + 2
    BY <1>2, <1>3, <2>1
  <2> QED BY <1>1, <1>3, <2>3, <2>4, <2>5 DEF CamChecked
<1>5. CASE ~C!Checks(ca_resource_connected')
  <2>1. UNCHANGED <<last_channel_check, asked>> BY <1>5 DEF C!Round
  <2>2. ASSUME NEW c \in CamChannels, asked'[c].need = "ASKED"
        PROVE  /\ ca_resource_connected' /\ asked'[c].time <= seconds'
               /\ bad'[c] # -1 /\ bad'[c] < last_channel_check' =>
                      asked'[c].time + cam_reask_interval >= last_channel_check'
    <3>1. ca_resource_connected BY <1>1, <2>1, <2>2 DEF CamChecked
    <3> QED BY <1>1, <1>3, <2>1, <2>2, <3>1 DEF CamChecked
  <2>3. last_channel_check' <= seconds' /\ \A c \in CamChannels : bad'[c] <= seconds'
    BY <1>1, <1>3, <2>1 DEF CamChecked
  <2>4. ASSUME cam_reask_interval > 0, ca_resource_connected'
        PROVE  seconds' <= last_channel_check' + 2
    <3>1. ~(seconds - last_channel_check > 2) BY <1>5, <2>4 DEF C!Checks
    <3> QED BY <1>2, <1>3, <2>1, <3>1
  <2> QED BY <2>2, <2>3, <2>4 DEF CamChecked
<1> QED BY <1>4, <1>5

\* The steps that leave alone what the resets depend on
LEMMA CamQuiet ==
  ASSUME CamInv, camthread' = "off" => camthread = "off",
         UNCHANGED <<timeout_no_cam_init, resets, reset_counts, cam_interrupted, ca_info_ok_time>>,
         cam_interrupted = "no" \/ cam_type' = cam_type, seconds' \in {seconds, seconds + 1}
  PROVE  CamResets' /\ C!NotGivenUpEarly'
<1>1. /\ C!TypeOK /\ CamResets /\ C!NotGivenUpEarly
      /\ seconds \in Nat /\ reset_interval \in Nat /\ resets \subseteq Nat
  BY CamConfigured DEF CamInv, C!TypeOK, C!CamAssumption
<1>2. CamResets' BY <1>1 DEF CamResets
<1>3. C!GivenUp' => C!GivenUp BY DEF C!GivenUp
<1>4. C!GivenUp' => \A r \in resets' : seconds' > r + reset_interval
  BY <1>1, <1>3 DEF C!NotGivenUpEarly
<1>5. C!GivenUp' => C!Cardinality(resets') = max_reset_number
  BY <1>1, <1>3 DEF C!NotGivenUpEarly
<1>6. /\ \A r, s \in resets' : r < s => s > r + reset_interval
      /\ ca_info_ok_time' # -1 => \A r \in resets' : r <= ca_info_ok_time'
  BY <1>1 DEF C!NotGivenUpEarly
<1> QED BY <1>2, <1>4, <1>5, <1>6 DEF C!NotGivenUpEarly

LEMMA CamStep == CamInv /\ (C!Next \/ UNCHANGED camVars) => CamInv'
<1> SUFFICES ASSUME CamInv, C!Next \/ UNCHANGED camVars PROVE CamInv' OBVIOUS
<1> USE CamConfigured DEF C!CamAssumption
<1>1. C!TypeOK /\ CamChecked BY DEF CamInv
<1>2. CASE C!Round BY <1>2, CamRoundTypes, CamRoundResets, CamRoundChecks DEF CamInv
<1>3. CASE C!cam_start \/ C!cam_stop \/ UNCHANGED camVars
  <2>1. /\ UNCHANGED <<seconds, polled, cam_pmt_send_time, asked, bad, ca_info_ok_time,
                       ca_resource_connected, timeout_no_cam_init, reset_counts,
                       cam_interrupted, last_channel_check, resets>>
        /\ camthread' \in {"off", "running", "stopped"} /\ cam_type' \in {"link", "hlci"}
        /\ camthread' = "off" => camthread = "off"
        /\ camthread = "off" \/ cam_type' = cam_type
    BY <1>1, <1>3 DEF C!cam_start, C!cam_stop, camVars, C!initVars, C!TypeOK
  <2>2. cam_interrupted = "no" \/ cam_type' = cam_type BY <2>1 DEF CamInv, CamResets
  <2>3. C!TypeOK' /\ CamChecked' BY <1>1, <2>1 DEF C!TypeOK, CamChecked
  <2> QED BY <2>1, <2>2, <2>3, CamQuiet DEF CamInv
<1>4. CASE C!Tick
  <2>1. /\ UNCHANGED <<camthread, cam_type, cam_pmt_send_time, asked, bad, ca_info_ok_time,
                       ca_resource_connected, timeout_no_cam_init, reset_counts,
                       cam_interrupted, last_channel_check, resets>>
        /\ seconds' = seconds + 1 /\ polled' = FALSE /\ seconds < MaxNow
    BY <1>4 DEF C!Tick, C!initVars
  <2>4. seconds' \in 0..MaxNow BY <1>1, <2>1 DEF C!TypeOK
  <2>5. polled' \in BOOLEAN BY <2>1
  <2>2. C!TypeOK'
    <3> HIDE DEF C!CamAssumption
    <3> QED BY <1>1, <2>1, <2>4, <2>5 DEF C!TypeOK
  <2>3. CamChecked'
    <3>1. /\ seconds \in Nat /\ last_channel_check \in Nat /\ bad \in [CamChannels -> Int]
          /\ \A c \in CamChannels : asked[c].time \in Nat
      BY <1>1 DEF C!TypeOK
    <3> QED BY <1>1, <2>1, <3>1 DEF CamChecked
  <2> QED BY <2>1, <2>2, <2>3, CamQuiet DEF CamInv
<1>5. ASSUME NEW c \in CamChannels, C!NewPmt(c) PROVE CamInv'
  <2>1. /\ UNCHANGED <<camthread, cam_type, seconds, polled, bad, ca_info_ok_time,
                       ca_resource_connected, timeout_no_cam_init, reset_counts,
                       cam_interrupted, last_channel_check, resets>>
        /\ \/ UNCHANGED <<asked, cam_pmt_send_time>>
           \/ /\ asked' = [asked EXCEPT ![c] = [need |-> "ASKED", time |-> seconds]]
              /\ cam_pmt_send_time' = seconds
        /\ ca_resource_connected
    BY <1>5 DEF C!NewPmt, C!SendCaPmt, C!initVars
  <2>2. C!TypeOK' BY <1>1, <2>1 DEF C!TypeOK
  <2>3. CamChecked'
    <3>1. /\ seconds \in Nat /\ last_channel_check \in Nat /\ bad \in [CamChannels -> -1..MaxNow]
          /\ asked \in [CamChannels -> [need : {"NEED_ASK", "NEED_UPDATE", "ASKED"}, time : 0..MaxNow]]
      BY <1>1 DEF C!TypeOK
    <3>2. ASSUME NEW d \in CamChannels, asked'[d].need = "ASKED"
          PROVE  /\ asked'[d].time <= seconds
                 /\ bad[d] # -1 /\ bad[d] < last_channel_check =>
                        asked'[d].time + cam_reask_interval >= last_channel_check
      <4>1. CASE asked'[d] = asked[d] BY <1>1, <3>2, <4>1 DEF CamChecked
      <4>2. CASE asked'[d] = [need |-> "ASKED", time |-> seconds]
        <5>1. last_channel_check <= seconds BY <1>1 DEF CamChecked
        <5> QED BY <3>1, <4>2, <5>1
      <4>3. asked'[d] = asked[d] \/ asked'[d] = [need |-> "ASKED", time |-> seconds]
        BY <2>1, <3>1
      <4> QED BY <4>1, <4>2, <4>3
    <3> QED BY <1>1, <2>1, <3>2 DEF CamChecked
  <2> QED BY <2>1, <2>2, <2>3, CamQuiet DEF CamInv
<1>6. ASSUME NEW c \in CamChannels, C!Judge(c) PROVE CamInv'
  <2>1. /\ UNCHANGED <<camthread, cam_type, seconds, polled, cam_pmt_send_time, asked,
                       ca_info_ok_time, ca_resource_connected, timeout_no_cam_init, reset_counts,
                       cam_interrupted, last_channel_check, resets>>
        /\ bad' = [bad EXCEPT ![c] = IF @ = -1 THEN seconds ELSE -1]
    BY <1>6 DEF C!Judge, C!initVars
  <2>2. C!TypeOK' BY <1>1, <2>1 DEF C!TypeOK
  <2>3. CamChecked'
    <3>1. /\ seconds \in Nat /\ last_channel_check \in Nat /\ bad \in [CamChannels -> -1..MaxNow]
      BY <1>1 DEF C!TypeOK
    <3> QED BY <1>1, <2>1, <3>1 DEF CamChecked
  <2> QED BY <2>1, <2>2, <2>3, CamQuiet DEF CamInv
<1> QED BY <1>2, <1>3, <1>4, <1>5, <1>6 DEF C!Next

LEMMA CamAsks == CamInv => C!AskedAgain
<1> SUFFICES ASSUME CamInv, NEW c \in CamChannels,
                    cam_reask_interval > 0, polled, bad[c] # -1, asked[c].need = "ASKED"
             PROVE  seconds <= bad[c] + 2 \/ seconds <= asked[c].time + cam_reask_interval + 2
  BY DEF C!AskedAgain
<1> USE CamConfigured DEF C!CamAssumption
<1>1. /\ seconds \in Nat /\ last_channel_check \in Nat /\ bad[c] \in Int /\ asked[c].time \in Nat
  BY DEF CamInv, C!TypeOK
<1>2. seconds <= last_channel_check + 2 BY DEF CamInv, CamChecked
<1>3. bad[c] < last_channel_check => asked[c].time + cam_reask_interval >= last_channel_check
  BY DEF CamInv, CamChecked
<1> QED BY <1>1, <1>2, <1>3

-----------------------------------------------------------------------------
(* ScamKeys                                                                 *)

KeysTypes ==
    /\ K!TypeOK /\ given \in 0..MaxPeriod
    /\ thread \in [batch : [K!Parities -> Seq(1..MaxPeriod)], key : [K!Parities -> 0..MaxPeriod],
                   first : [K!Parities -> BOOLEAN], scrambled : 0..batch_size - 1, ca_idx : 0..1]

\* The ring is in order and no longer than the period on air: it holds this one and the last.
KeysStream ==
    /\ \A i \in 1..Len(waiting) : waiting[i] \in {period - 1, period}
    /\ \A i \in 1..Len(waiting) : i > Len(waiting) - length => waiting[i] = period
    /\ \A i, j \in 1..Len(waiting) : i <= j => waiting[i] <= waiting[j]

\* Without an index nothing is put in a batch, and what is put has the batch's parity.
KeysBatches ==
    /\ thread.ca_idx = 0 => \A p \in K!Parities : thread.batch[p] = <<>>
    /\ \A p \in K!Parities : \A i \in 1..Len(thread.batch[p]) : K!Parity(thread.batch[p][i]) = p

\* A key that came in time: given but not yet taken; the one in use; its packets all examined.
Pending(k) ==
    /\ cw[K!Parity(k)] = k /\ got_key[K!Parity(k)]
    /\ thread.batch[K!Parity(k)] = <<>> /\ thread.ca_idx = 1
    /\ thread.first[K!Parity(k - 1)] \/ ~thread.first[K!Parity(k)]
    /\ Len(waiting) >= batch_size - thread.scrambled
    /\ \A i \in 1..(batch_size - thread.scrambled) : waiting[i] = k - 1

Loaded(k) ==
    /\ thread.key[K!Parity(k)] = k /\ thread.first[K!Parity(k)]
    /\ got_key[K!Parity(k)] => period > k

Past(k) ==
    /\ period > k
    /\ \A i \in 1..Len(waiting) : waiting[i] > k
    /\ \A i \in 1..Len(thread.batch[K!Parity(k)]) : thread.batch[K!Parity(k)][i] # k

KeysServed == \A k \in timely : k <= given /\ (Pending(k) \/ Loaded(k) \/ Past(k))

KeysInv == KeysTypes /\ KeysStream /\ KeysBatches /\ KeysServed /\ K!KeysRight

LEMMA KeysInitial == K!Init => KeysInv
<1> SUFFICES ASSUME K!Init PROVE KeysInv OBVIOUS
<1> USE KeysSized DEF K!KeysAssumption, K!Init
<1>2. thread \in [batch : [K!Parities -> Seq(1..MaxPeriod)], key : [K!Parities -> 0..MaxPeriod],
                  first : [K!Parities -> BOOLEAN], scrambled : 0..batch_size - 1, ca_idx : 0..1]
  OBVIOUS
<1>6. /\ period \in 1..MaxPeriod /\ length \in 0..PeriodLength /\ given \in 0..MaxPeriod
      /\ waiting \in Seq(1..MaxPeriod) /\ Len(waiting) <= RingLength
      /\ cw \in [K!Parities -> 0..MaxPeriod] /\ got_key \in [K!Parities -> BOOLEAN]
      /\ ca_idx \in 0..1 /\ ca_idx_refcnt \in 0..Streams
  OBVIOUS
<1>7. /\ camd \in {"closed", "open"} /\ need_scam_ask \in {"need", "asked"}
      /\ timely \subseteq 1..MaxPeriod /\ misused \in BOOLEAN
  OBVIOUS
<1>1. K!TypeOK
  <2> HIDE DEF K!Init
  <2> QED BY <1>2, <1>6, <1>7 DEF K!TypeOK
<1>3. KeysStream /\ KeysServed BY DEF KeysStream, KeysServed
<1>4. KeysBatches BY DEF KeysBatches
<1>5. K!KeysRight BY DEF K!KeysRight
<1> QED BY <1>1, <1>2, <1>3, <1>4, <1>5, <1>6 DEF KeysInv, KeysTypes

LEMMA ParityFacts ==
  ASSUME NEW k \in Nat
  PROVE  /\ K!Parity(k) \in K!Parities /\ K!Other(K!Parity(k)) \in K!Parities
         /\ k > 0 => K!Parity(k - 1) = K!Other(K!Parity(k))
         /\ K!Other(K!Parity(k)) # K!Parity(k)
         /\ \A p \in K!Parities : p = K!Parity(k) \/ p = K!Other(K!Parity(k))
BY DEF K!Parity, K!Parities, K!Other

LEMMA ParityGap ==
  ASSUME NEW j \in Nat, NEW k \in Nat, j < k, K!Parity(j) = K!Parity(k)
  PROVE  k >= j + 2
<1>1. k # j + 1 BY DEF K!Parity
<1> QED BY <1>1

\* The head of a ring of packets, and the others.
LEMMA RingTail ==
  ASSUME NEW s \in Seq(Nat), s # <<>>, \A i, j \in 1..Len(s) : i <= j => s[i] <= s[j]
  PROVE  /\ Head(s) = s[1] /\ Len(s) > 0 /\ Len(Tail(s)) = Len(s) - 1
         /\ \A i \in 1..Len(Tail(s)) : Tail(s)[i] = s[i + 1] /\ Tail(s)[i] >= Head(s)
OBVIOUS

\* What a key given, removed, or asked for changes of the rest.
LEMMA KeysStill ==
  ASSUME KeysInv, UNCHANGED <<period, length, waiting, cw, got_key, thread, given, timely, misused>>
  PROVE  KeysStream' /\ KeysBatches' /\ KeysServed' /\ ~misused'
<1>1. KeysStream /\ KeysBatches /\ KeysServed /\ ~misused BY DEF KeysInv, K!KeysRight
<1>2. KeysStream' BY <1>1 DEF KeysStream
<1>3. KeysBatches' BY <1>1 DEF KeysBatches
<1>4. KeysServed' BY <1>1 DEF KeysServed, Pending, Loaded, Past
<1> QED BY <1>1, <1>2, <1>3, <1>4

LEMMA KeysDialogue ==
  ASSUME KeysInv, K!SendCapmt \/ K!SetPid \/ K!RemovePid \/ K!Hup \/ UNCHANGED keyVars PROVE KeysInv'
<1> USE KeysSized DEF K!KeysAssumption
<1>1. /\ UNCHANGED <<period, length, waiting, cw, got_key, thread, given, timely, misused>>
      /\ camd' \in {"closed", "open"} /\ need_scam_ask' \in {"need", "asked"}
      /\ ca_idx' \in 0..1 /\ ca_idx_refcnt' \in 0..Streams /\ ((ca_idx' = 1) <=> (ca_idx_refcnt' > 0))
  <2>1. /\ camd \in {"closed", "open"} /\ need_scam_ask \in {"need", "asked"} /\ Streams \in Nat
        /\ ca_idx \in 0..1 /\ ca_idx_refcnt \in 0..Streams /\ ((ca_idx = 1) <=> (ca_idx_refcnt > 0))
    <3>1. K!TypeOK /\ K!KeysRight BY DEF KeysInv, KeysTypes
    <3> QED BY <3>1 DEF K!TypeOK, K!KeysRight
  <2>2. CASE K!SendCapmt BY <2>1, <2>2 DEF K!SendCapmt
  <2>3. CASE K!SetPid BY <2>1, <2>3 DEF K!SetPid
  <2>4. CASE K!RemovePid BY <2>1, <2>4 DEF K!RemovePid
  <2>5. CASE K!Hup BY <2>1, <2>5 DEF K!Hup
  <2>6. CASE UNCHANGED keyVars BY <2>1, <2>6 DEF keyVars
  <2> QED BY <2>2, <2>3, <2>4, <2>5, <2>6
<1>2. KeysTypes' BY <1>1 DEF KeysInv, KeysTypes, K!TypeOK
<1>3. K!KeysRight' BY <1>1 DEF KeysInv, K!KeysRight
<1> QED BY <1>1, <1>2, <1>3, KeysStill DEF KeysInv

\* The invariant in the form the steps need.
LEMMA KeysNumbers ==
  ASSUME KeysInv
  PROVE  /\ period \in 1..MaxPeriod /\ length \in 0..PeriodLength /\ MaxPeriod \in Nat
         /\ waiting \in Seq(1..MaxPeriod) /\ Len(waiting) <= RingLength /\ RingLength <= PeriodLength
         /\ RingLength \in Nat /\ PeriodLength \in Nat /\ batch_size \in Nat \ {0}
         /\ cw \in [K!Parities -> 0..MaxPeriod] /\ got_key \in [K!Parities -> BOOLEAN]
         /\ thread.scrambled \in 0..batch_size - 1 /\ thread.ca_idx \in 0..1
         /\ timely \subseteq 1..MaxPeriod /\ given \in 0..MaxPeriod
BY KeysSized DEF KeysInv, KeysTypes, K!TypeOK, K!KeysAssumption

LEMMA KeysPacket == ASSUME KeysInv, K!Packet PROVE KeysInv'
<1>1. /\ UNCHANGED <<period, cw, got_key, ca_idx, ca_idx_refcnt, camd, need_scam_ask, thread,
                     given, hups, timely, misused>>
      /\ Len(waiting) < RingLength /\ waiting' = Append(waiting, period)
      /\ length' = IF length < PeriodLength THEN length + 1 ELSE length
  BY DEF K!Packet
<1>2. /\ period \in 1..MaxPeriod /\ length \in 0..PeriodLength /\ MaxPeriod \in Nat
      /\ waiting \in Seq(1..MaxPeriod) /\ RingLength <= PeriodLength /\ Len(waiting) \in Nat
      /\ RingLength \in Nat /\ PeriodLength \in Nat
  BY KeysNumbers
<1>3. /\ Len(waiting') = Len(waiting) + 1 /\ waiting' \in Seq(1..MaxPeriod)
      /\ \A i \in 1..Len(waiting) : waiting'[i] = waiting[i] /\ waiting[i] \in Nat
      /\ waiting'[Len(waiting) + 1] = period
  BY <1>1, <1>2
<1>4. \A i \in 1..Len(waiting') : i \in 1..Len(waiting) \/ i = Len(waiting) + 1
  BY <1>2, <1>3
<1>5. KeysTypes'
  <2>1. length' \in 0..PeriodLength /\ Len(waiting') <= RingLength BY <1>1, <1>2, <1>3
  <2> QED BY <1>1, <1>3, <2>1 DEF KeysInv, KeysTypes, K!TypeOK
<1>6. KeysStream'
  <2>1. KeysStream BY DEF KeysInv
  <2>2. ASSUME NEW i \in 1..Len(waiting') PROVE waiting'[i] \in {period - 1, period}
    BY <1>3, <1>4, <2>1 DEF KeysStream
  <2>3. ASSUME NEW i \in 1..Len(waiting'), i > Len(waiting') - length' PROVE waiting'[i] = period
    <3>1. CASE i = Len(waiting) + 1 BY <1>3, <3>1
    <3>2. CASE i \in 1..Len(waiting)
      <4>1. i > Len(waiting) - length
        <5>1. CASE length < PeriodLength BY <1>1, <1>2, <1>3, <2>3, <3>2, <5>1
        <5>2. CASE length = PeriodLength BY <1>1, <1>2, <3>2, <5>2
        <5> QED BY <1>2, <5>1, <5>2
      <4> QED BY <1>3, <2>1, <3>2, <4>1 DEF KeysStream
    <3> QED BY <1>4, <3>1, <3>2
  <2>4. ASSUME NEW i \in 1..Len(waiting'), NEW j \in 1..Len(waiting'), i <= j
        PROVE  waiting'[i] <= waiting'[j]
    <3>1. CASE j \in 1..Len(waiting) /\ i \in 1..Len(waiting)
      BY <1>3, <2>1, <2>4, <3>1 DEF KeysStream
    <3>2. CASE j = Len(waiting) + 1
      <4>1. waiting'[i] \in {period - 1, period} BY <2>2
      <4>2. waiting'[j] = period BY <1>3, <3>2
      <4> QED BY <1>2, <4>1, <4>2
    <3>3. CASE i = Len(waiting) + 1 /\ j \in 1..Len(waiting) BY <1>2, <2>4, <3>3
    <3> QED BY <1>4, <3>1, <3>2, <3>3
  <2> QED BY <1>1, <2>2, <2>3, <2>4 DEF KeysStream
<1>7. KeysServed'
  <2>1. SUFFICES ASSUME NEW k \in timely
                 PROVE  k <= given /\ (Pending(k)' \/ Loaded(k)' \/ Past(k)')
    BY <1>1 DEF KeysServed
  <2>2. k <= given /\ (Pending(k) \/ Loaded(k) \/ Past(k)) BY DEF KeysInv, KeysServed
  <2>3. CASE Pending(k)
    <3>1. /\ Len(waiting') >= batch_size - thread.scrambled
          /\ \A i \in 1..(batch_size - thread.scrambled) : waiting'[i] = k - 1
      <4>1. batch_size - thread.scrambled \in Int BY KeysNumbers
      <4> QED BY <1>2, <1>3, <2>3, <4>1 DEF Pending
    <3> QED BY <1>1, <2>2, <2>3, <3>1 DEF Pending
  <2>4. CASE Loaded(k) BY <1>1, <2>2, <2>4 DEF Loaded
  <2>5. CASE Past(k) BY <1>1, <1>3, <1>4, <2>2, <2>5 DEF Past
  <2> QED BY <2>2, <2>3, <2>4, <2>5
<1>8. KeysBatches' /\ K!KeysRight' BY <1>1 DEF KeysInv, KeysBatches, K!KeysRight
<1> QED BY <1>5, <1>6, <1>7, <1>8 DEF KeysInv

LEMMA KeysPeriod == ASSUME KeysInv, K!NextPeriod PROVE KeysInv'
<1>1. /\ UNCHANGED <<waiting, cw, got_key, ca_idx, ca_idx_refcnt, camd, need_scam_ask, thread,
                     given, hups, timely, misused>>
      /\ length = PeriodLength /\ period < MaxPeriod /\ period' = period + 1 /\ length' = 0
  BY DEF K!NextPeriod
<1>2. /\ period \in 1..MaxPeriod /\ MaxPeriod \in Nat /\ timely \subseteq Nat
      /\ Len(waiting) \in Nat /\ Len(waiting) <= PeriodLength /\ PeriodLength \in Nat
  BY KeysNumbers
<1>3. \A i \in 1..Len(waiting) : waiting[i] = period
  BY <1>1, <1>2 DEF KeysInv, KeysStream
<1>5. KeysTypes'
  <2>1. period' \in 1..MaxPeriod /\ length' \in 0..PeriodLength BY <1>1, <1>2
  <2> QED BY <1>1, <2>1 DEF KeysInv, KeysTypes, K!TypeOK
<1>6. KeysStream' BY <1>1, <1>2, <1>3 DEF KeysInv, KeysStream
<1>7. KeysServed'
  <2>1. SUFFICES ASSUME NEW k \in timely
                 PROVE  k <= given /\ (Pending(k)' \/ Loaded(k)' \/ Past(k)')
    BY <1>1 DEF KeysServed
  <2>2. k <= given /\ (Pending(k) \/ Loaded(k) \/ Past(k)) BY DEF KeysInv, KeysServed
  <2>3. CASE Pending(k) BY <1>1, <2>2, <2>3 DEF Pending
  <2>4. CASE Loaded(k) BY <1>1, <1>2, <2>2, <2>4 DEF Loaded
  <2>5. CASE Past(k) BY <1>1, <1>2, <2>2, <2>5 DEF Past
  <2> QED BY <2>2, <2>3, <2>4, <2>5
<1>8. KeysBatches' /\ K!KeysRight' BY <1>1 DEF KeysInv, KeysBatches, K!KeysRight
<1> QED BY <1>5, <1>6, <1>7, <1>8 DEF KeysInv

\* The first packet of the ring is of the period on air or of the one before.
LEMMA KeysHead ==
  ASSUME KeysInv, waiting # <<>>
  PROVE  /\ Head(waiting) \in Nat \ {0} /\ Head(waiting) >= period - 1 /\ Head(waiting) <= period
         /\ Head(waiting) = waiting[1] /\ Len(waiting) > 0 /\ Head(waiting) \in 1..MaxPeriod
<1>1. /\ waiting \in Seq(1..MaxPeriod) /\ period \in 1..MaxPeriod /\ MaxPeriod \in Nat BY KeysNumbers
<1>2. Len(waiting) > 0 /\ Head(waiting) = waiting[1] /\ waiting[1] \in 1..MaxPeriod BY <1>1
<1>3. waiting[1] \in {period - 1, period} BY <1>1, <1>2 DEF KeysInv, KeysStream
<1> QED BY <1>1, <1>2, <1>3

LEMMA KeysGiven == ASSUME KeysInv, NEW k \in 1..MaxPeriod, K!SetDescr(k) PROVE KeysInv'
<1> DEFINE p == K!Parity(k)
<1>1. /\ UNCHANGED <<period, length, waiting, ca_idx, ca_idx_refcnt, camd, need_scam_ask, thread,
                     hups, misused>>
      /\ k \in period..period + 1 /\ k > given /\ given' = k
      /\ cw' = [cw EXCEPT ![p] = k] /\ got_key' = [got_key EXCEPT ![p] = TRUE]
      /\ timely' = IF K!InTime(k) THEN timely \cup {k} ELSE timely
  BY DEF K!SetDescr
<1>2. /\ period \in 1..MaxPeriod /\ MaxPeriod \in Nat /\ timely \subseteq 1..MaxPeriod
      /\ given \in 0..MaxPeriod /\ k \in Nat /\ k > 0
      /\ cw \in [K!Parities -> 0..MaxPeriod] /\ got_key \in [K!Parities -> BOOLEAN]
      /\ batch_size \in Nat \ {0} /\ thread.scrambled \in 0..batch_size - 1 /\ thread.ca_idx \in 0..1
  BY KeysNumbers
<1>3. p \in K!Parities BY <1>2, ParityFacts
<1> HIDE DEF p
<1>4. /\ cw' \in [K!Parities -> 0..MaxPeriod] /\ got_key' \in [K!Parities -> BOOLEAN]
      /\ cw'[p] = k /\ got_key'[p] = TRUE
      /\ \A q \in K!Parities : q # p => cw'[q] = cw[q] /\ got_key'[q] = got_key[q]
  BY <1>1, <1>2, <1>3
<1>5. KeysTypes'
  <2>1. timely' \subseteq 1..MaxPeriod /\ given' \in 0..MaxPeriod BY <1>1, <1>2
  <2> QED BY <1>1, <1>4, <2>1 DEF KeysInv, KeysTypes, K!TypeOK
<1>6. KeysStream' /\ KeysBatches' /\ K!KeysRight'
  BY <1>1 DEF KeysInv, KeysStream, KeysBatches, K!KeysRight
<1>7. ASSUME NEW j \in timely PROVE j <= given' /\ (Pending(j)' \/ Loaded(j)' \/ Past(j)')
  <2>1. j <= given /\ (Pending(j) \/ Loaded(j) \/ Past(j)) BY DEF KeysInv, KeysServed
  <2>2. j \in Nat /\ j > 0 /\ j < k /\ j <= given' BY <1>1, <1>2, <2>1
  <2>3. K!Parity(j) \in K!Parities BY <2>2, ParityFacts
  <2>4. K!Parity(j) = p => period > j
    <3>1. K!Parity(j) = p => k >= j + 2 BY <1>2, <2>2, ParityGap DEF p
    <3> QED BY <1>1, <1>2, <2>2, <3>1
  <2>5. CASE Pending(j)
    <3>1. K!Parity(j) # p
      <4>1. SUFFICES ASSUME K!Parity(j) = p PROVE FALSE OBVIOUS
      <4>2. batch_size - thread.scrambled >= 1 BY <1>2
      <4>3. Len(waiting) > 0 /\ waiting[1] = j - 1
        <5>1. 1 \in 1..(batch_size - thread.scrambled) BY <1>2, <4>2
        <5>2. Len(waiting) \in Nat BY KeysNumbers
        <5> QED BY <1>2, <2>5, <4>2, <5>1, <5>2 DEF Pending
      <4>4. waiting # <<>> BY <4>3
      <4>5. waiting[1] >= period - 1 BY <4>4, KeysHead
      <4> QED BY <1>2, <2>2, <2>4, <4>1, <4>3, <4>5
    <3>2. cw'[K!Parity(j)] = cw[K!Parity(j)] /\ got_key'[K!Parity(j)] = got_key[K!Parity(j)]
      BY <1>4, <2>3, <3>1
    <3>3. Pending(j)' BY <1>1, <2>5, <3>2 DEF Pending
    <3> QED BY <2>2, <3>3
  <2>6. CASE Loaded(j)
    <3>1. got_key'[K!Parity(j)] => period > j
      <4>1. CASE K!Parity(j) = p BY <2>4, <4>1
      <4>2. CASE K!Parity(j) # p
        <5>1. got_key'[K!Parity(j)] = got_key[K!Parity(j)] BY <1>4, <2>3, <4>2
        <5> QED BY <2>6, <5>1 DEF Loaded
      <4> QED BY <4>1, <4>2
    <3>2. Loaded(j)' BY <1>1, <2>6, <3>1 DEF Loaded
    <3> QED BY <2>2, <3>2
  <2>7. CASE Past(j)
    <3>1. Past(j)' BY <1>1, <2>7 DEF Past
    <3> QED BY <2>2, <3>1
  <2> QED BY <2>1, <2>5, <2>6, <2>7
<1>8. ASSUME K!InTime(k) PROVE Pending(k)'
  <2>1. /\ Len(waiting) >= batch_size - thread.scrambled
        /\ \A i \in 1..(batch_size - thread.scrambled) : waiting[i] = k - 1
    <3>1. Len(waiting) \in Nat BY KeysNumbers
    <3> QED BY <1>2, <1>8, <3>1 DEF K!InTime
  <2> QED BY <1>1, <1>4, <1>8, <2>1 DEF Pending, K!InTime, p
<1>9. KeysServed'
  <2> SUFFICES ASSUME NEW j \in timely' PROVE j <= given' /\ (Pending(j)' \/ Loaded(j)' \/ Past(j)')
    BY DEF KeysServed
  <2>1. CASE j \in timely BY <1>7, <2>1
  <2>2. CASE j = k /\ K!InTime(k) BY <1>1, <1>2, <1>8, <2>2
  <2> QED BY <1>1, <2>1, <2>2
<1> QED BY <1>5, <1>6, <1>9 DEF KeysInv

\* The thread's locals with the first packet of the ring counted and put in its batch.
Filled ==
    LET p == K!Parity(Head(waiting))
    IN  [thread EXCEPT !.scrambled = @ + 1,
                       !.batch[p] = IF thread.ca_idx = 1 /\ thread.first[p]
                                    THEN Append(@, Head(waiting)) ELSE @]

LEMMA FilledFacts ==
  ASSUME KeysInv, waiting # <<>>
  PROVE  /\ Filled.scrambled = thread.scrambled + 1 /\ Filled.key = thread.key
         /\ Filled.first = thread.first /\ Filled.ca_idx = thread.ca_idx
         /\ Filled.batch \in [K!Parities -> Seq(1..MaxPeriod)]
         /\ LET p == K!Parity(Head(waiting))
            IN  /\ Filled.batch[p] = IF thread.ca_idx = 1 /\ thread.first[p]
                                     THEN Append(thread.batch[p], Head(waiting)) ELSE thread.batch[p]
                /\ \A q \in K!Parities : q # p => Filled.batch[q] = thread.batch[q]
         /\ DOMAIN Filled = {"batch", "key", "first", "scrambled", "ca_idx"}
<1> DEFINE p == K!Parity(Head(waiting))
           b == IF thread.ca_idx = 1 /\ thread.first[p]
                THEN Append(thread.batch[p], Head(waiting)) ELSE thread.batch[p]
<1>1. /\ thread \in [batch : [K!Parities -> Seq(1..MaxPeriod)], key : [K!Parities -> 0..MaxPeriod],
                     first : [K!Parities -> BOOLEAN], scrambled : 0..batch_size - 1, ca_idx : 0..1]
      /\ waiting \in Seq(1..MaxPeriod)
  BY DEF KeysInv, KeysTypes, K!TypeOK
<1>2. Head(waiting) \in 1..MaxPeriod /\ Head(waiting) \in Nat BY KeysHead
<1>3. p \in K!Parities BY <1>2, ParityFacts
<1>4. b \in Seq(1..MaxPeriod)
  <2> HIDE DEF p
  <2>1. thread.batch[p] \in Seq(1..MaxPeriod) BY <1>1, <1>3
  <2>2. Append(thread.batch[p], Head(waiting)) \in Seq(1..MaxPeriod) BY <1>2, <2>1
  <2> QED BY <2>1, <2>2
<1>5. Filled = [thread EXCEPT !.scrambled = thread.scrambled + 1,
                              !.batch = [thread.batch EXCEPT ![p] = b]]
  BY <1>1, <1>3 DEF Filled
<1> HIDE DEF b, p
<1>6. /\ Filled.scrambled = thread.scrambled + 1 /\ Filled.key = thread.key
      /\ Filled.first = thread.first /\ Filled.ca_idx = thread.ca_idx
      /\ Filled.batch = [thread.batch EXCEPT ![p] = b]
      /\ DOMAIN Filled = {"batch", "key", "first", "scrambled", "ca_idx"}
  BY <1>1, <1>5
<1>7. /\ Filled.batch \in [K!Parities -> Seq(1..MaxPeriod)] /\ Filled.batch[p] = b
      /\ \A q \in K!Parities : q # p => Filled.batch[q] = thread.batch[q]
  BY <1>1, <1>3, <1>4, <1>6
<1> QED BY <1>6, <1>7 DEF b, p

\* The batches hold the packets of their parity, the one examined last.
LEMMA FilledBatches ==
  ASSUME KeysInv, waiting # <<>>
  PROVE  /\ thread.ca_idx = 0 => \A q \in K!Parities : Filled.batch[q] = <<>>
         /\ \A q \in K!Parities : \A i \in 1..Len(Filled.batch[q]) :
                /\ K!Parity(Filled.batch[q][i]) = q
                /\ \/ i \in 1..Len(thread.batch[q]) /\ Filled.batch[q][i] = thread.batch[q][i]
                   \/ Filled.batch[q][i] = Head(waiting)
<1> DEFINE p == K!Parity(Head(waiting))
<1>1. /\ Filled.batch[p] = IF thread.ca_idx = 1 /\ thread.first[p]
                           THEN Append(thread.batch[p], Head(waiting)) ELSE thread.batch[p]
      /\ \A q \in K!Parities : q # p => Filled.batch[q] = thread.batch[q]
  BY FilledFacts
<1>2. KeysBatches /\ thread.batch \in [K!Parities -> Seq(1..MaxPeriod)]
  BY DEF KeysInv, KeysTypes, K!TypeOK
<1>3. Head(waiting) \in Nat /\ Head(waiting) \in 1..MaxPeriod /\ p \in K!Parities BY KeysHead, ParityFacts
<1>4. ASSUME thread.ca_idx = 0, NEW q \in K!Parities PROVE Filled.batch[q] = <<>>
  BY <1>1, <1>2, <1>3, <1>4 DEF KeysBatches
<1>5. ASSUME NEW q \in K!Parities, NEW i \in 1..Len(Filled.batch[q])
      PROVE  /\ K!Parity(Filled.batch[q][i]) = q
             /\ \/ i \in 1..Len(thread.batch[q]) /\ Filled.batch[q][i] = thread.batch[q][i]
                \/ Filled.batch[q][i] = Head(waiting)
  <2>1. CASE Filled.batch[q] = thread.batch[q] BY <1>2, <1>5, <2>1 DEF KeysBatches
  <2>2. CASE q = p /\ Filled.batch[q] = Append(thread.batch[q], Head(waiting))
    <3> DEFINE s == thread.batch[q]
    <3>1. s \in Seq(1..MaxPeriod) /\ Filled.batch[q] = Append(s, Head(waiting)) BY <1>2, <2>2
    <3>2. \A j \in 1..Len(s) : K!Parity(s[j]) = q BY <1>2 DEF KeysBatches
    <3> HIDE DEF s
    <3>3. (i \in 1..Len(s) /\ Filled.batch[q][i] = s[i]) \/ Filled.batch[q][i] = Head(waiting)
      BY <1>3, <1>5, <3>1
    <3>4. K!Parity(Filled.batch[q][i]) = q BY <2>2, <3>2, <3>3
    <3> QED BY <3>3, <3>4 DEF s
  <2> QED BY <1>1, <2>1, <2>2
<1> QED BY <1>4, <1>5

\* What the packet examined tells of a key that came in time, before the batch is treated.
LEMMA Examined ==
  ASSUME KeysInv, waiting # <<>>, NEW k \in timely
  PROVE  LET p == K!Parity(k)
             o == K!Other(p)
         IN  \/ /\ Pending(k) /\ Head(waiting) = k - 1 /\ Filled.batch[p] = <<>>
                /\ thread.first[p] => Filled.batch[o] # <<>>
             \/ /\ Loaded(k)
                /\ got_key[p] /\ Filled.batch[p] = <<>> /\ Filled.batch[o] # <<>> =>
                       Head(waiting) > k
             \/ Past(k) /\ Head(waiting) > k
                /\ \A i \in 1..Len(Filled.batch[p]) : Filled.batch[p][i] # k
<1> DEFINE p == K!Parity(k)
           o == K!Other(p)
           h == Head(waiting)
<1>11. k \in 1..MaxPeriod /\ MaxPeriod \in Nat BY KeysNumbers
<1>1. /\ k \in Nat /\ k > 0 /\ p \in K!Parities /\ o \in K!Parities /\ o # p /\ K!Parity(k - 1) = o
  BY <1>11, ParityFacts
<1>2. /\ h \in Nat /\ h >= period - 1 /\ h <= period /\ h = waiting[1] /\ Len(waiting) \in Nat
      /\ period \in Nat /\ Len(waiting) > 0
  <2>1. h \in Nat /\ h >= period - 1 /\ h <= period /\ h = waiting[1] /\ Len(waiting) > 0 BY KeysHead
  <2>2. waiting \in Seq(1..MaxPeriod) /\ period \in 1..MaxPeriod /\ MaxPeriod \in Nat BY KeysNumbers
  <2>3. Len(waiting) \in Nat /\ period \in Nat BY <2>2
  <2> QED BY <2>1, <2>3
<1>3. Filled.batch[K!Parity(h)] = IF thread.ca_idx = 1 /\ thread.first[K!Parity(h)]
                                  THEN Append(thread.batch[K!Parity(h)], h)
                                  ELSE thread.batch[K!Parity(h)]
  BY FilledFacts
<1>4. \A q \in K!Parities : q # K!Parity(h) => Filled.batch[q] = thread.batch[q] BY FilledFacts
<1>5. thread.batch \in [K!Parities -> Seq(1..MaxPeriod)] /\ h \in 1..MaxPeriod
  BY KeysHead DEF KeysInv, KeysTypes
<1>6. \A q \in K!Parities : Append(thread.batch[q], h) # <<>> BY <1>5
<1>7. Pending(k) \/ Loaded(k) \/ Past(k) BY DEF KeysInv, KeysServed
<1>8. CASE Pending(k)
  <2>1. thread.scrambled \in 0..batch_size - 1 /\ batch_size \in Nat BY KeysNumbers
  <2>2. 1 \in 1..(batch_size - thread.scrambled) BY <2>1
  <2>3. h = k - 1 BY <1>2, <1>8, <2>2 DEF Pending
  <2>4. K!Parity(h) = o BY <1>1, <2>3
  <2>5. Filled.batch[p] = <<>> BY <1>1, <1>4, <1>8, <2>4 DEF Pending
  <2>6. thread.first[p] => Filled.batch[o] # <<>>
    <3>1. thread.first[p] => thread.first[o] BY <1>1, <1>8 DEF Pending
    <3> QED BY <1>1, <1>3, <1>6, <1>8, <2>4, <3>1 DEF Pending
  <2> QED BY <1>8, <2>3, <2>5, <2>6
<1>9. CASE Loaded(k)
  <2>1. got_key[p] => h >= k BY <1>1, <1>2, <1>9 DEF Loaded
  <2>2. ASSUME Filled.batch[p] = <<>>, Filled.batch[o] # <<>> PROVE h # k
    <3>1. thread.ca_idx = 1
      <4>1. thread.ca_idx \in 0..1 BY KeysNumbers
      <4>2. thread.ca_idx # 0 BY <1>1, <2>2, FilledBatches
      <4> QED BY <4>1, <4>2
    <3>2. SUFFICES ASSUME h = k PROVE FALSE OBVIOUS
    <3>3. Filled.batch[p] = Append(thread.batch[p], h) BY <1>3, <1>9, <3>1, <3>2 DEF Loaded
    <3> QED BY <1>1, <1>6, <2>2, <3>3
  <2>3. got_key[p] /\ Filled.batch[p] = <<>> /\ Filled.batch[o] # <<>> => h > k
    BY <1>1, <1>2, <2>1, <2>2
  <2> QED BY <1>9, <2>3
<1>10. CASE Past(k)
  <2>1. h > k BY <1>2, <1>10 DEF Past
  <2>2. ASSUME NEW i \in 1..Len(Filled.batch[p]) PROVE Filled.batch[p][i] # k
    <3>1. \/ i \in 1..Len(thread.batch[p]) /\ Filled.batch[p][i] = thread.batch[p][i]
          \/ Filled.batch[p][i] = h
      BY <1>1, FilledBatches
    <3>2. CASE Filled.batch[p][i] = h BY <1>1, <1>2, <2>1, <3>2
    <3>3. CASE i \in 1..Len(thread.batch[p]) /\ Filled.batch[p][i] = thread.batch[p][i]
      BY <1>10, <3>3 DEF Past
    <3> QED BY <3>1, <3>2, <3>3
  <2> QED BY <1>10, <2>1, <2>2
<1> QED BY <1>7, <1>8, <1>9, <1>10

\* The ring without its first packet.
LEMMA KeysTail ==
  ASSUME KeysInv, waiting # <<>>, waiting' = Tail(waiting), UNCHANGED <<period, length>>
  PROVE  /\ KeysStream' /\ waiting' \in Seq(1..MaxPeriod) /\ Len(waiting') = Len(waiting) - 1
         /\ \A i \in 1..Len(waiting') : waiting'[i] = waiting[i + 1] /\ waiting'[i] >= Head(waiting)
<1>1. /\ waiting \in Seq(1..MaxPeriod) /\ length \in Nat /\ period \in Nat /\ MaxPeriod \in Nat
      /\ Len(waiting) \in Nat
  BY KeysNumbers
<1>2. Len(waiting) > 0 /\ Head(waiting) = waiting[1] BY KeysHead
<1>3. waiting' \in Seq(1..MaxPeriod) /\ Len(waiting') = Len(waiting) - 1 BY <1>1, <1>2
<1>4. ASSUME NEW i \in 1..Len(waiting')
      PROVE  waiting'[i] = waiting[i + 1] /\ i + 1 \in 1..Len(waiting) /\ i \in Nat
  BY <1>1, <1>2, <1>3
<1>5. KeysStream BY DEF KeysInv
<1>6. ASSUME NEW i \in 1..Len(waiting') PROVE waiting'[i] >= Head(waiting)
  <2>1. waiting[i + 1] >= waiting[1]
    <3>1. 1 \in 1..Len(waiting) /\ 1 <= i + 1 BY <1>1, <1>2, <1>4
    <3>2. waiting[1] <= waiting[i + 1] BY <1>4, <1>5, <3>1 DEF KeysStream
    <3> QED BY <1>1, <1>4, <3>1, <3>2
  <2> QED BY <1>2, <1>4, <2>1
<1>7. ASSUME NEW i \in 1..Len(waiting') PROVE waiting'[i] \in {period - 1, period}
  BY <1>4, <1>5 DEF KeysStream
<1>8. ASSUME NEW i \in 1..Len(waiting'), i > Len(waiting') - length PROVE waiting'[i] = period
  <2>1. i + 1 > Len(waiting) - length BY <1>1, <1>3, <1>4, <1>8
  <2> QED BY <1>4, <1>5, <2>1 DEF KeysStream
<1>9. ASSUME NEW i \in 1..Len(waiting'), NEW j \in 1..Len(waiting'), i <= j
      PROVE  waiting'[i] <= waiting'[j]
  <2>1. i + 1 <= j + 1 BY <1>4, <1>9
  <2> QED BY <1>4, <1>5, <2>1 DEF KeysStream
<1>10. KeysStream' BY <1>7, <1>8, <1>9 DEF KeysStream
<1> QED BY <1>3, <1>4, <1>6, <1>10

\* A packet examined that does not fill the batch.
LEMMA KeysCounted ==
  ASSUME KeysInv, waiting # <<>>, waiting' = Tail(waiting), thread' = Filled,
         Filled.scrambled # batch_size,
         UNCHANGED <<period, length, cw, got_key, ca_idx, ca_idx_refcnt, camd, need_scam_ask,
                     given, hups, timely, misused>>
  PROVE  KeysInv'
<1>1. /\ thread.scrambled \in 0..batch_size - 1 /\ batch_size \in Nat /\ Len(waiting) \in Nat
      /\ Len(waiting) <= RingLength /\ RingLength \in Nat
  BY KeysNumbers
<1>2. /\ thread'.scrambled = thread.scrambled + 1 /\ thread'.key = thread.key
      /\ thread'.first = thread.first /\ thread'.ca_idx = thread.ca_idx
      /\ thread'.batch \in [K!Parities -> Seq(1..MaxPeriod)]
      /\ DOMAIN thread' = {"batch", "key", "first", "scrambled", "ca_idx"}
  BY FilledFacts
<1>3. /\ KeysStream' /\ waiting' \in Seq(1..MaxPeriod) /\ Len(waiting') = Len(waiting) - 1
      /\ \A i \in 1..Len(waiting') : waiting'[i] = waiting[i + 1] /\ waiting'[i] >= Head(waiting)
  BY KeysTail
<1>4. thread'.scrambled \in 0..batch_size - 1
  <2> DEFINE n == thread.scrambled
  <2>1. n + 1 # batch_size BY FilledFacts
  <2>2. n \in 0..batch_size - 1 BY <1>1
  <2>3. thread'.scrambled = n + 1 BY <1>2
  <2> HIDE DEF n
  <2>4. n + 1 \in 0..batch_size - 1 BY <1>1, <2>1, <2>2
  <2> QED BY <2>3, <2>4
<1>5. KeysTypes'
  <2>1. /\ thread.key \in [K!Parities -> 0..MaxPeriod] /\ thread.first \in [K!Parities -> BOOLEAN]
        /\ thread.ca_idx \in 0..1
    BY DEF KeysInv, KeysTypes
  <2>2. thread' \in [batch : [K!Parities -> Seq(1..MaxPeriod)], key : [K!Parities -> 0..MaxPeriod],
                     first : [K!Parities -> BOOLEAN], scrambled : 0..batch_size - 1, ca_idx : 0..1]
    <3>1. thread' = [batch |-> thread'.batch, key |-> thread'.key, first |-> thread'.first,
                     scrambled |-> thread'.scrambled, ca_idx |-> thread'.ca_idx]
      BY <1>2 DEF Filled, KeysInv, KeysTypes
    <3> QED BY <1>2, <1>4, <2>1, <3>1
  <2>3. Len(waiting') <= RingLength BY <1>1, <1>3
  <2> QED BY <1>2, <1>3, <1>4, <2>1, <2>2, <2>3 DEF KeysInv, KeysTypes, K!TypeOK
<1>6. KeysBatches'
  <2>1. thread'.ca_idx = 0 => \A q \in K!Parities : thread'.batch[q] = <<>>
    BY <1>2, FilledBatches
  <2>2. \A q \in K!Parities : \A i \in 1..Len(thread'.batch[q]) : K!Parity(thread'.batch[q][i]) = q
    BY FilledBatches
  <2> QED BY <2>1, <2>2 DEF KeysBatches
<1>7. ASSUME NEW k \in timely PROVE k <= given /\ (Pending(k)' \/ Loaded(k)' \/ Past(k)')
  <2>1. k <= given BY DEF KeysInv, KeysServed
  <2>2. k \in Nat /\ period \in Nat BY KeysNumbers
  <2>3. CASE Pending(k) /\ Head(waiting) = k - 1 /\ Filled.batch[K!Parity(k)] = <<>>
    <3>1. Len(waiting') >= batch_size - thread'.scrambled BY <1>1, <1>2, <1>3, <2>3 DEF Pending
    <3>2. ASSUME NEW i \in 1..(batch_size - thread'.scrambled) PROVE waiting'[i] = k - 1
      <4> DEFINE n == thread.scrambled
                 l == Len(waiting)
      <4>0. /\ n \in Int /\ batch_size \in Nat /\ l \in Nat /\ thread'.scrambled = n + 1
            /\ Len(waiting') = l - 1 /\ l - 1 >= batch_size - (n + 1)
        BY <1>1, <1>2, <1>3, <3>1
      <4>1. i + 1 \in 1..(batch_size - thread.scrambled) /\ i \in 1..Len(waiting')
        <5>1. i \in 1..(batch_size - (n + 1)) BY <3>2, <4>0
        <5> HIDE DEF n, l
        <5>2. i + 1 \in 1..(batch_size - n) /\ i \in 1..l - 1 BY <4>0, <5>1
        <5> QED BY <4>0, <5>2 DEF n
      <4>2. waiting[i + 1] = k - 1 BY <2>3, <4>1 DEF Pending
      <4> QED BY <1>3, <4>1, <4>2
    <3> QED BY <1>2, <2>1, <2>3, <3>1, <3>2 DEF Pending
  <2>4. CASE Loaded(k) BY <1>2, <2>1, <2>4 DEF Loaded
  <2>5. CASE /\ Past(k) /\ Head(waiting) > k
             /\ \A i \in 1..Len(Filled.batch[K!Parity(k)]) : Filled.batch[K!Parity(k)][i] # k
    <3>1. ASSUME NEW i \in 1..Len(waiting') PROVE waiting'[i] > k
      <4>1. waiting'[i] \in Nat /\ Head(waiting) \in Nat
        <5>1. MaxPeriod \in Nat /\ Len(waiting') \in Nat BY <1>1, <1>3, KeysNumbers
        <5>2. waiting'[i] \in 1..MaxPeriod BY <1>3, <5>1
        <5>3. Head(waiting) \in Nat BY KeysHead
        <5> QED BY <5>1, <5>2, <5>3
      <4> QED BY <1>3, <2>2, <2>5, <4>1
    <3> QED BY <2>1, <2>5, <3>1 DEF Past
  <2> QED BY <2>3, <2>4, <2>5, Examined
<1>8. KeysServed' BY <1>7 DEF KeysServed
<1>9. K!KeysRight' BY DEF KeysInv, K!KeysRight
<1> QED BY <1>3, <1>5, <1>6, <1>8, <1>9 DEF KeysInv

\* A packet examined that fills the batch: keys are loaded and the batches decrypted.
LEMMA KeysTreated ==
  ASSUME KeysInv, waiting # <<>>, waiting' = Tail(waiting), K!EndBatch(Filled),
         UNCHANGED <<period, length, cw, ca_idx, ca_idx_refcnt, camd, need_scam_ask,
                     given, hups, timely>>
  PROVE  KeysInv'
<1> DEFINE Loads(p) == K!Load(p, Filled)
           held == [p \in K!Parities |-> IF Loads(p) THEN cw[p] ELSE thread.key[p]]
<1>1. /\ got_key' = [p \in K!Parities |-> got_key[p] /\ ~Loads(p)]
      /\ thread' = [batch |-> [p \in K!Parities |-> <<>>], key |-> held,
                    first |-> [p \in K!Parities |-> thread.first[p] \/ Loads(p)],
                    scrambled |-> 0, ca_idx |-> ca_idx]
      /\ misused' => \/ misused
                     \/ \E p \in K!Parities : \E i \in 1..Len(Filled.batch[p]) :
                            Filled.batch[p][i] \in timely /\ Filled.batch[p][i] # held[p]
      /\ misused' \in BOOLEAN
  <2> DEFINE new == {p \in K!Parities : Loads(p)}
  <2>2. \A p \in K!Parities : p \in new <=> Loads(p) OBVIOUS
  <2>3. Filled.key = thread.key /\ Filled.first = thread.first BY FilledFacts
  <2>4. [p \in K!Parities |-> IF p \in new THEN cw[p] ELSE Filled.key[p]] = held BY <2>2, <2>3
  <2>5. [p \in K!Parities |-> got_key[p] /\ p \notin new] = [p \in K!Parities |-> got_key[p] /\ ~Loads(p)]
    BY <2>2
  <2>6. [p \in K!Parities |-> Filled.first[p] \/ p \in new] = [p \in K!Parities |-> thread.first[p] \/ Loads(p)]
    BY <2>2, <2>3
  <2> HIDE DEF Loads, held
  <2>7. /\ got_key' = [p \in K!Parities |-> got_key[p] /\ p \notin new]
        /\ thread' = [batch |-> [p \in K!Parities |-> <<>>],
                      key |-> [p \in K!Parities |-> IF p \in new THEN cw[p] ELSE Filled.key[p]],
                      first |-> [p \in K!Parities |-> Filled.first[p] \/ p \in new],
                      scrambled |-> 0, ca_idx |-> ca_idx]
        /\ misused' = (\/ misused
                       \/ \E p \in K!Parities : \E i \in 1..Len(Filled.batch[p]) :
                              /\ Filled.batch[p][i] \in timely
                              /\ Filled.batch[p][i] # [q \in K!Parities |-> IF q \in new THEN cw[q] ELSE Filled.key[q]][p])
    BY DEF K!EndBatch, Loads
  <2> HIDE DEF new
  <2>8. misused \in BOOLEAN BY DEF KeysInv, KeysTypes, K!TypeOK
  <2> QED BY <2>4, <2>5, <2>6, <2>7, <2>8
<1>2. /\ cw \in [K!Parities -> 0..MaxPeriod] /\ got_key \in [K!Parities -> BOOLEAN]
      /\ thread.key \in [K!Parities -> 0..MaxPeriod] /\ thread.first \in [K!Parities -> BOOLEAN]
      /\ ca_idx \in 0..1 /\ batch_size \in Nat \ {0} /\ Len(waiting) \in Nat
      /\ Len(waiting) <= RingLength /\ RingLength \in Nat /\ MaxPeriod \in Nat /\ period \in Nat
      /\ timely \subseteq 1..MaxPeriod
  <2> HIDE DEF Loads, held
  <2>1. thread.key \in [K!Parities -> 0..MaxPeriod] /\ thread.first \in [K!Parities -> BOOLEAN] /\ ca_idx \in 0..1
    BY DEF KeysInv, KeysTypes, K!TypeOK
  <2>2. Len(waiting) \in Nat /\ period \in Nat
    <3>1. waiting \in Seq(1..MaxPeriod) /\ period \in 1..MaxPeriod /\ MaxPeriod \in Nat BY KeysNumbers
    <3> QED BY <3>1
  <2> QED BY <2>1, <2>2, KeysNumbers
<1>3. /\ KeysStream' /\ waiting' \in Seq(1..MaxPeriod) /\ Len(waiting') = Len(waiting) - 1
      /\ \A i \in 1..Len(waiting') : waiting'[i] >= Head(waiting)
  BY KeysTail
<1>4. ASSUME NEW p \in K!Parities
      PROVE  Loads(p) <=> /\ got_key[p]
                          /\ \/ Filled.batch[K!Other(p)] # <<>> /\ Filled.batch[p] = <<>>
                             \/ ~thread.first[p]
  <2>1. Filled.first = thread.first BY FilledFacts
  <2> QED BY <2>1 DEF K!Load
<1> HIDE DEF Loads
<1>5. KeysTypes'
  <2>1. held \in [K!Parities -> 0..MaxPeriod] BY <1>2
  <2>2. [p \in K!Parities |-> thread.first[p] \/ Loads(p)] \in [K!Parities -> BOOLEAN] OBVIOUS
  <2>3. got_key' \in [K!Parities -> BOOLEAN] BY <1>1
  <2> HIDE DEF held
  <2>4. [p \in K!Parities |-> <<>>] \in [K!Parities -> Seq(1..MaxPeriod)] OBVIOUS
  <2>5. 0 \in 0..batch_size - 1 /\ Len(waiting') <= RingLength BY <1>2, <1>3
  <2>6. /\ thread'.batch \in [K!Parities -> Seq(1..MaxPeriod)]
        /\ thread'.key \in [K!Parities -> 0..MaxPeriod] /\ thread'.first \in [K!Parities -> BOOLEAN]
        /\ thread'.scrambled \in 0..batch_size - 1 /\ thread'.ca_idx \in 0..1
    BY <1>1, <1>2, <2>1, <2>2, <2>4, <2>5
  <2>7. thread' \in [batch : [K!Parities -> Seq(1..MaxPeriod)], key : [K!Parities -> 0..MaxPeriod],
                     first : [K!Parities -> BOOLEAN], scrambled : 0..batch_size - 1, ca_idx : 0..1]
    BY <1>1, <1>2, <2>1, <2>2, <2>4, <2>5
  <2> QED BY <1>1, <1>3, <2>3, <2>5, <2>6, <2>7 DEF KeysInv, KeysTypes, K!TypeOK
<1>6. \A p \in K!Parities :
         /\ thread'.batch[p] = <<>> /\ thread'.key[p] = IF Loads(p) THEN cw[p] ELSE thread.key[p]
         /\ thread'.first[p] = (thread.first[p] \/ Loads(p)) /\ got_key'[p] = (got_key[p] /\ ~Loads(p))
  BY <1>1
<1>7. KeysBatches'
  <2>1. \A p \in K!Parities : Len(thread'.batch[p]) = 0 BY <1>6
  <2> QED BY <1>6, <2>1 DEF KeysBatches
<1>8. ASSUME NEW k \in timely PROVE k <= given /\ (Pending(k)' \/ Loaded(k)' \/ Past(k)')
  <2> DEFINE p == K!Parity(k)
             o == K!Other(p)
  <2>1. k <= given BY DEF KeysInv, KeysServed
  <2>2. k \in Nat BY <1>2
  <2>3. p \in K!Parities BY <2>2, ParityFacts
  <2>4. Head(waiting) \in Nat /\ Head(waiting) <= period BY KeysHead
  <2>5. Head(waiting) > k => Past(k)'
    <3>1. SUFFICES ASSUME Head(waiting) > k PROVE Past(k)' OBVIOUS
    <3>2. ASSUME NEW i \in 1..Len(waiting') PROVE waiting'[i] > k
      <4>1. waiting'[i] \in 1..MaxPeriod BY <1>2, <1>3
      <4> QED BY <1>2, <1>3, <2>2, <2>4, <3>1, <4>1
    <3>3. Len(thread'.batch[p]) = 0 BY <1>6, <2>3
    <3>4. period > k BY <1>2, <2>2, <2>4, <3>1
    <3> QED BY <3>2, <3>3, <3>4 DEF Past
  <2>6. CASE /\ Pending(k) /\ Head(waiting) = k - 1 /\ Filled.batch[p] = <<>>
             /\ thread.first[p] => Filled.batch[o] # <<>>
    <3>1. Loads(p) BY <1>4, <2>3, <2>6 DEF Pending
    <3>2. Loaded(k)' BY <1>6, <2>3, <2>6, <3>1 DEF Pending, Loaded
    <3> QED BY <2>1, <3>2
  <2>7. CASE /\ Loaded(k)
             /\ got_key[p] /\ Filled.batch[p] = <<>> /\ Filled.batch[o] # <<>> => Head(waiting) > k
    <3>1. CASE Loads(p)
      <4>1. Head(waiting) > k BY <1>4, <2>3, <2>7, <3>1 DEF Loaded
      <4> QED BY <2>1, <2>5, <4>1
    <3>2. CASE ~Loads(p)
      <4>1. Loaded(k)' BY <1>6, <2>3, <2>7, <3>2 DEF Loaded
      <4> QED BY <2>1, <4>1
    <3> QED BY <3>1, <3>2
  <2> QED BY <2>1, <2>5, <2>6, <2>7, Examined
<1>9. ~misused'
  <2>1. ~misused BY DEF KeysInv, K!KeysRight
  <2>2. SUFFICES ASSUME NEW p \in K!Parities, NEW i \in 1..Len(Filled.batch[p]),
                        Filled.batch[p][i] \in timely, Filled.batch[p][i] # held[p]
                 PROVE  FALSE
    BY <1>1, <2>1
  <2> DEFINE e == Filled.batch[p][i]
  <2>3. K!Parity(e) = p BY FilledBatches
  <2>4. Filled.batch[p] # <<>> BY <2>2
  <2>5. e \in timely BY <2>2
  <2>6. ~(\A j \in 1..Len(Filled.batch[p]) : Filled.batch[p][j] # e) BY <2>2
  <2>7. Loaded(e)
    <3> HIDE DEF e
    <3> QED BY <2>3, <2>4, <2>5, <2>6, Examined
  <2>8. thread.key[p] = e /\ thread.first[p] BY <2>3, <2>7 DEF Loaded
  <2>9. ~Loads(p) BY <1>4, <2>4, <2>8
  <2> QED BY <2>2, <2>8, <2>9
<1>10. KeysServed' BY <1>8 DEF KeysServed
<1>11. K!KeysRight' BY <1>9 DEF KeysInv, K!KeysRight
<1> QED BY <1>3, <1>5, <1>7, <1>10, <1>11 DEF KeysInv

LEMMA KeysStep == KeysInv /\ (K!Next \/ UNCHANGED keyVars) => KeysInv'
<1> SUFFICES ASSUME KeysInv, K!Next \/ UNCHANGED keyVars PROVE KeysInv' OBVIOUS
<1>1. CASE K!Packet BY <1>1, KeysPacket
<1>2. CASE K!NextPeriod BY <1>2, KeysPeriod
<1>3. CASE K!SendCapmt \/ K!SetPid \/ K!RemovePid \/ K!Hup \/ UNCHANGED keyVars
  BY <1>3, KeysDialogue
<1>4. ASSUME NEW k \in 1..MaxPeriod, K!SetDescr(k) PROVE KeysInv' BY <1>4, KeysGiven
<1>5. CASE K!Examine
  <2>1. /\ waiting # <<>> /\ waiting' = Tail(waiting)
        /\ UNCHANGED <<period, length, cw, ca_idx, ca_idx_refcnt, camd, need_scam_ask, given, hups,
                       timely>>
    BY <1>5 DEF K!Examine
  <2>2. IF Filled.scrambled = batch_size THEN K!EndBatch(Filled)
        ELSE thread' = Filled /\ UNCHANGED <<got_key, misused>>
    BY <1>5 DEF K!Examine, Filled
  <2>3. CASE Filled.scrambled = batch_size BY <2>1, <2>2, <2>3, KeysTreated
  <2>4. CASE Filled.scrambled # batch_size BY <2>1, <2>2, <2>4, KeysCounted
  <2> QED BY <2>3, <2>4
<1> QED BY <1>1, <1>2, <1>3, <1>4, <1>5 DEF K!Next

-----------------------------------------------------------------------------
(* Clients                                                                  *)

Names(list) == {list[i] : i \in 1..Len(list)}
Once(list) == \A i, j \in 1..Len(list) : list[i] = list[j] => i = j

\* A name is at a place.
LEMMA NamesFacts == \A list, y : y \in Names(list) <=> \E i \in 1..Len(list) : list[i] = y
BY DEF Names

\* A list with each name once, without one of them.
LEMMA UnlinkedFacts ==
  ASSUME NEW S, NEW s \in Seq(S), NEW x, x \in Names(s), Once(s)
  PROVE  /\ Cl!Unlinked(s, x) \in Seq(S) /\ Len(Cl!Unlinked(s, x)) = Len(s) - 1
         /\ Once(Cl!Unlinked(s, x))
         /\ \A y : y \in Names(Cl!Unlinked(s, x)) <=> y # x /\ y \in Names(s)
<1>13. \E i \in 1..Len(s) : s[i] = x BY NamesFacts
<1>14. \A i, j \in 1..Len(s) : s[i] = s[j] => i = j BY DEF Once
<1> DEFINE k == CHOOSE i \in 1..Len(s) : s[i] = x
           r == Cl!Unlinked(s, x)
<1>1. k \in 1..Len(s) /\ s[k] = x BY <1>13
<1>2. r = SubSeq(s, 1, k - 1) \o SubSeq(s, k + 1, Len(s)) BY DEF Cl!Unlinked, Cl!RemoveAt
<1> HIDE DEF k, r
<1>3. Len(s) \in Nat OBVIOUS
<1>4. SubSeq(s, 1, k - 1) \in Seq(S) /\ Len(SubSeq(s, 1, k - 1)) = k - 1
      /\ \A i \in 1..k - 1 : SubSeq(s, 1, k - 1)[i] = s[i]
  BY <1>1, <1>3
<1>5. SubSeq(s, k + 1, Len(s)) \in Seq(S) /\ Len(SubSeq(s, k + 1, Len(s))) = Len(s) - k
      /\ \A i \in 1..Len(s) - k : SubSeq(s, k + 1, Len(s))[i] = s[i + k]
  BY <1>1, <1>3
<1>6. /\ r \in Seq(S) /\ Len(r) = Len(s) - 1
      /\ \A i \in 1..Len(s) - 1 : r[i] = IF i < k THEN s[i] ELSE s[i + 1]
  <2> DEFINE a == SubSeq(s, 1, k - 1)
             b == SubSeq(s, k + 1, Len(s))
  <2>1. /\ a \in Seq(S) /\ Len(a) = k - 1 /\ \A i \in 1..k - 1 : a[i] = s[i]
        /\ b \in Seq(S) /\ Len(b) = Len(s) - k /\ \A i \in 1..Len(s) - k : b[i] = s[i + k]
        /\ r = a \o b
    BY <1>2, <1>4, <1>5
  <2> HIDE DEF a, b
  <2>2. r \in Seq(S) /\ Len(r) = Len(s) - 1 BY <1>1, <1>3, <2>1
  <2>3. ASSUME NEW i \in 1..Len(s) - 1 PROVE r[i] = IF i < k THEN s[i] ELSE s[i + 1]
    <3>1. CASE i < k BY <1>1, <1>3, <2>1, <3>1
    <3>2. CASE ~(i < k)
      <4>3. i \in 1..Len(a) + Len(b) /\ i > Len(a) /\ Len(a) \in Nat /\ Len(b) \in Nat
        BY <1>1, <1>3, <2>1, <3>2
      <4>4. (a \o b)[i] = b[i - Len(a)]
        <5>1. a \in Seq(S) /\ b \in Seq(S) BY <2>1
        <5> QED BY <4>3, <5>1
      <4>1. r[i] = b[i - (k - 1)] BY <2>1, <4>4
      <4>2. i - (k - 1) \in 1..Len(s) - k /\ (i - (k - 1)) + k = i + 1 BY <1>1, <1>3, <3>2
      <4> QED BY <2>1, <3>2, <4>1, <4>2
    <3> QED BY <3>1, <3>2
  <2> QED BY <2>2, <2>3
<1>7. ASSUME NEW i \in 1..Len(r), NEW j \in 1..Len(r), r[i] = r[j] PROVE i = j
  <2> DEFINE place(m) == IF m < k THEN m ELSE m + 1
  <2>1. \A m \in 1..Len(r) : place(m) \in 1..Len(s) /\ r[m] = s[place(m)] BY <1>1, <1>3, <1>6
  <2>2. place(i) = place(j)
    <3>1. place(i) \in 1..Len(s) /\ place(j) \in 1..Len(s) /\ s[place(i)] = s[place(j)] BY <1>7, <2>1
    <3> HIDE DEF place
    <3> QED BY <1>14, <3>1
  <2> QED BY <1>1, <1>3, <1>6, <2>2
<1>8. ASSUME NEW i \in 1..Len(r) PROVE r[i] # x /\ \E j \in 1..Len(s) : s[j] = r[i]
  <2> DEFINE m == IF i < k THEN i ELSE i + 1
  <2>1. m \in 1..Len(s) /\ m # k /\ r[i] = s[m] BY <1>1, <1>3, <1>6
  <2> HIDE DEF m
  <2>2. s[m] # x BY <1>1, <1>14, <2>1
  <2> QED BY <2>1, <2>2
<1>9. ASSUME NEW i \in 1..Len(s), s[i] # x PROVE \E j \in 1..Len(r) : r[j] = s[i]
  <2>1. CASE i < k BY <1>1, <1>3, <1>6, <2>1
  <2>2. CASE i > k
    <3>1. i - 1 \in 1..Len(r) /\ r[i - 1] = s[i] BY <1>1, <1>3, <1>6, <2>2
    <3> QED BY <3>1
  <2> QED BY <1>1, <1>9, <2>1, <2>2
<1>10. ASSUME NEW y PROVE (\E i \in 1..Len(r) : r[i] = y) <=> y # x /\ \E i \in 1..Len(s) : s[i] = y
  BY <1>8, <1>9
<1>11. \A y : y \in Names(r) <=> y # x /\ y \in Names(s) BY <1>10, NamesFacts
<1>12. Once(r) BY <1>7 DEF Once
<1> QED BY <1>6, <1>11, <1>12 DEF r

\* The table without one of its entries: the last takes its place.
LEMMA RemovedFacts ==
  ASSUME NEW S, pfds \in Seq(S), NEW i \in 1..Len(pfds)
  PROVE  /\ Cl!Removed(i) \in Seq(S) /\ Len(Cl!Removed(i)) = Len(pfds) - 1
         /\ \A j \in 1..Len(pfds) - 1 :
                Cl!Removed(i)[j] = IF j = i THEN pfds[Len(pfds)] ELSE pfds[j]
<1>1. Len(pfds) \in Nat /\ Len(pfds) > 0 /\ pfds[Len(pfds)] \in S OBVIOUS
<1> DEFINE u == [pfds EXCEPT ![i] = pfds[Len(pfds)]]
<1>2. u \in Seq(S) /\ Len(u) = Len(pfds)
      /\ \A j \in 1..Len(pfds) : u[j] = IF j = i THEN pfds[Len(pfds)] ELSE pfds[j]
  BY <1>1
<1> HIDE DEF u
<1>3. \A v \in Seq(S) : Len(v) = Len(pfds) =>
         /\ Cl!Front(v) \in Seq(S) /\ Len(Cl!Front(v)) = Len(pfds) - 1
         /\ \A j \in 1..Len(pfds) - 1 : Cl!Front(v)[j] = v[j]
  BY <1>1 DEF Cl!Front
<1>4. Cl!Removed(i) = IF i = Len(pfds) THEN Cl!Front(pfds) ELSE Cl!Front(u)
  BY DEF Cl!Removed, Cl!Last, u
<1> QED BY <1>1, <1>2, <1>3, <1>4

-----------------------------------------------------------------------------
NumListeners == Cardinality(Cl!Listeners)
Sockets == Cl!Listeners \cup {Cl!Client(x) : x \in ClientIds}

\* The listening sockets come first in the table and stay where they are.
ClTable ==
    /\ pfds \in Seq([fd : Sockets, revents : {"none", "IN", "HUP"}])
    /\ Len(pfds) = NumListeners + Len(clients)
    /\ \A i \in 1..Len(pfds) :
         /\ Cl!IsClient(pfds[i].fd) <=> i > NumListeners
         /\ pfds[i].revents = "HUP" => Cl!IsClient(pfds[i].fd)
    /\ \A i, j \in 1..Len(pfds) : pfds[i].fd = pfds[j].fd => i = j
    /\ \A d \in Cl!Listeners : \E i \in 1..Len(pfds) : pfds[i].fd = d

ClLists ==
    /\ clients \in Seq(ClientIds) /\ Once(clients) /\ client_number = Len(clients)
    /\ max_clients > 0 => client_number <= max_clients
    /\ \A x \in ClientIds : x \in Names(clients) <=> \E i \in 1..Len(pfds) : pfds[i].fd = Cl!Client(x)
    /\ \A x \in ClientIds : x \notin Names(clients) => chan_ptr[x] = Cl!NoChan /\ askedChannel[x] = Cl!NoChan
    /\ \A x \in ClientIds : askedChannel[x] # Cl!NoChan => chan_ptr[x] = Cl!NoChan

ClChannels ==
    /\ chan_clients \in [ClientChannels -> Seq(ClientIds)]
    /\ \A c \in ClientChannels :
         /\ Once(chan_clients[c])
         /\ \A x \in ClientIds : x \in Names(chan_clients[c]) <=> chan_ptr[x] = c
         /\ c \notin zeroed => num_clients[c] = Len(chan_clients[c])

\* What the walk owes is still ahead of it.
ClDue ==
    /\ actual_fd = 0 => due = {}
    /\ \A d \in due : \E j \in 1..Len(pfds) :
         j >= actual_fd /\ pfds[j].fd = d /\ pfds[j].revents # "none"

ClFields ==
    /\ chan_ptr \in [ClientIds -> ClientChannels \cup {Cl!NoChan}]
    /\ askedChannel \in [ClientIds -> ClientChannels \cup {Cl!NoChan}]
    /\ kept \in [ClientIds -> BOOLEAN] /\ num_clients \in [ClientChannels -> Int]
    /\ actual_fd \in 0..Len(pfds) + 2

ClInv == ClTable /\ ClLists /\ ClChannels /\ ClDue /\ ClFields

LEMMA ListenersCount == IsFiniteSet(Cl!Listeners) /\ NumListeners \in Nat /\ NumListeners > 0
<1>1. IsFiniteSet(ChannelPorts) BY PortsOfChannels DEF Cl!ClientsAssumption, Cl!IsFiniteSet, IsFiniteSet
<1>2. IsFiniteSet({Cl!Listen(c) : c \in ChannelPorts})
  <2> DEFINE T == {Cl!Listen(c) : c \in ChannelPorts}
             f == [c \in ChannelPorts |-> Cl!Listen(c)]
  <2>1. f \in Surjection(ChannelPorts, T) BY DEF Surjection
  <2> QED BY <1>1, <2>1, FS_Surjection
<1>3. IsFiniteSet(Cl!Listeners) BY <1>2, FS_Singleton, FS_Union DEF Cl!Listeners
<1>4. Cl!Master \in Cl!Listeners BY DEF Cl!Listeners
<1> QED BY <1>3, <1>4, FS_CardinalityType, FS_EmptySet DEF NumListeners

LEMMA ClInitial == Cl!Init => ClInv
<1> SUFFICES ASSUME Cl!Init PROVE ClInv OBVIOUS
<1> DEFINE n == NumListeners
           order == Cl!SetToSeq(Cl!Listeners)
<1>1. n \in Nat /\ n > 0 /\ IsFiniteSet(Cl!Listeners) BY ListenersCount
<1>2. n = Cl!Cardinality(Cl!Listeners) BY DEF NumListeners, Cl!Cardinality, Cardinality
<1>3. /\ order \in [1..n -> Cl!Listeners] /\ \A i, j \in 1..n : order[i] = order[j] => i = j
      /\ \A d \in Cl!Listeners : \E i \in 1..n : order[i] = d
  <2>1. ExistsBijection(1..n, Cl!Listeners) BY <1>1, FS_CardinalityType DEF NumListeners
  <2>2. PICK g \in [1..n -> Cl!Listeners] : Cl!IsInjective(g)
    BY <2>1 DEF ExistsBijection, Bijection, Injection, IsInjective, Cl!IsInjective
  <2>3. order \in [1..n -> Cl!Listeners] /\ Cl!IsInjective(order)
    BY <1>2, <2>2 DEF Cl!SetToSeq
  <2>4. IsFiniteSet(1..n) /\ Cardinality(1..n) = n BY <1>1, FS_Interval
  <2>5. order \in Surjection(1..n, Cl!Listeners)
    <3>1. order \in Injection(1..n, Cl!Listeners)
      BY <2>3 DEF Injection, IsInjective, Cl!IsInjective
    <3> QED BY <1>1, <2>4, <3>1, FS_Injection DEF NumListeners
  <2> QED BY <2>3, <2>5 DEF Cl!IsInjective, Surjection
<1> HIDE DEF order, n
<1>4. /\ pfds = [i \in 1..n |-> [fd |-> order[i], revents |-> "none"]]
      /\ clients = <<>> /\ client_number = 0 /\ actual_fd = 0 /\ due = {} /\ zeroed = {}
      /\ chan_ptr = [x \in ClientIds |-> Cl!NoChan] /\ askedChannel = [x \in ClientIds |-> Cl!NoChan]
      /\ kept = [x \in ClientIds |-> FALSE] /\ chan_clients = [c \in ClientChannels |-> <<>>]
      /\ num_clients = [c \in ClientChannels |-> 0]
  BY <1>2 DEF Cl!Init, order
<1>5. ClTable
  <2> DEFINE R == [fd : Sockets, revents : {"none", "IN", "HUP"}]
             f == [i \in 1..n |-> [fd |-> order[i], revents |-> "none"]]
  <2>1. \A i \in 1..n : f[i] = [fd |-> order[i], revents |-> "none"] OBVIOUS
  <2>2. \A i \in 1..n : f[i] \in R /\ f[i].fd = order[i] /\ f[i].revents = "none" BY <1>3 DEF Sockets
  <2>3. pfds \in Seq(R) /\ Len(pfds) = n
    <3>1. n \in Nat BY <1>1
    <3>2. pfds = f /\ f = [i \in 1..n |-> f[i]] BY <1>4
    <3> HIDE DEF R, f
    <3> QED BY <2>2, <3>1, <3>2
  <2>4. \A i \in 1..n : pfds[i].fd = order[i] /\ pfds[i].revents = "none" BY <1>4, <2>2
  <2>5. \A d \in Cl!Listeners : ~Cl!IsClient(d)
    BY DEF Cl!Listeners, Cl!IsClient, Cl!Master, Cl!Listen
  <2>6. Len(pfds) = NumListeners + Len(clients)
    <3>1. Len(clients) = 0 BY <1>4
    <3> QED BY <1>1, <2>3, <3>1 DEF n
  <2>7. ASSUME NEW i \in 1..n
        PROVE  /\ Cl!IsClient(pfds[i].fd) <=> i > NumListeners
               /\ pfds[i].revents = "HUP" => Cl!IsClient(pfds[i].fd)
    <3>1. ~Cl!IsClient(pfds[i].fd) /\ pfds[i].revents = "none" BY <1>3, <2>4, <2>5
    <3>2. ~(i > n) BY <1>1
    <3> QED BY <3>1, <3>2 DEF n
  <2>8. \A i, j \in 1..n : pfds[i].fd = pfds[j].fd => i = j BY <1>3, <2>4
  <2>9. \A d \in Cl!Listeners : \E i \in 1..n : pfds[i].fd = d BY <1>3, <2>4
  <2> QED BY <2>3, <2>6, <2>7, <2>8, <2>9 DEF ClTable
<1>6. ClLists
  <2>1. \A x \in ClientIds : \A i \in 1..Len(pfds) : pfds[i].fd # Cl!Client(x)
    <3>1. \A x \in ClientIds : Cl!Client(x) \notin Cl!Listeners
      BY DEF Cl!Listeners, Cl!Client, Cl!Master, Cl!Listen
    <3> QED BY <1>1, <1>3, <1>4, <3>1
  <2>2. Len(clients) = 0 /\ clients \in Seq(ClientIds) BY <1>4
  <2>3. Names(clients) = {} /\ Once(clients) BY <2>2 DEF Names, Once
  <2>4. \A x \in ClientIds : chan_ptr[x] = Cl!NoChan /\ askedChannel[x] = Cl!NoChan BY <1>4
  <2>5. max_clients > 0 => client_number <= max_clients
    BY <1>4, PortsOfChannels DEF Cl!ClientsAssumption
  <2> QED BY <1>4, <2>1, <2>2, <2>3, <2>4, <2>5 DEF ClLists
<1>7. ClChannels
  <2>1. \A c \in ClientChannels : chan_clients[c] = <<>> /\ num_clients[c] = 0 BY <1>4
  <2>2. \A c \in ClientChannels : c # Cl!NoChan BY PortsOfChannels DEF Cl!ClientsAssumption, Cl!NoChan
  <2> QED BY <1>4, <2>1, <2>2 DEF ClChannels, Names, Once
<1>8. ClDue BY <1>4 DEF ClDue
<1>9. ClFields
  <2>1. Len(pfds) \in Nat BY <1>1, <1>4
  <2>2. actual_fd \in 0..Len(pfds) + 2
    <3> DEFINE m == Len(pfds)
    <3>1. m \in Nat /\ actual_fd = 0 BY <1>4, <2>1
    <3> HIDE DEF m
    <3>2. 0 \in 0..m + 2 BY <3>1
    <3> QED BY <3>1, <3>2 DEF m
  <2>3. /\ chan_ptr \in [ClientIds -> ClientChannels \cup {Cl!NoChan}]
        /\ askedChannel \in [ClientIds -> ClientChannels \cup {Cl!NoChan}]
    BY <1>4
  <2>4. kept \in [ClientIds -> BOOLEAN] BY <1>4
  <2>5. num_clients \in [ClientChannels -> Int] BY <1>4
  <2> QED BY <2>2, <2>3, <2>4, <2>5 DEF ClFields
<1> QED BY <1>5, <1>6, <1>7, <1>8, <1>9 DEF ClInv

LEMMA ClientFds ==
  /\ \A x, y : Cl!Client(x) = Cl!Client(y) => x = y
  /\ \A x : Cl!IsClient(Cl!Client(x)) /\ Cl!Client(x) \notin Cl!Listeners /\ Cl!Client(x).of = x
  /\ \A d \in Sockets : Cl!IsClient(d) => d.of \in ClientIds /\ d = Cl!Client(d.of)
  /\ \A d \in Cl!Listeners : ~Cl!IsClient(d) /\ d.of \in ClientChannels \cup {Cl!NoChan}
<1>1. \A x, y : Cl!Client(x) = Cl!Client(y) => x = y
  <2>1. \A x : Cl!Client(x).of = x BY DEF Cl!Client
  <2> QED BY <2>1
<1>2. \A x : Cl!IsClient(Cl!Client(x)) /\ Cl!Client(x) \notin Cl!Listeners /\ Cl!Client(x).of = x
  BY DEF Cl!Client, Cl!IsClient, Cl!Listeners, Cl!Master, Cl!Listen
<1>3. \A d \in Cl!Listeners : ~Cl!IsClient(d) /\ d.of \in ClientChannels \cup {Cl!NoChan}
  BY PortsOfChannels DEF Cl!IsClient, Cl!Listeners, Cl!Master, Cl!Listen, Cl!ClientsAssumption
<1>4. \A d \in Sockets : Cl!IsClient(d) => d.of \in ClientIds /\ d = Cl!Client(d.of)
  BY <1>2, <1>3 DEF Sockets
<1> QED BY <1>1, <1>2, <1>3, <1>4

\* The entry of a client goes, and the table stays as it should be.
LEMMA ClTableCloses ==
  ASSUME ClInv, NEW x \in ClientIds, NEW i \in 1..Len(pfds), pfds[i].fd = Cl!Client(x),
         pfds' = Cl!Removed(i), Len(clients') = Len(clients) - 1
  PROVE  /\ ClTable' /\ Len(pfds') = Len(pfds) - 1
         /\ \A j \in 1..Len(pfds') : pfds'[j] = IF j = i THEN pfds[Len(pfds)] ELSE pfds[j]
         /\ \A d : (\E j \in 1..Len(pfds') : pfds'[j].fd = d) <=>
                       d # Cl!Client(x) /\ \E j \in 1..Len(pfds) : pfds[j].fd = d
<1> DEFINE R == [fd : Sockets, revents : {"none", "IN", "HUP"}]
<1>1. /\ pfds \in Seq(R) /\ Len(pfds) = NumListeners + Len(clients)
      /\ \A j \in 1..Len(pfds) : (Cl!IsClient(pfds[j].fd) <=> j > NumListeners)
      /\ \A j \in 1..Len(pfds) : pfds[j].revents = "HUP" => Cl!IsClient(pfds[j].fd)
      /\ \A j, k \in 1..Len(pfds) : pfds[j].fd = pfds[k].fd => j = k
      /\ \A d \in Cl!Listeners : \E j \in 1..Len(pfds) : pfds[j].fd = d
  BY DEF ClInv, ClTable
<1>2. NumListeners \in Nat /\ NumListeners > 0 BY ListenersCount
<1>3. /\ pfds' \in Seq(R) /\ Len(pfds') = Len(pfds) - 1
      /\ \A j \in 1..Len(pfds') : pfds'[j] = IF j = i THEN pfds[Len(pfds)] ELSE pfds[j]
  <2> HIDE DEF R
  <2> QED BY <1>1, RemovedFacts
<1> HIDE DEF R
<1>4. i > NumListeners BY <1>1, ClientFds
<1>5. Len(pfds) \in Nat BY <1>1
<1> DEFINE from(j) == IF j = i THEN Len(pfds) ELSE j
<1>6. \A j \in 1..Len(pfds') : /\ from(j) \in 1..Len(pfds) /\ pfds'[j] = pfds[from(j)] /\ from(j) # i
                               /\ (from(j) > NumListeners <=> j > NumListeners)
  BY <1>2, <1>3, <1>4, <1>5
<1>7. \A j, k \in 1..Len(pfds') : from(j) = from(k) => j = k BY <1>3, <1>5
<1>8. \A j \in 1..Len(pfds) : j # i => \E k \in 1..Len(pfds') : from(k) = j
  <2> SUFFICES ASSUME NEW j \in 1..Len(pfds), j # i PROVE \E k \in 1..Len(pfds') : from(k) = j
    OBVIOUS
  <2>1. CASE j < Len(pfds)
    <3>1. j \in 1..Len(pfds') /\ from(j) = j BY <1>3, <1>5, <2>1
    <3> QED BY <3>1
  <2>2. CASE j = Len(pfds)
    <3>1. i \in 1..Len(pfds') /\ from(i) = j BY <1>3, <1>5, <2>2
    <3> QED BY <3>1
  <2> QED BY <1>5, <2>1, <2>2
<1> HIDE DEF from
<1>9. ASSUME NEW d
      PROVE (\E j \in 1..Len(pfds') : pfds'[j].fd = d) <=>
                d # Cl!Client(x) /\ \E j \in 1..Len(pfds) : pfds[j].fd = d
  <2>1. ASSUME NEW j \in 1..Len(pfds') PROVE pfds'[j].fd # Cl!Client(x) BY <1>1, <1>6
  <2>2. ASSUME NEW j \in 1..Len(pfds), pfds[j].fd = d, d # Cl!Client(x)
        PROVE  \E k \in 1..Len(pfds') : pfds'[k].fd = d
    <3>1. PICK k \in 1..Len(pfds') : from(k) = j BY <1>8, <2>2
    <3> QED BY <1>6, <2>2, <3>1
  <2> QED BY <1>6, <2>1, <2>2
<1>10. ClTable'
  <2>1. Len(pfds') = NumListeners + Len(clients')
    <3>1. Len(clients) \in Nat BY DEF ClInv, ClLists
    <3> QED BY <1>1, <1>2, <1>3, <3>1
  <2>2. ASSUME NEW j \in 1..Len(pfds')
        PROVE  /\ Cl!IsClient(pfds'[j].fd) <=> j > NumListeners
               /\ pfds'[j].revents = "HUP" => Cl!IsClient(pfds'[j].fd)
    <3>1. /\ from(j) \in 1..Len(pfds) /\ pfds'[j] = pfds[from(j)]
          /\ (from(j) > NumListeners <=> j > NumListeners)
      BY <1>6
    <3> QED BY <1>1, <3>1
  <2>3. ASSUME NEW j \in 1..Len(pfds'), NEW k \in 1..Len(pfds'), pfds'[j].fd = pfds'[k].fd PROVE j = k
    <3>1. from(j) = from(k) BY <1>1, <1>6, <2>3
    <3> QED BY <1>7, <3>1
  <2>4. ASSUME NEW d \in Cl!Listeners PROVE \E j \in 1..Len(pfds') : pfds'[j].fd = d
    <3>1. d # Cl!Client(x) BY ClientFds
    <3>2. \E j \in 1..Len(pfds) : pfds[j].fd = d BY <1>1
    <3>3. (\E j \in 1..Len(pfds') : pfds'[j].fd = d) <=>
                d # Cl!Client(x) /\ \E j \in 1..Len(pfds) : pfds[j].fd = d
      BY <1>9
    <3> QED BY <3>1, <3>2, <3>3
  <2> QED BY <1>3, <2>1, <2>2, <2>3, <2>4 DEF ClTable, R
<1>11. \A d : (\E j \in 1..Len(pfds') : pfds'[j].fd = d) <=>
                  d # Cl!Client(x) /\ \E j \in 1..Len(pfds) : pfds[j].fd = d
  BY <1>9
<1> QED BY <1>3, <1>10, <1>11

LEMMA ClCloses ==
  ASSUME ClInv, NEW x \in ClientIds, NEW i \in 1..Len(pfds), pfds[i].fd = Cl!Client(x),
         pfds' = Cl!Removed(i), Cl!CloseClient(x), UNCHANGED zeroed
  PROVE  /\ ClTable' /\ ClLists' /\ ClChannels' /\ Len(pfds') = Len(pfds) - 1
         /\ \A j \in 1..Len(pfds') : pfds'[j] = IF j = i THEN pfds[Len(pfds)] ELSE pfds[j]
         /\ chan_ptr' \in [ClientIds -> ClientChannels \cup {Cl!NoChan}]
         /\ askedChannel' \in [ClientIds -> ClientChannels \cup {Cl!NoChan}]
         /\ kept' \in [ClientIds -> BOOLEAN] /\ num_clients' \in [ClientChannels -> Int]
<1>1. ClTable /\ ClLists /\ ClChannels /\ ClFields BY DEF ClInv
<1>2. /\ clients' = Cl!Unlinked(clients, x) /\ client_number' = client_number - 1
      /\ chan_ptr' = [chan_ptr EXCEPT ![x] = Cl!NoChan]
      /\ askedChannel' = [askedChannel EXCEPT ![x] = Cl!NoChan] /\ kept' = [kept EXCEPT ![x] = FALSE]
  BY DEF Cl!CloseClient
<1>3. clients \in Seq(ClientIds) /\ Once(clients) /\ x \in Names(clients) BY <1>1 DEF ClLists
<1>4. /\ clients' \in Seq(ClientIds) /\ Len(clients') = Len(clients) - 1 /\ Once(clients')
      /\ \A y : y \in Names(clients') <=> y # x /\ y \in Names(clients)
  BY <1>2, <1>3, UnlinkedFacts
<1>5. /\ ClTable' /\ Len(pfds') = Len(pfds) - 1
      /\ \A j \in 1..Len(pfds') : pfds'[j] = IF j = i THEN pfds[Len(pfds)] ELSE pfds[j]
      /\ \A d : (\E j \in 1..Len(pfds') : pfds'[j].fd = d) <=>
                    d # Cl!Client(x) /\ \E j \in 1..Len(pfds) : pfds[j].fd = d
  BY <1>4, ClTableCloses
<1>6. /\ chan_ptr' \in [ClientIds -> ClientChannels \cup {Cl!NoChan}]
      /\ askedChannel' \in [ClientIds -> ClientChannels \cup {Cl!NoChan}]
      /\ kept' \in [ClientIds -> BOOLEAN] /\ chan_ptr'[x] = Cl!NoChan /\ askedChannel'[x] = Cl!NoChan
      /\ \A y \in ClientIds : y # x => chan_ptr'[y] = chan_ptr[y] /\ askedChannel'[y] = askedChannel[y]
  BY <1>1, <1>2 DEF ClFields
<1>7. ClLists'
  <2>1. client_number' = Len(clients') /\ (max_clients > 0 => client_number' <= max_clients)
    <3>1. Len(clients) \in Nat /\ max_clients \in Int BY <1>3, PortsOfChannels DEF Cl!ClientsAssumption
    <3> QED BY <1>1, <1>2, <1>4, <3>1 DEF ClLists
  <2>2. ASSUME NEW y \in ClientIds
        PROVE  y \in Names(clients') <=> \E j \in 1..Len(pfds') : pfds'[j].fd = Cl!Client(y)
    <3>1. y \in Names(clients) <=> \E j \in 1..Len(pfds) : pfds[j].fd = Cl!Client(y)
      BY <1>1 DEF ClLists
    <3>2. Cl!Client(y) # Cl!Client(x) <=> y # x BY ClientFds
    <3> QED BY <1>4, <1>5, <3>1, <3>2
  <2>3. \A y \in ClientIds : y \notin Names(clients') => chan_ptr'[y] = Cl!NoChan /\ askedChannel'[y] = Cl!NoChan
    BY <1>1, <1>4, <1>6 DEF ClLists
  <2>4. \A y \in ClientIds : askedChannel'[y] # Cl!NoChan => chan_ptr'[y] = Cl!NoChan
    BY <1>1, <1>6 DEF ClLists
  <2> QED BY <1>4, <2>1, <2>2, <2>3, <2>4 DEF ClLists
<1>8. \A c \in ClientChannels : c # Cl!NoChan BY PortsOfChannels DEF Cl!ClientsAssumption, Cl!NoChan
<1>9. CASE chan_ptr[x] = Cl!NoChan
  <2>1. UNCHANGED <<chan_clients, num_clients>> BY <1>9 DEF Cl!CloseClient
  <2>2. chan_ptr' = chan_ptr BY <1>1, <1>2, <1>9 DEF ClFields
  <2>3. ClChannels' BY <1>1, <2>1, <2>2 DEF ClChannels
  <2> QED BY <1>1, <1>5, <1>6, <1>7, <2>1, <2>3 DEF ClFields
<1>10. CASE chan_ptr[x] # Cl!NoChan
  <2> DEFINE c == chan_ptr[x]
             list == chan_clients[c]
  <2>1. c \in ClientChannels BY <1>1, <1>10 DEF ClFields
  <2>2. /\ chan_clients' = [chan_clients EXCEPT ![c] = Cl!Unlinked(list, x)]
        /\ num_clients' = [num_clients EXCEPT ![c] = @ - 1]
    BY <1>10 DEF Cl!CloseClient
  <2>3. list \in Seq(ClientIds) /\ Once(list) /\ x \in Names(list) BY <1>1, <2>1 DEF ClChannels
  <2> HIDE DEF list
  <2>4. /\ Cl!Unlinked(list, x) \in Seq(ClientIds) /\ Len(Cl!Unlinked(list, x)) = Len(list) - 1
        /\ Once(Cl!Unlinked(list, x))
        /\ \A y : y \in Names(Cl!Unlinked(list, x)) <=> y # x /\ y \in Names(list)
    BY <2>3, UnlinkedFacts
  <2>5. chan_clients \in [ClientChannels -> Seq(ClientIds)] /\ num_clients \in [ClientChannels -> Int]
    BY <1>1 DEF ClChannels, ClFields
  <2>6. /\ chan_clients' \in [ClientChannels -> Seq(ClientIds)] /\ num_clients' \in [ClientChannels -> Int]
        /\ chan_clients'[c] = Cl!Unlinked(list, x) /\ num_clients'[c] = num_clients[c] - 1
        /\ \A b \in ClientChannels : b # c => chan_clients'[b] = chan_clients[b] /\ num_clients'[b] = num_clients[b]
    BY <2>1, <2>2, <2>4, <2>5
  <2>7. ASSUME NEW b \in ClientChannels
        PROVE  /\ Once(chan_clients'[b])
               /\ \A y \in ClientIds : y \in Names(chan_clients'[b]) <=> chan_ptr'[y] = b
               /\ b \notin zeroed' => num_clients'[b] = Len(chan_clients'[b])
    <3>1. /\ Once(chan_clients[b])
          /\ \A y \in ClientIds : y \in Names(chan_clients[b]) <=> chan_ptr[y] = b
          /\ b \notin zeroed => num_clients[b] = Len(chan_clients[b])
      BY <1>1 DEF ClChannels
    <3>2. CASE b = c
      <4>1. \A y \in ClientIds : y \in Names(chan_clients'[b]) <=> chan_ptr'[y] = b
        BY <1>6, <1>8, <2>4, <2>6, <3>1, <3>2 DEF list
      <4> QED BY <2>4, <2>6, <3>1, <3>2, <4>1 DEF list
    <3>3. CASE b # c
      <4>1. \A y \in ClientIds : chan_ptr'[y] = b <=> chan_ptr[y] = b BY <1>6, <1>8, <3>3
      <4> QED BY <2>6, <3>1, <3>3, <4>1
    <3> QED BY <3>2, <3>3
  <2>8. ClChannels' BY <2>6, <2>7 DEF ClChannels
  <2> QED BY <1>5, <1>6, <1>7, <2>6, <2>8
<1> QED BY <1>9, <1>10

\* The walk closes the client it is at.
LEMMA ClClosesHere ==
  ASSUME ClInv, NEW i \in 1..Len(pfds), NEW x \in ClientIds, pfds[i].fd = Cl!Client(x), actual_fd = i,
         NEW back \in Int, back = i \/ back = i - 1, Cl!CloseHere(i, x, back)
  PROVE  ClInv'
<1>1. /\ Cl!CloseClient(x) /\ pfds' = Cl!Removed(i) /\ due' = due \ {Cl!Client(x)} /\ zeroed' = zeroed
      /\ actual_fd' = IF i <= Len(pfds') /\ pfds'[i].revents # "none" THEN back ELSE i + 1
  BY DEF Cl!CloseHere
<1>2. /\ ClTable' /\ ClLists' /\ ClChannels' /\ Len(pfds') = Len(pfds) - 1
      /\ \A j \in 1..Len(pfds') : pfds'[j] = IF j = i THEN pfds[Len(pfds)] ELSE pfds[j]
      /\ chan_ptr' \in [ClientIds -> ClientChannels \cup {Cl!NoChan}]
      /\ askedChannel' \in [ClientIds -> ClientChannels \cup {Cl!NoChan}]
      /\ kept' \in [ClientIds -> BOOLEAN] /\ num_clients' \in [ClientChannels -> Int]
  BY <1>1, ClCloses
<1>3. ClTable /\ ClDue BY DEF ClInv
<1>4. Len(pfds) \in Nat BY <1>3 DEF ClTable
<1>5. NumListeners \in Nat /\ NumListeners > 0 BY ListenersCount
<1>6. i > NumListeners
  <2>1. Cl!IsClient(pfds[i].fd) <=> i > NumListeners BY <1>3 DEF ClTable
  <2>2. Cl!IsClient(pfds[i].fd) BY ClientFds
  <2> QED BY <2>1, <2>2
<1>7. back > 0 /\ back <= i BY <1>5, <1>6
<1> DEFINE m == Len(pfds)
           m2 == Len(pfds')
<1>8. actual_fd' \in 1..m2 + 2 /\ (actual_fd' = back \/ actual_fd' = i + 1)
  <2>1. m2 = m - 1 /\ m \in Nat /\ i \in 1..m BY <1>2, <1>4
  <2>2. actual_fd' = back \/ actual_fd' = i + 1 BY <1>1
  <2> HIDE DEF m, m2
  <2> QED BY <1>7, <2>1, <2>2
<1>9. ClFields'
  <2>1. m2 \in Nat BY <1>2 DEF ClTable
  <2>2. actual_fd' \in 0..m2 + 2
    <3> HIDE DEF m2
    <3> QED BY <1>8, <2>1
  <2> QED BY <1>2, <2>2 DEF ClFields
<1>10. ClDue'
  <2>1. actual_fd' # 0
    <3>1. m2 \in Nat BY <1>2 DEF ClTable
    <3> HIDE DEF m2
    <3> QED BY <1>8, <3>1
  <2>2. ASSUME NEW d \in due'
        PROVE  \E j \in 1..Len(pfds') : j >= actual_fd' /\ pfds'[j].fd = d /\ pfds'[j].revents # "none"
    <3>1. d \in due /\ d # Cl!Client(x) BY <1>1
    <3>2. PICK j \in 1..m : j >= i /\ pfds[j].fd = d /\ pfds[j].revents # "none" BY <1>3, <3>1 DEF ClDue
    <3>3. j # i BY <3>1, <3>2
    <3>4. m2 = m - 1 /\ m \in Nat BY <1>2, <1>4
    <3>5. CASE j < m
      <4>1. j \in 1..m2 /\ pfds'[j] = pfds[j]
        <5>1. j \in 1..m2
          <6> HIDE DEF m, m2
          <6> QED BY <3>2, <3>4, <3>5
        <5> QED BY <1>2, <3>3, <5>1
      <4>2. j >= actual_fd'
        <5> HIDE DEF m, m2
        <5> QED BY <1>7, <1>8, <3>2, <3>3
      <4> QED BY <3>2, <4>1, <4>2
    <3>6. CASE j = m
      <4>1. i \in 1..m2
        <5>1. i \in 1..m BY DEF m
        <5> HIDE DEF m, m2
        <5> QED BY <3>2, <3>3, <3>4, <3>6, <5>1
      <4>2. pfds'[i] = pfds[j] BY <1>2, <3>6, <4>1
      <4>3. actual_fd' = back
        <5>1. i <= m2
          <6> HIDE DEF m2
          <6> QED BY <4>1
        <5> QED BY <1>1, <3>2, <4>2, <5>1
      <4>4. i >= actual_fd' BY <1>7, <4>3
      <4> QED BY <3>2, <4>1, <4>2, <4>4
    <3>7. j < m \/ j = m
      <4> HIDE DEF m
      <4> QED BY <3>2, <3>4
    <3> QED BY <3>5, <3>6, <3>7
  <2> QED BY <2>1, <2>2 DEF ClDue
<1> QED BY <1>2, <1>9, <1>10 DEF ClInv

\* A client that is not in the table is nowhere.
LEMMA ClNobody ==
  ASSUME ClInv, NEW x \in ClientIds, Cl!Client(x) \notin Cl!Descriptors
  PROVE  x \notin Names(clients) /\ chan_ptr[x] = Cl!NoChan /\ askedChannel[x] = Cl!NoChan
<1>1. ClLists BY DEF ClInv
<1>2. ~\E i \in 1..Len(pfds) : pfds[i].fd = Cl!Client(x) BY DEF Cl!Descriptors
<1>3. x \notin Names(clients) BY <1>1, <1>2 DEF ClLists
<1> QED BY <1>1, <1>3 DEF ClLists

\* A list with one more name at its end.
LEMMA AppendedFacts ==
  ASSUME NEW S, NEW s \in Seq(S), NEW x \in S
  PROVE  /\ Append(s, x) \in Seq(S) /\ Len(Append(s, x)) = Len(s) + 1
         /\ \A i \in 1..Len(s) : Append(s, x)[i] = s[i]
         /\ Append(s, x)[Len(s) + 1] = x
         /\ Once(s) /\ x \notin Names(s) => Once(Append(s, x))
         /\ \A y : y \in Names(Append(s, x)) <=> y = x \/ y \in Names(s)
<1> DEFINE r == Append(s, x)
           n == Len(s)
<1>1. /\ r \in Seq(S) /\ Len(r) = n + 1 /\ n \in Nat
      /\ \A i \in 1..n : r[i] = s[i]
      /\ r[n + 1] = x
  OBVIOUS
<1> HIDE DEF r
<1>2. \A y : y \in Names(s) <=> \E i \in 1..n : s[i] = y BY NamesFacts
<1>3. \A y : y \in Names(r) <=> \E i \in 1..n + 1 : r[i] = y BY <1>1, NamesFacts
<1> HIDE DEF n
<1>4. 1..n + 1 = 1..n \cup {n + 1} BY <1>1
<1>5. \A y : y \in Names(r) <=> y = x \/ y \in Names(s) BY <1>1, <1>2, <1>3, <1>4
<1>6. ASSUME Once(s), x \notin Names(s) PROVE Once(r)
  <2>1. \A i, j \in 1..n : s[i] = s[j] => i = j BY <1>6 DEF Once, n
  <2>2. \A i \in 1..n : s[i] # x BY <1>2, <1>6
  <2>3. \A i, j \in 1..n + 1 : r[i] = r[j] => i = j BY <1>1, <1>4, <2>1, <2>2
  <2> QED BY <1>1, <2>3 DEF Once
<1> QED BY <1>1, <1>5, <1>6 DEF r, n

\* The events of the table change and nothing else of it.
LEMMA ClMarked ==
  ASSUME ClInv, UNCHANGED <<clients, client_number, chan_ptr, askedChannel, kept, chan_clients,
                            num_clients, zeroed>>,
         pfds' \in Seq([fd : Sockets, revents : {"none", "IN", "HUP"}]), Len(pfds') = Len(pfds),
         \A i \in 1..Len(pfds) : /\ pfds'[i].fd = pfds[i].fd
                                 /\ pfds'[i].revents = "HUP" => Cl!IsClient(pfds[i].fd)
  PROVE  ClTable' /\ ClLists' /\ ClChannels'
<1>1. ClTable /\ ClLists /\ ClChannels BY DEF ClInv
<1>2. ClTable'
  <2> DEFINE R == [fd : Sockets, revents : {"none", "IN", "HUP"}]
  <2>1. pfds' \in Seq(R) /\ Len(pfds') = NumListeners + Len(clients') BY <1>1 DEF ClTable
  <2>2. \A i \in 1..Len(pfds') : /\ Cl!IsClient(pfds'[i].fd) <=> i > NumListeners
                                 /\ pfds'[i].revents = "HUP" => Cl!IsClient(pfds'[i].fd)
    BY <1>1 DEF ClTable
  <2>3. \A i, j \in 1..Len(pfds') : pfds'[i].fd = pfds'[j].fd => i = j BY <1>1 DEF ClTable
  <2>4. \A d \in Cl!Listeners : \E i \in 1..Len(pfds') : pfds'[i].fd = d BY <1>1 DEF ClTable
  <2> QED BY <2>1, <2>2, <2>3, <2>4 DEF ClTable
<1>3. ClLists'
  <2>1. \A x \in ClientIds : (\E i \in 1..Len(pfds') : pfds'[i].fd = Cl!Client(x))
                                 <=> \E i \in 1..Len(pfds) : pfds[i].fd = Cl!Client(x)
    OBVIOUS
  <2> QED BY <1>1, <2>1 DEF ClLists
<1>4. ClChannels' BY <1>1 DEF ClChannels
<1> QED BY <1>2, <1>3, <1>4

LEMMA ClPolls == ASSUME ClInv, Cl!Poll PROVE ClInv'
<1>1. PICK input \in SUBSET Cl!Descriptors, gone \in SUBSET {d \in Cl!Descriptors : Cl!IsClient(d)} :
         /\ pfds' = [i \in 1..Len(pfds) |-> [pfds[i] EXCEPT !.revents =
                        IF pfds[i].fd \in gone THEN "HUP" ELSE IF pfds[i].fd \in input THEN "IN" ELSE "none"]]
         /\ due' = input \cup gone
  BY DEF Cl!Poll
<1>2. /\ actual_fd' = 1
      /\ UNCHANGED <<clients, client_number, chan_ptr, askedChannel, kept, chan_clients, num_clients, zeroed>>
  BY DEF Cl!Poll
<1>3. ClTable /\ ClFields BY DEF ClInv
<1> DEFINE R == [fd : Sockets, revents : {"none", "IN", "HUP"}]
<1>4. pfds \in Seq(R) /\ Len(pfds) \in Nat BY <1>3 DEF ClTable
<1>5. \A i \in 1..Len(pfds) :
         pfds'[i] = [pfds[i] EXCEPT !.revents =
                        IF pfds[i].fd \in gone THEN "HUP" ELSE IF pfds[i].fd \in input THEN "IN" ELSE "none"]
  BY <1>1
<1>6. \A i \in 1..Len(pfds) :
         /\ pfds'[i] \in R /\ pfds'[i].fd = pfds[i].fd
         /\ pfds'[i].revents = IF pfds[i].fd \in gone THEN "HUP" ELSE IF pfds[i].fd \in input THEN "IN" ELSE "none"
  <2> SUFFICES ASSUME NEW i \in 1..Len(pfds)
      PROVE /\ pfds'[i] \in R /\ pfds'[i].fd = pfds[i].fd
            /\ pfds'[i].revents = IF pfds[i].fd \in gone THEN "HUP" ELSE IF pfds[i].fd \in input THEN "IN" ELSE "none"
    OBVIOUS
  <2>1. pfds[i] \in R
    <3> HIDE DEF R
    <3> QED BY <1>4
  <2> QED BY <1>5, <2>1
<1>7. pfds' \in Seq(R) /\ Len(pfds') = Len(pfds)
  <2>1. pfds' = [i \in 1..Len(pfds) |-> pfds'[i]] BY <1>1
  <2>2. \A i \in 1..Len(pfds) : pfds'[i] \in R BY <1>6
  <2> HIDE DEF R
  <2> QED BY <1>4, <2>1, <2>2
<1>8. \A i \in 1..Len(pfds) : pfds'[i].revents = "HUP" => Cl!IsClient(pfds[i].fd) BY <1>6
<1>9. ClTable' /\ ClLists' /\ ClChannels' BY <1>2, <1>6, <1>7, <1>8, ClMarked
<1>10. ClFields'
  <2> DEFINE m == Len(pfds')
  <2>1. m \in Nat BY <1>4, <1>7
  <2>2. actual_fd' \in 0..m + 2
    <3> HIDE DEF m
    <3> QED BY <1>2, <2>1
  <2> QED BY <1>2, <1>3, <2>2 DEF ClFields
<1>11. ClDue'
  <2>1. ASSUME NEW d \in due'
        PROVE  \E j \in 1..Len(pfds') : j >= actual_fd' /\ pfds'[j].fd = d /\ pfds'[j].revents # "none"
    <3>1. d \in input \/ d \in gone BY <1>1
    <3>2. d \in Cl!Descriptors BY <1>1, <3>1
    <3>3. PICK j \in 1..Len(pfds) : pfds[j].fd = d BY <3>2 DEF Cl!Descriptors
    <3>4. j >= 1 OBVIOUS
    <3> QED BY <1>2, <1>6, <1>7, <3>1, <3>3, <3>4
  <2> QED BY <1>2, <2>1 DEF ClDue
<1> QED BY <1>9, <1>10, <1>11 DEF ClInv

\* The walk goes on past an entry that owes nothing any more.
LEMMA ClGoesOn ==
  ASSUME ClInv, NEW i \in 1..Len(pfds), actual_fd = i, actual_fd' = i + 1, pfds' = pfds,
         due' = due \ {pfds[i].fd} \/ (due' = due /\ pfds[i].revents = "none")
  PROVE  ClDue' /\ actual_fd' \in 0..Len(pfds') + 2
<1>1. ClDue /\ ClTable BY DEF ClInv
<1> DEFINE m == Len(pfds)
<1>2. m \in Nat BY <1>1 DEF ClTable
<1>3. i \in 1..m OBVIOUS
<1>4. actual_fd' \in 0..m + 2 /\ actual_fd' # 0
  <2> HIDE DEF m
  <2> QED BY <1>2, <1>3
<1>5. ASSUME NEW d \in due'
      PROVE  \E j \in 1..m : j >= i + 1 /\ pfds[j].fd = d /\ pfds[j].revents # "none"
  <2>1. d \in due OBVIOUS
  <2>2. PICK j \in 1..m : j >= i /\ pfds[j].fd = d /\ pfds[j].revents # "none" BY <1>1, <2>1 DEF ClDue
  <2>3. j # i BY <2>2
  <2>4. j >= i + 1
    <3> HIDE DEF m
    <3> QED BY <1>2, <1>3, <2>2, <2>3
  <2> QED BY <2>2, <2>4
<1> QED BY <1>4, <1>5 DEF ClDue

LEMMA ClLooks ==
  ASSUME ClInv, NEW i \in 1..Len(pfds), Cl!Skips(i) \/ \E x \in ClientIds : Cl!KeepOther(i, x) \/ Cl!NotYet(i, x)
  PROVE  ClInv'
<1>1. /\ UNCHANGED <<pfds, clients, client_number, chan_ptr, askedChannel, chan_clients, num_clients, zeroed>>
      /\ actual_fd = i /\ actual_fd' = i + 1
      /\ due' = due \ {pfds[i].fd} \/ (due' = due /\ pfds[i].revents = "none")
  BY DEF Cl!Skips, Cl!KeepOther, Cl!NotYet, Cl!Readable, Cl!At
<1>2. kept' = kept \/ \E x \in ClientIds : kept' = [kept EXCEPT ![x] = TRUE]
  BY DEF Cl!Skips, Cl!KeepOther, Cl!NotYet
<1>3. ClTable /\ ClLists /\ ClChannels /\ ClFields BY DEF ClInv
<1>4. ClTable' BY <1>1, <1>3 DEF ClTable
<1>5. ClLists' BY <1>1, <1>3 DEF ClLists
<1>6. ClChannels' BY <1>1, <1>3 DEF ClChannels
<1>7. ClDue' /\ actual_fd' \in 0..Len(pfds') + 2 BY <1>1, ClGoesOn
<1>8. kept' \in [ClientIds -> BOOLEAN] BY <1>2, <1>3 DEF ClFields
<1>9. ClFields' BY <1>1, <1>3, <1>7, <1>8 DEF ClFields
<1> QED BY <1>4, <1>5, <1>6, <1>7, <1>9 DEF ClInv

LEMMA ClWalkEnds == ASSUME ClInv, Cl!WalkEnds PROVE ClInv'
<1>1. /\ actual_fd > Len(pfds) /\ actual_fd' = 0
      /\ pfds' = [i \in 1..Len(pfds) |-> [pfds[i] EXCEPT !.revents = "none"]]
      /\ UNCHANGED <<clients, client_number, chan_ptr, askedChannel, kept, chan_clients, num_clients, due, zeroed>>
  BY DEF Cl!WalkEnds
<1>2. ClTable /\ ClFields /\ ClDue BY DEF ClInv
<1> DEFINE R == [fd : Sockets, revents : {"none", "IN", "HUP"}]
<1>3. pfds \in Seq(R) /\ Len(pfds) \in Nat BY <1>2 DEF ClTable
<1>4. \A i \in 1..Len(pfds) : pfds'[i] \in R /\ pfds'[i].fd = pfds[i].fd /\ pfds'[i].revents = "none"
  <2> SUFFICES ASSUME NEW i \in 1..Len(pfds)
      PROVE pfds'[i] \in R /\ pfds'[i].fd = pfds[i].fd /\ pfds'[i].revents = "none"
    OBVIOUS
  <2>1. pfds[i] \in R
    <3> HIDE DEF R
    <3> QED BY <1>3
  <2>2. pfds'[i] = [pfds[i] EXCEPT !.revents = "none"] BY <1>1
  <2> QED BY <2>1, <2>2
<1>5. pfds' \in Seq(R) /\ Len(pfds') = Len(pfds)
  <2>1. pfds' = [i \in 1..Len(pfds) |-> pfds'[i]] BY <1>1
  <2>2. \A i \in 1..Len(pfds) : pfds'[i] \in R BY <1>4
  <2> HIDE DEF R
  <2> QED BY <1>3, <2>1, <2>2
<1>6. ClTable' /\ ClLists' /\ ClChannels' BY <1>1, <1>4, <1>5, ClMarked
<1>7. due = {}
  <2>1. ASSUME NEW d \in due PROVE FALSE
    <3> DEFINE m == Len(pfds)
    <3>1. PICK j \in 1..m : j >= actual_fd BY <1>2, <2>1 DEF ClDue
    <3>2. actual_fd \in 0..m + 2 BY <1>2 DEF ClFields
    <3> HIDE DEF m
    <3>3. m \in Nat /\ actual_fd > m BY <1>1, <1>3 DEF m
    <3> QED BY <3>1, <3>2, <3>3
  <2> QED BY <2>1
<1>8. ClDue' BY <1>1, <1>7 DEF ClDue
<1>9. ClFields'
  <2> DEFINE m == Len(pfds')
  <2>1. m \in Nat BY <1>3, <1>5
  <2>2. actual_fd' \in 0..m + 2
    <3> HIDE DEF m
    <3> QED BY <1>1, <2>1
  <2> QED BY <1>1, <1>2, <2>2 DEF ClFields
<1> QED BY <1>6, <1>8, <1>9 DEF ClInv

\* A connection is accepted: the client has the last entry of the table, and no channel.
LEMMA ClAccepts == ASSUME ClInv, NEW i \in 1..Len(pfds), Cl!Accept(i) PROVE ClInv'
<1>1. ClTable /\ ClLists /\ ClChannels /\ ClDue /\ ClFields BY DEF ClInv
<1>2. /\ actual_fd = i /\ ~Cl!IsClient(pfds[i].fd) /\ due' = due \ {pfds[i].fd} /\ actual_fd' = i + 1
      /\ UNCHANGED <<chan_ptr, kept, chan_clients, num_clients, zeroed>>
  BY DEF Cl!Accept, Cl!At
<1>3. CASE UNCHANGED <<pfds, clients, client_number, askedChannel>>
  <2>1. ClTable' BY <1>1, <1>3 DEF ClTable
  <2>2. ClLists' BY <1>1, <1>2, <1>3 DEF ClLists
  <2>3. ClChannels' BY <1>1, <1>2, <1>3 DEF ClChannels
  <2>4. ClDue' /\ actual_fd' \in 0..Len(pfds') + 2 BY <1>2, <1>3, ClGoesOn
  <2>5. ClFields' BY <1>1, <1>2, <1>3, <2>4 DEF ClFields
  <2> QED BY <2>1, <2>2, <2>3, <2>4, <2>5 DEF ClInv
<1>4. CASE ~UNCHANGED <<pfds, clients, client_number, askedChannel>>
  <2>1. PICK x \in ClientIds :
           /\ Cl!Client(x) \notin Cl!Descriptors
           /\ pfds' = Append(pfds, [fd |-> Cl!Client(x), revents |-> "none"])
           /\ clients' = Append(clients, x) /\ client_number' = client_number + 1
           /\ askedChannel' = [askedChannel EXCEPT ![x] = pfds[i].fd.of]
           /\ max_clients > 0 => client_number < max_clients
    BY <1>4 DEF Cl!Accept, Cl!AddClient
  <2>2. x \notin Names(clients) /\ chan_ptr[x] = Cl!NoChan BY <2>1, ClNobody
  <2> DEFINE R == [fd : Sockets, revents : {"none", "IN", "HUP"}]
             e == [fd |-> Cl!Client(x), revents |-> "none"]
             n == Len(pfds)
             p == Append(pfds, e)
  <2>3. pfds \in Seq(R) /\ n \in Nat /\ i \in 1..n BY <1>1 DEF ClTable
  <2>4. e \in R /\ e.fd = Cl!Client(x) /\ e.revents = "none" BY DEF Sockets
  <2>5. /\ p \in Seq(R) /\ Len(p) = n + 1 /\ p[n + 1] = e
        /\ \A j \in 1..n : p[j] = pfds[j]
    <3> HIDE DEF R, e
    <3> QED BY <2>3, <2>4, AppendedFacts
  <2>6. pfds' = p BY <2>1
  <2>7. 1..n + 1 = 1..n \cup {n + 1} /\ n + 1 \notin 1..n
    <3> HIDE DEF n
    <3> QED BY <2>3
  <2>8. /\ clients' \in Seq(ClientIds) /\ Len(clients') = Len(clients) + 1 /\ Once(clients')
        /\ \A y : y \in Names(clients') <=> y = x \/ y \in Names(clients)
    BY <1>1, <2>1, <2>2, AppendedFacts DEF ClLists
  <2> HIDE DEF p, e
  <2>9. \A j \in 1..n : pfds[j].fd # Cl!Client(x) BY <2>1 DEF Cl!Descriptors
  <2>10. \A d : (\E j \in 1..Len(pfds') : pfds'[j].fd = d) <=>
                    d = Cl!Client(x) \/ \E j \in 1..n : pfds[j].fd = d
    BY <2>4, <2>5, <2>6, <2>7
  <2>11. ClTable'
    <3>1. pfds' \in Seq(R) /\ Len(pfds') = NumListeners + Len(clients')
      <4>1. NumListeners \in Nat /\ Len(clients) \in Nat BY <1>1, ListenersCount DEF ClLists
      <4>2. n = NumListeners + Len(clients) BY <1>1 DEF ClTable
      <4> HIDE DEF n, R
      <4> QED BY <2>5, <2>6, <2>8, <4>1, <4>2
    <3>2. n + 1 > NumListeners
      <4>1. NumListeners \in Nat /\ Len(clients) \in Nat /\ n = NumListeners + Len(clients)
        BY <1>1, ListenersCount DEF ClLists, ClTable
      <4> HIDE DEF n
      <4> QED BY <4>1
    <3>3. ASSUME NEW j \in 1..n + 1
          PROVE  /\ Cl!IsClient(pfds'[j].fd) <=> j > NumListeners
                 /\ pfds'[j].revents = "HUP" => Cl!IsClient(pfds'[j].fd)
      <4>1. CASE j \in 1..n BY <1>1, <2>5, <2>6, <4>1 DEF ClTable
      <4>2. CASE j = n + 1 BY <2>4, <2>5, <2>6, <3>2, <4>2, ClientFds
      <4> QED BY <2>7, <4>1, <4>2
    <3>4. \A j, k \in 1..n + 1 : pfds'[j].fd = pfds'[k].fd => j = k
      <4>1. \A j, k \in 1..n : pfds[j].fd = pfds[k].fd => j = k BY <1>1 DEF ClTable
      <4> HIDE DEF n
      <4> QED BY <2>4, <2>5, <2>6, <2>7, <2>9, <4>1
    <3>5. \A d \in Cl!Listeners : \E j \in 1..Len(pfds') : pfds'[j].fd = d BY <1>1, <2>10 DEF ClTable
    <3> QED BY <2>5, <2>6, <3>1, <3>3, <3>4, <3>5 DEF ClTable
  <2>12. pfds[i].fd \in Cl!Listeners
    <3>1. pfds[i] \in R
      <4> HIDE DEF R
      <4> QED BY <2>3
    <3>2. pfds[i].fd \in Sockets BY <3>1
    <3> QED BY <1>2, <3>2, ClientFds DEF Sockets
  <2>13. pfds[i].fd.of \in ClientChannels \cup {Cl!NoChan} BY <2>12, ClientFds
  <2>14. /\ askedChannel' \in [ClientIds -> ClientChannels \cup {Cl!NoChan}]
         /\ \A y \in ClientIds : y # x => askedChannel'[y] = askedChannel[y]
    <3>1. askedChannel \in [ClientIds -> ClientChannels \cup {Cl!NoChan}] BY <1>1 DEF ClFields
    <3> QED BY <2>1, <2>13, <3>1
  <2>15. ClLists'
    <3>1. client_number' = Len(clients') /\ (max_clients > 0 => client_number' <= max_clients)
      <4>1. client_number = Len(clients) /\ Len(clients) \in Nat /\ max_clients \in Int
        BY <1>1, PortsOfChannels DEF ClLists, Cl!ClientsAssumption
      <4> QED BY <2>1, <2>8, <4>1
    <3>2. ASSUME NEW y \in ClientIds
          PROVE  y \in Names(clients') <=> \E j \in 1..Len(pfds') : pfds'[j].fd = Cl!Client(y)
      <4>1. y \in Names(clients) <=> \E j \in 1..n : pfds[j].fd = Cl!Client(y) BY <1>1 DEF ClLists
      <4>2. Cl!Client(y) = Cl!Client(x) <=> y = x BY ClientFds
      <4> QED BY <2>8, <2>10, <4>1, <4>2
    <3>3. \A y \in ClientIds : y \notin Names(clients') => chan_ptr'[y] = Cl!NoChan /\ askedChannel'[y] = Cl!NoChan
      BY <1>1, <1>2, <2>8, <2>14 DEF ClLists
    <3>4. \A y \in ClientIds : askedChannel'[y] # Cl!NoChan => chan_ptr'[y] = Cl!NoChan
      BY <1>1, <1>2, <2>2, <2>14 DEF ClLists
    <3> QED BY <2>8, <3>1, <3>2, <3>3, <3>4 DEF ClLists
  <2>16. ClChannels' BY <1>1, <1>2 DEF ClChannels
  <2>17. actual_fd' \in 0..(n + 1) + 2 /\ actual_fd' # 0
    <3> HIDE DEF n
    <3> QED BY <1>2, <2>3
  <2>18. ClFields' BY <1>1, <1>2, <2>5, <2>6, <2>14, <2>17 DEF ClFields
  <2>19. ClDue'
    <3>1. ASSUME NEW d \in due'
          PROVE  \E j \in 1..Len(pfds') : j >= actual_fd' /\ pfds'[j].fd = d /\ pfds'[j].revents # "none"
      <4>1. d \in due /\ d # pfds[i].fd BY <1>2
      <4>2. PICK j \in 1..n : j >= i /\ pfds[j].fd = d /\ pfds[j].revents # "none"
        BY <1>1, <1>2, <4>1 DEF ClDue
      <4>3. j # i BY <4>1, <4>2
      <4>4. j >= i + 1 /\ j \in 1..n + 1
        <5> HIDE DEF n
        <5> QED BY <2>3, <4>2, <4>3
      <4> QED BY <1>2, <2>5, <2>6, <4>2, <4>4
    <3> QED BY <2>17, <3>1 DEF ClDue
  <2> QED BY <2>11, <2>15, <2>16, <2>18, <2>19 DEF ClInv
<1> QED BY <1>3, <1>4

\* A client has a channel: it is the last of the channel's list.
LEMMA ClAdds ==
  ASSUME ClInv, NEW i \in 1..Len(pfds), NEW x \in ClientIds, Cl!AddToChannel(i, x) PROVE ClInv'
<1>1. ClTable /\ ClLists /\ ClChannels /\ ClDue /\ ClFields BY DEF ClInv
<1>2. PICK c \in ClientChannels :
         /\ askedChannel[x] = c \/ (askedChannel[x] = Cl!NoChan /\ chan_ptr[x] = Cl!NoChan)
         /\ chan_clients' = [chan_clients EXCEPT ![c] = Append(@, x)]
         /\ num_clients' = [num_clients EXCEPT ![c] = @ + 1]
         /\ chan_ptr' = [chan_ptr EXCEPT ![x] = c]
  BY DEF Cl!AddToChannel
<1>3. /\ askedChannel' = [askedChannel EXCEPT ![x] = Cl!NoChan] /\ actual_fd = i /\ actual_fd' = i + 1
      /\ pfds[i].fd = Cl!Client(x) /\ due' = due \ {pfds[i].fd}
      /\ UNCHANGED <<pfds, clients, client_number, kept, zeroed>>
  BY DEF Cl!AddToChannel, Cl!Readable, Cl!At
<1>4. \A b \in ClientChannels : b # Cl!NoChan BY PortsOfChannels DEF Cl!ClientsAssumption, Cl!NoChan
<1>5. chan_ptr[x] = Cl!NoChan BY <1>1, <1>2, <1>4 DEF ClLists
<1>6. x \in Names(clients) BY <1>1, <1>3 DEF ClLists
<1> DEFINE list == chan_clients[c]
<1>7. list \in Seq(ClientIds) /\ Once(list) /\ x \notin Names(list)
  BY <1>1, <1>4, <1>5 DEF ClChannels
<1>8. chan_clients' = [chan_clients EXCEPT ![c] = Append(list, x)] BY <1>2
<1> HIDE DEF list
<1>9. /\ Append(list, x) \in Seq(ClientIds) /\ Len(Append(list, x)) = Len(list) + 1 /\ Once(Append(list, x))
      /\ \A y : y \in Names(Append(list, x)) <=> y = x \/ y \in Names(list)
  BY <1>7, AppendedFacts
<1>10. /\ chan_clients' \in [ClientChannels -> Seq(ClientIds)] /\ chan_clients'[c] = Append(list, x)
       /\ \A b \in ClientChannels : b # c => chan_clients'[b] = chan_clients[b]
  <2>1. chan_clients \in [ClientChannels -> Seq(ClientIds)] BY <1>1 DEF ClChannels
  <2> DEFINE r == Append(list, x)
  <2>2. r \in Seq(ClientIds) /\ chan_clients' = [chan_clients EXCEPT ![c] = r] BY <1>8, <1>9
  <2> HIDE DEF r
  <2>3. /\ chan_clients' \in [ClientChannels -> Seq(ClientIds)] /\ chan_clients'[c] = r
        /\ \A b \in ClientChannels : b # c => chan_clients'[b] = chan_clients[b]
    BY <2>1, <2>2
  <2> QED BY <2>3 DEF r
<1>11. /\ num_clients' \in [ClientChannels -> Int] /\ num_clients'[c] = num_clients[c] + 1
       /\ \A b \in ClientChannels : b # c => num_clients'[b] = num_clients[b]
  BY <1>1, <1>2 DEF ClFields
<1>12. /\ chan_ptr' \in [ClientIds -> ClientChannels \cup {Cl!NoChan}] /\ chan_ptr'[x] = c
       /\ \A y \in ClientIds : y # x => chan_ptr'[y] = chan_ptr[y]
  BY <1>1, <1>2 DEF ClFields
<1>13. /\ askedChannel' \in [ClientIds -> ClientChannels \cup {Cl!NoChan}] /\ askedChannel'[x] = Cl!NoChan
       /\ \A y \in ClientIds : y # x => askedChannel'[y] = askedChannel[y]
  BY <1>1, <1>3 DEF ClFields
<1>14. ClTable' BY <1>1, <1>3 DEF ClTable
<1>15. ClLists' BY <1>1, <1>3, <1>6, <1>12, <1>13 DEF ClLists
<1>16. ClChannels'
  <2>1. ASSUME NEW b \in ClientChannels
        PROVE  /\ Once(chan_clients'[b])
               /\ \A y \in ClientIds : y \in Names(chan_clients'[b]) <=> chan_ptr'[y] = b
               /\ b \notin zeroed' => num_clients'[b] = Len(chan_clients'[b])
    <3>1. /\ Once(chan_clients[b])
          /\ \A y \in ClientIds : y \in Names(chan_clients[b]) <=> chan_ptr[y] = b
          /\ b \notin zeroed => num_clients[b] = Len(chan_clients[b])
      BY <1>1 DEF ClChannels
    <3>2. CASE b = c
      <4>1. \A y \in ClientIds : y \in Names(chan_clients'[b]) <=> chan_ptr'[y] = b
        BY <1>9, <1>10, <1>12, <3>1, <3>2 DEF list
      <4>2. Once(chan_clients'[b]) BY <1>9, <1>10, <3>2
      <4>3. b \notin zeroed' => num_clients'[b] = Len(chan_clients'[b])
        <5>1. b \notin zeroed => num_clients[c] = Len(list) BY <3>1, <3>2 DEF list
        <5> QED BY <1>3, <1>9, <1>10, <1>11, <3>2, <5>1
      <4> QED BY <4>1, <4>2, <4>3
    <3>3. CASE b # c
      <4>1. \A y \in ClientIds : chan_ptr'[y] = b <=> chan_ptr[y] = b BY <1>4, <1>5, <1>12, <3>3
      <4> QED BY <1>3, <1>10, <1>11, <3>1, <3>3, <4>1
    <3> QED BY <3>2, <3>3
  <2> QED BY <1>10, <2>1 DEF ClChannels
<1>17. ClDue' /\ actual_fd' \in 0..Len(pfds') + 2 BY <1>3, ClGoesOn
<1>18. ClFields' BY <1>1, <1>3, <1>11, <1>12, <1>13, <1>17 DEF ClFields
<1> QED BY <1>14, <1>15, <1>16, <1>17, <1>18 DEF ClInv

\* Between two walks nothing is owed.
LEMMA ClFails == ASSUME ClInv, NEW x \in ClientIds, Cl!SendFails(x) PROVE ClInv'
<1>1. ClTable /\ ClDue BY DEF ClInv
<1>2. PICK i \in 1..Len(pfds) : pfds[i].fd = Cl!Client(x) /\ pfds' = Cl!Removed(i) BY DEF Cl!SendFails
<1>3. Cl!CloseClient(x) /\ actual_fd = 0 /\ UNCHANGED <<actual_fd, due, zeroed>> BY DEF Cl!SendFails
<1>4. /\ ClTable' /\ ClLists' /\ ClChannels' /\ Len(pfds') = Len(pfds) - 1
      /\ chan_ptr' \in [ClientIds -> ClientChannels \cup {Cl!NoChan}]
      /\ askedChannel' \in [ClientIds -> ClientChannels \cup {Cl!NoChan}]
      /\ kept' \in [ClientIds -> BOOLEAN] /\ num_clients' \in [ClientChannels -> Int]
  BY <1>2, <1>3, ClCloses
<1>5. ClDue' BY <1>1, <1>3 DEF ClDue
<1>6. ClFields'
  <2> DEFINE m == Len(pfds')
  <2>1. m \in Nat BY <1>4 DEF ClTable
  <2>2. actual_fd' \in 0..m + 2
    <3> HIDE DEF m
    <3> QED BY <1>3, <2>1
  <2> QED BY <1>4, <2>2 DEF ClFields
<1> QED BY <1>4, <1>5, <1>6 DEF ClInv

LEMMA ClZeroes == ASSUME ClInv, NEW c \in ClientChannels, Cl!UpdateChanNet(c) PROVE ClInv'
<1>1. ClTable /\ ClLists /\ ClChannels /\ ClDue /\ ClFields BY DEF ClInv
<1>2. /\ num_clients' = [num_clients EXCEPT ![c] = 0] /\ zeroed' = zeroed \cup {c}
      /\ UNCHANGED <<pfds, clients, client_number, chan_ptr, askedChannel, kept, chan_clients, actual_fd, due>>
  BY DEF Cl!UpdateChanNet
<1>3. /\ num_clients' \in [ClientChannels -> Int]
      /\ \A b \in ClientChannels : b # c => num_clients'[b] = num_clients[b]
  BY <1>1, <1>2 DEF ClFields
<1>4. ClTable' BY <1>1, <1>2 DEF ClTable
<1>5. ClLists' BY <1>1, <1>2 DEF ClLists
<1>6. ClChannels' BY <1>1, <1>2, <1>3 DEF ClChannels
<1>7. ClDue' BY <1>1, <1>2 DEF ClDue
<1>8. ClFields' BY <1>1, <1>2, <1>3 DEF ClFields
<1> QED BY <1>4, <1>5, <1>6, <1>7, <1>8 DEF ClInv

LEMMA ClHangsUp == ASSUME ClInv, NEW i \in 1..Len(pfds), Cl!HangUp(i) PROVE ClInv'
<1>1. ClTable BY DEF ClInv
<1>2. actual_fd = i /\ pfds[i].revents = "HUP" /\ Cl!CloseHere(i, pfds[i].fd.of, i - 1)
  BY DEF Cl!HangUp, Cl!At
<1>3. pfds[i].fd \in Sockets
  <2> DEFINE R == [fd : Sockets, revents : {"none", "IN", "HUP"}]
  <2>1. pfds \in Seq(R) BY <1>1 DEF ClTable
  <2>2. pfds[i] \in R
    <3> HIDE DEF R
    <3> QED BY <2>1
  <2> QED BY <2>2
<1>4. Cl!IsClient(pfds[i].fd) BY <1>1, <1>2 DEF ClTable
<1>5. pfds[i].fd.of \in ClientIds /\ pfds[i].fd = Cl!Client(pfds[i].fd.of) BY <1>3, <1>4, ClientFds
<1>6. i - 1 \in Int OBVIOUS
<1> QED BY <1>2, <1>5, <1>6, ClClosesHere

LEMMA ClStep == ClInv /\ [Cl!Next]_clVars => ClInv'
<1> SUFFICES ASSUME ClInv, [Cl!Next]_clVars PROVE ClInv' OBVIOUS
<1>1. CASE Cl!Poll BY <1>1, ClPolls
<1>2. CASE Cl!WalkEnds BY <1>2, ClWalkEnds
<1>3. ASSUME NEW i \in 1..Len(pfds), Cl!Skips(i) PROVE ClInv' BY <1>3, ClLooks
<1>4. ASSUME NEW i \in 1..Len(pfds), Cl!HangUp(i) PROVE ClInv' BY <1>4, ClHangsUp
<1>5. ASSUME NEW i \in 1..Len(pfds), Cl!Accept(i) PROVE ClInv' BY <1>5, ClAccepts
<1>6. ASSUME NEW i \in 1..Len(pfds), NEW x \in ClientIds, Cl!AddToChannel(i, x) PROVE ClInv'
  BY <1>6, ClAdds
<1>7. ASSUME NEW i \in 1..Len(pfds), NEW x \in ClientIds, Cl!KeepOther(i, x) \/ Cl!NotYet(i, x) PROVE ClInv'
  BY <1>7, ClLooks
<1>8. ASSUME NEW i \in 1..Len(pfds), NEW x \in ClientIds, Cl!AnswerAndClose(i, x) PROVE ClInv'
  <2>1. actual_fd = i /\ pfds[i].fd = Cl!Client(x) /\ Cl!CloseHere(i, x, i)
    BY <1>8 DEF Cl!AnswerAndClose, Cl!Readable, Cl!At
  <2>2. i \in Int OBVIOUS
  <2> QED BY <2>1, <2>2, ClClosesHere
<1>9. ASSUME NEW x \in ClientIds, Cl!SendFails(x) PROVE ClInv' BY <1>9, ClFails
<1>10. ASSUME NEW c \in ClientChannels, Cl!UpdateChanNet(c) PROVE ClInv' BY <1>10, ClZeroes
<1>11. CASE UNCHANGED clVars
  <2>1. ClTable /\ ClLists /\ ClChannels /\ ClDue /\ ClFields BY DEF ClInv
  <2>2. UNCHANGED <<pfds, clients, client_number, chan_ptr, askedChannel, kept, chan_clients, num_clients,
                    actual_fd, due, zeroed>>
    BY <1>11 DEF clVars
  <2>3. ClTable' BY <2>1, <2>2 DEF ClTable
  <2>4. ClLists' BY <2>1, <2>2 DEF ClLists
  <2>5. ClChannels' BY <2>1, <2>2 DEF ClChannels
  <2>6. ClDue' BY <2>1, <2>2 DEF ClDue
  <2>7. ClFields' BY <2>1, <2>2 DEF ClFields
  <2> QED BY <2>3, <2>4, <2>5, <2>6, <2>7 DEF ClInv
<1> QED BY <1>1, <1>2, <1>3, <1>4, <1>5, <1>6, <1>7, <1>8, <1>9, <1>10, <1>11 DEF Cl!Next, Cl!Walk

LEMMA ClientsGoals == ClInv => Cl!TypeOK /\ Cl!ClientsAgree /\ Cl!NoneForgotten
<1> SUFFICES ASSUME ClInv PROVE Cl!TypeOK /\ Cl!ClientsAgree /\ Cl!NoneForgotten OBVIOUS
<1>1. ClTable /\ ClLists /\ ClChannels /\ ClDue /\ ClFields BY DEF ClInv
<1> DEFINE R == [fd : Sockets, revents : {"none", "IN", "HUP"}]
<1>2. \A i \in 1..Len(pfds) : pfds[i].fd \in Sockets /\ pfds[i].revents \in {"none", "IN", "HUP"}
  <2>1. ASSUME NEW i \in 1..Len(pfds) PROVE pfds[i] \in R
    <3>1. pfds \in Seq(R) BY <1>1 DEF ClTable
    <3> HIDE DEF R
    <3> QED BY <3>1
  <2> QED BY <2>1
<1>3. Cl!TypeOK
  <2>1. client_number \in Nat BY <1>1 DEF ClLists
  <2>2. clients \in Seq(ClientIds) /\ chan_clients \in [ClientChannels -> Seq(ClientIds)]
    BY <1>1 DEF ClLists, ClChannels
  <2> QED BY <1>1, <1>2, <2>1, <2>2 DEF Cl!TypeOK, ClFields, Sockets
<1>4. \A list : Cl!ToSet(list) = Names(list)
  BY DEF Cl!ToSet, Names
<1>5. \A x : x \in Names(clients) => x \in ClientIds
  <2>1. clients \in Seq(ClientIds) BY <1>1 DEF ClLists
  <2> QED BY <2>1, NamesFacts
<1>6. {d.of : d \in {e \in Cl!Descriptors : Cl!IsClient(e)}} = Names(clients)
  <2>1. ASSUME NEW d \in Cl!Descriptors, Cl!IsClient(d) PROVE d.of \in Names(clients)
    <3>1. PICK i \in 1..Len(pfds) : pfds[i].fd = d BY <2>1 DEF Cl!Descriptors
    <3>2. d.of \in ClientIds /\ d = Cl!Client(d.of) BY <1>2, <2>1, <3>1, ClientFds
    <3> QED BY <1>1, <3>1, <3>2 DEF ClLists
  <2>2. ASSUME NEW x \in Names(clients)
        PROVE  \E d \in Cl!Descriptors : Cl!IsClient(d) /\ d.of = x
    <3>1. x \in ClientIds BY <1>5
    <3>2. PICK i \in 1..Len(pfds) : pfds[i].fd = Cl!Client(x) BY <1>1, <3>1 DEF ClLists
    <3>3. Cl!Client(x) \in Cl!Descriptors BY <3>2 DEF Cl!Descriptors
    <3> QED BY <3>3, ClientFds
  <2> QED BY <2>1, <2>2
<1>7. Cl!Listeners \subseteq Cl!Descriptors BY <1>1 DEF ClTable, Cl!Descriptors
<1>8. Len(pfds) = Cl!Cardinality(Cl!Listeners) + Len(clients)
  BY <1>1 DEF ClTable, NumListeners, Cl!Cardinality, Cardinality
<1>9. \A list \in Seq(ClientIds) : Once(list) => Cl!IsInjective(list)
  BY DEF Once, Cl!IsInjective
<1>10. ASSUME NEW c \in ClientChannels
       PROVE  /\ Cl!IsInjective(chan_clients[c])
              /\ Cl!ToSet(chan_clients[c]) = {x \in Cl!ToSet(clients) : chan_ptr[x] = c}
              /\ c \notin zeroed => num_clients[c] = Len(chan_clients[c])
  <2> DEFINE list == chan_clients[c]
  <2>1. /\ Once(list) /\ list \in Seq(ClientIds)
        /\ \A x \in ClientIds : x \in Names(list) <=> chan_ptr[x] = c
        /\ c \notin zeroed => num_clients[c] = Len(list)
    BY <1>1 DEF ClChannels
  <2> HIDE DEF list
  <2>2. \A x \in ClientIds : chan_ptr[x] = c => x \in Names(clients)
    BY <1>1, PortsOfChannels DEF ClLists, Cl!ClientsAssumption, Cl!NoChan
  <2>3. \A x : x \in Names(list) => x \in ClientIds BY <2>1, NamesFacts
  <2>4. Names(list) = {x \in Names(clients) : chan_ptr[x] = c} BY <1>5, <2>1, <2>2, <2>3
  <2> QED BY <1>4, <1>9, <2>1, <2>4 DEF list
<1>11. Cl!ClientsAgree BY <1>1, <1>4, <1>6, <1>7, <1>8, <1>9, <1>10 DEF Cl!ClientsAgree, ClLists
<1>12. Cl!NoneForgotten BY <1>1 DEF ClDue, Cl!NoneForgotten
<1> QED BY <1>3, <1>11, <1>12

-----------------------------------------------------------------------------
(* Hls                                                                      *)

HlsTimes == 0..MaxHlsNow
HlsEntries == [sid : HlsServices \cup {0}, filenames : Seq(HlsTimes), access : HlsTimes, rotate : HlsTimes,
               need_rotate : BOOLEAN, sequence : Nat, traffic : BOOLEAN]

\* A service has one slot, and its chunks are bounded and counted.
HlsSlots ==
    /\ hls_fds \in [H!Slots -> HlsEntries]
    /\ \A e \in H!Slots :
         /\ hls_fds[e].rotate <= hls_now
         /\ hls_fds[e].need_rotate => hls_rotate_iframe
         /\ hls_fds[e].sid = 0 => hls_fds[e].filenames = <<>>
         /\ hls_fds[e].sid # 0 => /\ Len(hls_fds[e].filenames) \in 1..hls_rotate_count + 1
                                  /\ Len(hls_fds[e].filenames) <= hls_fds[e].sequence + 1
    /\ \A d, e \in H!Slots : hls_fds[d].sid = hls_fds[e].sid => d = e \/ hls_fds[d].sid = 0

\* The files on disk are those of the slots, and a playlist has a slot.
HlsFiles ==
    /\ chunks \subseteq HlsServices \X HlsTimes
    /\ \A f \in chunks : \E e \in H!Slots : hls_fds[e].sid = f[1] /\ f[2] \in Names(hls_fds[e].filenames)
    /\ \A e \in H!Slots : hls_fds[e].sid \notin twice \cup {0} =>
         /\ Once(hls_fds[e].filenames)
         /\ \A x \in Names(hls_fds[e].filenames) : <<hls_fds[e].sid, x>> \in chunks
    /\ playlist \in [HlsServices -> Seq(Int)] /\ twice \subseteq HlsServices
    /\ \A s \in HlsServices : playlist[s] # H!NoFile =>
         /\ \E e \in H!Slots : hls_fds[e].sid = s
         /\ s \notin twice => \A k \in 1..Len(playlist[s]) : <<s, playlist[s][k]>> \in chunks

HlsMaster ==
    /\ master \in (SUBSET HlsServices) \cup {H!NoMaster}
    /\ master # H!NoMaster /\ ~collided /\ ~hls_stopped =>
         \A s \in master : \E e \in H!Slots : hls_fds[e].sid = s
    /\ hls_stopped /\ ~late =>
         master = H!NoMaster /\ ~metrics /\ \A e \in H!Slots : hls_fds[e].sid = 0

\* The rounds come one period after the other.
HlsClock ==
    /\ hls_now \in HlsTimes /\ wake \in 0..MaxHlsNow + hls_rotate_time
    /\ wake <= hls_now + hls_rotate_time
    /\ task \in [at : {"sleep", "scan", "rotate", "master", "metrics"}, slot : H!Slots, cur : HlsTimes]
    /\ IF task.at = "sleep" THEN hls_now <= wake ELSE task.cur = hls_now

\* The last round that scanned slot e.
HlsLastRound(e) ==
    IF task.at = "sleep" THEN wake - hls_rotate_time
    ELSE IF task.at \in {"scan", "rotate"} /\ e >= task.slot THEN hls_now - hls_rotate_time
    ELSE hls_now

\* A round leaves no chunk older than a period, or one of two periods and an I-frame asked for.
HlsAges ==
    \A e \in H!Slots : hls_fds[e].sid # 0 =>
        \/ hls_fds[e].rotate >= HlsLastRound(e) - hls_rotate_time
        \/ hls_fds[e].need_rotate /\ hls_fds[e].rotate >= HlsLastRound(e) - 2 * hls_rotate_time

HlsFlags == {metrics, hls_stopped, collided, late} \subseteq BOOLEAN

HlsInv == HlsSlots /\ HlsFiles /\ HlsMaster /\ HlsClock /\ HlsAges /\ HlsFlags

LEMMA HlsNumbers ==
  /\ hls_rotate_time \in Nat /\ hls_rotate_time > 0 /\ hls_rotate_count \in Nat /\ hls_rotate_count > 0
  /\ MaxHlsNow \in Nat /\ 0 \notin HlsServices /\ HlsServices \subseteq Nat
  /\ hls_rotate_iframe \in BOOLEAN /\ playlist_ignore_dead \in BOOLEAN
BY HlsConfigured DEF H!HlsAssumption

LEMMA HlsSlotNumbers ==
  /\ IsFiniteSet(HlsServices) /\ Cardinality(HlsServices) \in Nat /\ Cardinality(HlsServices) > 0
  /\ H!Slots = 0..Cardinality(HlsServices) - 1
<1>1. IsFiniteSet(HlsServices) /\ HlsServices # {}
  BY HlsConfigured DEF H!HlsAssumption, H!IsFiniteSet, IsFiniteSet
<1>2. Cardinality(HlsServices) \in Nat /\ Cardinality(HlsServices) # 0
  BY <1>1, FS_CardinalityType, FS_EmptySet
<1>3. H!Slots = 0..Cardinality(HlsServices) - 1 BY DEF H!Slots, H!Cardinality, Cardinality
<1> QED BY <1>1, <1>2, <1>3

\* The least slot of some slots.
LEMMA HlsLeast ==
  ASSUME NEW S, S \subseteq H!Slots, S # {} PROVE H!Min(S) \in S
<1>1. S \subseteq Nat BY HlsSlotNumbers
<1>2. PICK m \in S : \A n \in S : ~(<<n, m>> \in OpToRel(<, Nat))
  BY <1>1, NatLessThanWellFounded, WFMin
<1>3. ASSUME NEW n \in S, n < m PROVE FALSE
  <2>1. <<n, m>> \in OpToRel(<, Nat) BY <1>1, <1>3 DEF OpToRel
  <2> QED BY <1>2, <2>1
<1>4. \A n \in S : m <= n BY <1>1, <1>3
<1> QED BY <1>4 DEF H!Min

\* There is a slot for each service: hls_entry_find finds its own, or one that is free.
LEMMA HlsFound ==
  ASSUME HlsSlots, NEW s \in HlsServices
  PROVE  /\ H!EntryFind(s) \in H!Slots
         /\ \/ hls_fds[H!EntryFind(s)].sid = s
            \/ hls_fds[H!EntryFind(s)].sid = 0 /\ \A e \in H!Slots : hls_fds[e].sid # s
<1> DEFINE used == {e \in H!Slots : hls_fds[e].sid = s}
           free == {e \in H!Slots : ~H!Initialized(e)}
<1>1. CASE used # {}
  <2>1. H!EntryFind(s) = H!Min(used) BY <1>1 DEF H!EntryFind
  <2>2. H!Min(used) \in used BY <1>1, HlsLeast
  <2> QED BY <2>1, <2>2
<1>2. CASE used = {}
  <2>1. free # {}
    <3> SUFFICES ASSUME free = {} PROVE FALSE OBVIOUS
    <3> DEFINE n == Cardinality(HlsServices)
               f == [e \in 0..n - 1 |-> hls_fds[e].sid]
               U == HlsServices \ {s}
    <3>1. n \in Nat /\ n > 0 /\ H!Slots = 0..n - 1 /\ IsFiniteSet(HlsServices) BY HlsSlotNumbers
    <3>2. IsFiniteSet(U) /\ Cardinality(U) = n - 1 BY <3>1, FS_RemoveElement
    <3>3. IsFiniteSet(0..n - 1) /\ Cardinality(0..n - 1) = n
      <4> HIDE DEF n
      <4>1. 0 \in Int /\ n - 1 \in Int BY <3>1
      <4>2. IsFiniteSet(0..n - 1) /\ Cardinality(0..n - 1) = IF 0 > n - 1 THEN 0 ELSE (n - 1) - 0 + 1
        BY <4>1, FS_Interval
      <4> QED BY <3>1, <4>2
    <3>4. \A e \in H!Slots : hls_fds[e].sid \in U
      BY <1>2 DEF HlsSlots, HlsEntries, H!Initialized
    <3>5. f \in [0..n - 1 -> U] BY <3>1, <3>4
    <3>6. \E x, y \in 0..n - 1 : x # y /\ f[x] = f[y]
      <4>1. Cardinality(0..n - 1) > Cardinality(U)
        <5> HIDE DEF n
        <5> QED BY <3>1, <3>2, <3>3
      <4> DEFINE D == 0..n - 1
      <4>2. IsFiniteSet(D) /\ IsFiniteSet(U) /\ Cardinality(U) < Cardinality(D) /\ f \in [D -> U]
        <5>1. Cardinality(D) \in Nat /\ Cardinality(U) \in Nat BY <3>2, <3>3, FS_CardinalityType
        <5> HIDE DEF f, U, D
        <5> QED BY <3>2, <3>3, <3>5, <4>1, <5>1 DEF D
      <4> HIDE DEF f, U, D, n
      <4>3. \E x, y \in D : x # y /\ f[x] = f[y] BY <4>2, FS_PigeonHole
      <4> QED BY <4>3 DEF D
    <3>7. PICK x \in 0..n - 1, y \in 0..n - 1 : x # y /\ hls_fds[x].sid = hls_fds[y].sid BY <3>6
    <3>8. hls_fds[x].sid # 0 BY <3>1, <3>4, <3>7, HlsNumbers
    <3> QED BY <3>1, <3>7, <3>8 DEF HlsSlots
  <2>2. H!EntryFind(s) = H!Min(free) BY <1>2 DEF H!EntryFind
  <2>3. H!Min(free) \in free BY <2>1, HlsLeast
  <2> QED BY <1>2, <2>2, <2>3 DEF H!Initialized
<1> QED BY <1>1, <1>2

\* A sequence with one more before, and without its last.
LEMMA HlsPutBefore ==
  ASSUME NEW S, NEW s \in Seq(S), NEW t \in S
  PROVE  /\ <<t>> \o s \in Seq(S) /\ Len(<<t>> \o s) = Len(s) + 1 /\ (<<t>> \o s)[1] = t
         /\ \A i \in 1..Len(s) : (<<t>> \o s)[i + 1] = s[i]
<1> DEFINE a == <<t>>
<1>1. a \in Seq(S) /\ Len(a) = 1 /\ a[1] = t /\ Len(s) \in Nat OBVIOUS
<1> HIDE DEF a
<1>2. /\ a \o s \in Seq(S) /\ Len(a \o s) = Len(a) + Len(s)
      /\ \A i \in 1..Len(a) + Len(s) : (a \o s)[i] = IF i <= Len(a) THEN a[i] ELSE s[i - Len(a)]
  BY <1>1, ConcatProperties
<1> DEFINE r == a \o s
<1>3. /\ r \in Seq(S) /\ Len(r) = Len(s) + 1
      /\ \A i \in 1..Len(s) + 1 : r[i] = IF i <= 1 THEN a[i] ELSE s[i - 1]
  BY <1>1, <1>2
<1> HIDE DEF r
<1>4. r[1] = t BY <1>1, <1>3
<1>5. ASSUME NEW i \in 1..Len(s) PROVE r[i + 1] = s[i]
  <2>1. i + 1 \in 1..Len(s) + 1 /\ ~(i + 1 <= 1) /\ (i + 1) - 1 = i BY <1>1
  <2> QED BY <1>3, <2>1
<1> QED BY <1>3, <1>4, <1>5 DEF a, r

LEMMA HlsFront ==
  ASSUME NEW S, NEW s \in Seq(S), Len(s) > 0
  PROVE  /\ H!Front(s) \in Seq(S) /\ Len(H!Front(s)) = Len(s) - 1
         /\ \A i \in 1..Len(s) - 1 : H!Front(s)[i] = s[i]
<1> DEFINE n == Len(s) - 1
<1>1. n \in Nat /\ n <= Len(s) /\ Len(s) \in Nat OBVIOUS
<1>2. H!Front(s) = SubSeq(s, 1, n) BY DEF H!Front
<1> HIDE DEF n
<1>3. SubSeq(s, 1, n) \in Seq(S) /\ Len(SubSeq(s, 1, n)) = n /\ \A i \in 1..n : SubSeq(s, 1, n)[i] = s[i]
  BY <1>1
<1> QED BY <1>2, <1>3 DEF n

\* The chunks of a channel after a rotation: the new one is the first, and the last is removed
\* when they are too many.
LEMMA HlsRotated ==
  ASSUME NEW entry \in HlsEntries, NEW time \in HlsTimes, entry.sid # 0,
         Len(entry.filenames) \in 1..hls_rotate_count + 1, Len(entry.filenames) <= entry.sequence + 1
  PROVE  LET r == H!Rotated(entry, time)
         IN  /\ r.entry \in HlsEntries /\ r.entry.sid = entry.sid /\ r.entry.rotate = time
             /\ ~r.entry.need_rotate /\ Len(r.entry.filenames) \in 1..hls_rotate_count + 1
             /\ Len(r.entry.filenames) <= r.entry.sequence + 1
             /\ \A f \in r.removed : f[1] = entry.sid
             /\ \A x \in Names(r.entry.filenames) : x = time \/ x \in Names(entry.filenames)
             /\ \A x \in Names(entry.filenames) \cup {time} :
                    <<entry.sid, x>> \in r.removed \/ x \in Names(r.entry.filenames)
             /\ Once(entry.filenames) /\ time \notin Names(entry.filenames) =>
                    /\ Once(r.entry.filenames)
                    /\ \A x \in Names(r.entry.filenames) : <<entry.sid, x>> \notin r.removed
             /\ r.listed \in Seq(Int)
             /\ r.listed = H!NoFile => r.removed = {}
             /\ r.listed # H!NoFile => \A k \in 1..Len(r.listed) : r.listed[k] \in Names(r.entry.filenames)
<1> DEFINE s == entry.filenames
           n == Len(s)
           names == <<time>> \o s
           R == H!Rotated(entry, time)
           c == hls_rotate_count
<1>1. s \in Seq(HlsTimes) /\ entry.sequence \in Nat /\ c \in Nat /\ c > 0 /\ n \in Nat /\ n >= 1 /\ n <= c + 1
  <2>1. s \in Seq(HlsTimes) /\ entry.sequence \in Nat BY DEF HlsEntries
  <2> QED BY <2>1, HlsNumbers
<1>2. /\ names \in Seq(HlsTimes) /\ Len(names) = n + 1 /\ names[1] = time
      /\ \A i \in 1..n : names[i + 1] = s[i]
  <2> HIDE DEF s
  <2> QED BY <1>1, HlsPutBefore
<1>3. /\ R.entry = [entry EXCEPT !.filenames = IF H!Full(names) THEN H!Front(names) ELSE names,
                                 !.rotate = time, !.need_rotate = FALSE, !.sequence = @ + 1]
      /\ R.listed = IF entry.sequence >= c - 1
                    THEN [k \in 1..H!Min({Len(names) - 1, c}) |-> names[k + 1]]
                    ELSE H!NoFile
      /\ R.removed = IF H!Full(names) THEN {<<entry.sid, H!Last(names)>>} ELSE {}
  BY DEF H!Rotated
<1>4. H!Full(names) <=> n = c + 1
  <2>1. H!Full(names) <=> Len(names) = c + 2 BY DEF H!Full
  <2> HIDE DEF names, n
  <2> QED BY <1>1, <1>2, <2>1
<1> DEFINE fn == R.entry.filenames
           m == IF n = c + 1 THEN n ELSE n + 1
<1>5. H!Last(names) = names[n + 1] BY <1>2 DEF H!Last
<1> HIDE DEF names
<1>6. fn \in Seq(HlsTimes) /\ Len(fn) = m /\ \A i \in 1..m : fn[i] = names[i]
  <2>1. fn = IF n = c + 1 THEN H!Front(names) ELSE names
    <3>1. entry = [sid |-> entry.sid, filenames |-> s, access |-> entry.access, rotate |-> entry.rotate,
                   need_rotate |-> entry.need_rotate, sequence |-> entry.sequence, traffic |-> entry.traffic]
      BY DEF HlsEntries
    <3> QED BY <1>3, <1>4, <3>1
  <2>2. Len(names) > 0 BY <1>1, <1>2
  <2> HIDE DEF fn, n, s
  <2>3. CASE n = c + 1
    <3>1. H!Front(names) \in Seq(HlsTimes) /\ Len(H!Front(names)) = n /\ \A i \in 1..n : H!Front(names)[i] = names[i]
      <4>1. Len(names) - 1 = n BY <1>1, <1>2
      <4> QED BY <1>2, <2>2, <4>1, HlsFront
    <3> QED BY <2>1, <2>3, <3>1
  <2>4. CASE n # c + 1 BY <1>2, <2>1, <2>4
  <2> QED BY <2>3, <2>4
<1>7. /\ R.entry \in HlsEntries /\ R.entry.sid = entry.sid /\ R.entry.rotate = time
      /\ ~R.entry.need_rotate /\ R.entry.sequence = entry.sequence + 1
  <2> DEFINE g == IF H!Full(names) THEN H!Front(names) ELSE names
  <2>1. g \in Seq(HlsTimes)
    <3>1. Len(names) > 0 BY <1>1, <1>2
    <3> QED BY <1>2, <3>1, HlsFront
  <2>2. R.entry = [entry EXCEPT !.filenames = g, !.rotate = time, !.need_rotate = FALSE, !.sequence = @ + 1]
    BY <1>3
  <2> HIDE DEF g, R, c
  <2>3. /\ entry.sid \in HlsServices \cup {0} /\ entry.access \in HlsTimes /\ entry.sequence + 1 \in Nat
        /\ entry.traffic \in BOOLEAN
    BY <1>1 DEF HlsEntries
  <2>4. R.entry = [sid |-> entry.sid, filenames |-> g, access |-> entry.access, rotate |-> time,
                   need_rotate |-> FALSE, sequence |-> entry.sequence + 1, traffic |-> entry.traffic]
    BY <2>2 DEF HlsEntries
  <2> DEFINE q == entry.sequence + 1
  <2>5. R.entry = [sid |-> entry.sid, filenames |-> g, access |-> entry.access, rotate |-> time,
                   need_rotate |-> FALSE, sequence |-> q, traffic |-> entry.traffic] /\ q \in Nat
    BY <2>3, <2>4
  <2> HIDE DEF q
  <2>6. R.entry \in HlsEntries BY <2>1, <2>3, <2>5 DEF HlsEntries
  <2> QED BY <2>5, <2>6 DEF q
<1> HIDE DEF R, fn, s, n
<1>8. m \in 1..c + 1 /\ m <= n + 1 /\ n <= m BY <1>1
<1>9. R.removed = IF n = c + 1 THEN {<<entry.sid, names[n + 1]>>} ELSE {} BY <1>3, <1>4, <1>5
<1>10. \A x : x \in Names(fn) <=> \E i \in 1..m : names[i] = x
  <2> HIDE DEF m
  <2> QED BY <1>6, NamesFacts
<1>11. \A x : x = time \/ x \in Names(s) <=> \E i \in 1..n + 1 : names[i] = x
  <2>1. \A x : x \in Names(s) <=> \E i \in 1..n : s[i] = x BY NamesFacts DEF n
  <2>2. ASSUME NEW i \in 1..n + 1 PROVE names[i] = time \/ \E j \in 1..n : s[j] = names[i]
    <3>1. CASE i = 1 BY <1>2, <3>1
    <3>2. CASE i > 1
      <4>1. i - 1 \in 1..n /\ (i - 1) + 1 = i BY <1>1, <3>2
      <4>2. names[i] = s[i - 1] BY <1>2, <4>1
      <4> QED BY <4>1, <4>2
    <3> QED BY <3>1, <3>2
  <2>3. ASSUME NEW j \in 1..n PROVE j + 1 \in 1..n + 1 /\ names[j + 1] = s[j] BY <1>1, <1>2
  <2>4. 1 \in 1..n + 1 BY <1>1
  <2> QED BY <1>2, <2>1, <2>2, <2>3, <2>4
<1>12. \A x \in Names(fn) : x = time \/ x \in Names(s)
  <2>1. ASSUME NEW i \in 1..m PROVE i \in 1..n + 1 BY <1>1, <1>8
  <2> HIDE DEF m
  <2> QED BY <1>10, <1>11, <2>1
<1>13. ASSUME NEW x, x = time \/ x \in Names(s) PROVE <<entry.sid, x>> \in R.removed \/ x \in Names(fn)
  <2>1. PICK i \in 1..n + 1 : names[i] = x BY <1>11, <1>13
  <2>2. i \in 1..m \/ (i = n + 1 /\ n = c + 1) BY <1>1
  <2> HIDE DEF m
  <2> QED BY <1>9, <1>10, <2>1, <2>2
<1>14. ASSUME Once(s), time \notin Names(s) PROVE \A i, j \in 1..n + 1 : names[i] = names[j] => i = j
  <2>1. \A i, j \in 1..n : s[i] = s[j] => i = j BY <1>14 DEF Once, n
  <2>2. ASSUME NEW i \in 1..n + 1, i > 1 PROVE i - 1 \in 1..n /\ names[i] = s[i - 1] /\ names[i] # time
    <3>1. i - 1 \in 1..n /\ (i - 1) + 1 = i BY <1>1, <2>2
    <3>2. names[i] = s[i - 1] BY <1>2, <3>1
    <3>3. s[i - 1] \in Names(s) BY <3>1, NamesFacts DEF n
    <3> QED BY <1>14, <3>1, <3>2, <3>3
  <2>3. SUFFICES ASSUME NEW i \in 1..n + 1, NEW j \in 1..n + 1, names[i] = names[j] PROVE i = j OBVIOUS
  <2>4. CASE i = 1 /\ j = 1 BY <2>4
  <2>5. CASE i > 1 /\ j > 1
    <3>1. s[i - 1] = s[j - 1] /\ i - 1 \in 1..n /\ j - 1 \in 1..n BY <2>2, <2>3, <2>5
    <3>2. i - 1 = j - 1 BY <2>1, <3>1
    <3> QED BY <1>1, <3>2
  <2>6. CASE (i = 1 /\ j > 1) \/ (i > 1 /\ j = 1) BY <1>2, <2>2, <2>3, <2>6
  <2> QED BY <1>1, <2>4, <2>5, <2>6
<1>15. ASSUME Once(s), time \notin Names(s)
       PROVE  Once(fn) /\ \A x \in Names(fn) : <<entry.sid, x>> \notin R.removed
  <2>1. \A i \in 1..m : i \in 1..n + 1 BY <1>1, <1>8
  <2>2. Once(fn)
    <3>1. \A i, j \in 1..m : fn[i] = fn[j] => i = j
      <4> HIDE DEF m
      <4> QED BY <1>6, <1>14, <1>15, <2>1
    <3> QED BY <1>6, <3>1 DEF Once
  <2>3. ASSUME NEW x \in Names(fn) PROVE <<entry.sid, x>> \notin R.removed
    <3>1. PICK i \in 1..m : names[i] = x BY <1>10, <2>3
    <3>2. n = c + 1 => i # n + 1 /\ n + 1 \in 1..n + 1 BY <1>1
    <3>3. n = c + 1 => names[n + 1] # x
      <4> HIDE DEF m
      <4> QED BY <1>14, <1>15, <2>1, <3>1, <3>2
    <3> QED BY <1>9, <3>3
  <2> QED BY <2>2, <2>3
<1> DEFINE p == H!Min({Len(names) - 1, c})
<1>16. p \in Nat /\ p >= 1 /\ p <= n /\ p <= c
  <2>1. Len(names) - 1 = n BY <1>1, <1>2
  <2> DEFINE q == IF n <= c THEN n ELSE c
  <2>2. q \in {n, c} /\ \A y \in {n, c} : q <= y BY <1>1
  <2>3. p \in {n, c} /\ \A y \in {n, c} : p <= y
    <3>1. p = CHOOSE y \in {n, c} : \A z \in {n, c} : y <= z BY <2>1 DEF H!Min
    <3> HIDE DEF p, q
    <3> QED BY <2>2, <3>1
  <2> HIDE DEF p
  <2> QED BY <1>1, <2>3
<1> HIDE DEF p
<1>17. R.listed = IF entry.sequence >= c - 1 THEN [k \in 1..p |-> names[k + 1]] ELSE H!NoFile
  BY <1>3 DEF p
<1>18. \A k \in 1..p : k + 1 \in 1..m /\ names[k + 1] \in HlsTimes
  <2>1. ASSUME NEW k \in 1..p PROVE k + 1 \in 1..m /\ k + 1 \in 1..n + 1 BY <1>1, <1>16
  <2>2. \A i \in 1..n + 1 : names[i] \in HlsTimes BY <1>1, <1>2
  <2> QED BY <2>1, <2>2
<1>19. HlsTimes \subseteq Nat BY HlsNumbers DEF HlsTimes
<1>20. ASSUME entry.sequence >= c - 1
       PROVE  /\ R.listed \in Seq(Int) /\ (R.listed = H!NoFile => R.removed = {})
              /\ R.listed # H!NoFile => \A k \in 1..Len(R.listed) : R.listed[k] \in Names(fn)
  <2> SUFFICES /\ R.listed \in Seq(Int) /\ R.listed # H!NoFile
               /\ \A k \in 1..Len(R.listed) : R.listed[k] \in Names(fn)
    OBVIOUS
  <2> DEFINE w == [k \in 1..p |-> names[k + 1]]
  <2>1. w \in Seq(Int) /\ Len(w) = p
    <3> HIDE DEF m
    <3>1. \A k \in 1..p : names[k + 1] \in Int
      <4> HIDE DEF w
      <4>1. \A x \in HlsTimes : x \in Int BY <1>19
      <4> QED BY <1>18, <4>1
    <3> QED BY <1>16, <3>1
  <2>2. R.listed = w BY <1>17, <1>20
  <2>3. \A k \in 1..p : w[k] = names[k + 1] /\ w[k] \in Names(fn) /\ w[k] \in Nat
    <3> HIDE DEF m
    <3> QED BY <1>10, <1>18, <1>19
  <2>4. 1 \in 1..p BY <1>16
  <2> HIDE DEF w
  <2>5. w # H!NoFile
    <3>1. H!NoFile[1] = -1 BY DEF H!NoFile
    <3>2. w[1] \in Nat BY <2>3, <2>4
    <3> QED BY <3>1, <3>2
  <2> QED BY <2>1, <2>2, <2>3, <2>5
<1>21. ASSUME ~(entry.sequence >= c - 1)
       PROVE  /\ R.listed \in Seq(Int) /\ (R.listed = H!NoFile => R.removed = {})
              /\ R.listed # H!NoFile => \A k \in 1..Len(R.listed) : R.listed[k] \in Names(fn)
  <2>1. R.listed = H!NoFile BY <1>17, <1>21
  <2>2. H!NoFile \in Seq(Int) BY DEF H!NoFile
  <2>3. n # c + 1 BY <1>1, <1>21 DEF n, s
  <2>4. R.removed = {} BY <1>9, <2>3
  <2> QED BY <2>1, <2>2, <2>4
<1>22. /\ R.listed \in Seq(Int) /\ (R.listed = H!NoFile => R.removed = {})
       /\ R.listed # H!NoFile => \A k \in 1..Len(R.listed) : R.listed[k] \in Names(fn)
  BY <1>20, <1>21
<1>23. Len(fn) \in 1..c + 1 /\ Len(fn) <= R.entry.sequence + 1
  <2>1. n <= entry.sequence + 1 BY DEF n, s
  <2> QED BY <1>1, <1>6, <1>7, <1>8, <2>1
<1>24. \A f \in R.removed : f[1] = entry.sid BY <1>9
<1>25. \A x \in Names(s) \cup {time} : <<entry.sid, x>> \in R.removed \/ x \in Names(fn) BY <1>13
<1> HIDE DEF m, c
<1>26. Once(s) /\ time \notin Names(s) =>
         Once(fn) /\ \A x \in Names(fn) : <<entry.sid, x>> \notin R.removed
  BY <1>15
<1>27. fn = R.entry.filenames /\ s = entry.filenames /\ R = H!Rotated(entry, time) /\ c = hls_rotate_count
  BY DEF fn, s, R, c
<1> QED BY <1>7, <1>12, <1>22, <1>23, <1>24, <1>25, <1>26, <1>27

\* The rotation of a slot keeps the slots and the files in agreement.
LEMMA HlsRotates ==
  ASSUME HlsSlots, HlsFiles, NEW e \in H!Slots, NEW entry \in HlsEntries, NEW time \in HlsTimes,
         entry.sid # 0, entry.sid = hls_fds[e].sid, entry.filenames = hls_fds[e].filenames,
         entry.sequence = hls_fds[e].sequence, time <= hls_now, hls_now' = hls_now,
         H!Rotate(e, entry, time)
  PROVE  /\ HlsSlots' /\ HlsFiles'
         /\ \A d \in H!Slots : hls_fds'[d].sid = hls_fds[d].sid /\ (d # e => hls_fds'[d] = hls_fds[d])
         /\ hls_fds'[e].rotate = time
<1> DEFINE R == H!Rotated(entry, time)
           s == entry.sid
           old == entry.filenames
           fn == R.entry.filenames
<1>1. /\ hls_fds \in [H!Slots -> HlsEntries]
      /\ \A d \in H!Slots : hls_fds[d].sid # 0 => Len(hls_fds[d].filenames) \in 1..hls_rotate_count + 1
                                                  /\ Len(hls_fds[d].filenames) <= hls_fds[d].sequence + 1
      /\ \A c, d \in H!Slots : hls_fds[c].sid = hls_fds[d].sid => c = d \/ hls_fds[c].sid = 0
  BY DEF HlsSlots
<1>2. Len(old) \in 1..hls_rotate_count + 1 /\ Len(old) <= entry.sequence + 1 BY <1>1
<1>3. /\ R.entry \in HlsEntries /\ R.entry.sid = s /\ R.entry.rotate = time
      /\ ~R.entry.need_rotate /\ Len(fn) \in 1..hls_rotate_count + 1 /\ Len(fn) <= R.entry.sequence + 1
      /\ \A f \in R.removed : f[1] = s
      /\ \A x \in Names(fn) : x = time \/ x \in Names(old)
      /\ \A x \in Names(old) \cup {time} : <<s, x>> \in R.removed \/ x \in Names(fn)
      /\ Once(old) /\ time \notin Names(old) =>
             Once(fn) /\ \A x \in Names(fn) : <<s, x>> \notin R.removed
      /\ R.listed \in Seq(Int) /\ (R.listed = H!NoFile => R.removed = {})
      /\ R.listed # H!NoFile => \A k \in 1..Len(R.listed) : R.listed[k] \in Names(fn)
  BY <1>2, HlsRotated
<1>4. /\ hls_fds' = [hls_fds EXCEPT ![e] = R.entry]
      /\ playlist' = IF R.listed = H!NoFile THEN playlist ELSE [playlist EXCEPT ![s] = R.listed]
      /\ chunks' = (chunks \cup {<<s, time>>}) \ R.removed
      /\ twice' = IF \E k \in 1..Len(old) : old[k] = time THEN twice \cup {s} ELSE twice
  BY DEF H!Rotate
<1>5. s \in HlsServices BY DEF HlsEntries
<1>6. s = hls_fds[e].sid /\ old = hls_fds[e].filenames OBVIOUS
<1> HIDE DEF R, s, old, fn
<1>7. \A d \in H!Slots : hls_fds'[d] = IF d = e THEN R.entry ELSE hls_fds[d] BY <1>1, <1>4
<1>8. \A d \in H!Slots : hls_fds'[d].sid = hls_fds[d].sid BY <1>3, <1>6, <1>7
<1>9. hls_fds'[e].filenames = fn /\ hls_fds'[e].sid = s /\ hls_fds'[e].rotate = time /\ hls_fds'[e] = R.entry
  BY <1>3, <1>7 DEF fn
<1>10. \A z : z \notin twice' => z \notin twice /\ (z = s => time \notin Names(old)) BY <1>4, NamesFacts
<1>11. HlsSlots'
  <2>1. hls_fds' \in [H!Slots -> HlsEntries] BY <1>1, <1>3, <1>4
  <2>2. ASSUME NEW d \in H!Slots
        PROVE  /\ hls_fds'[d].rotate <= hls_now
               /\ hls_fds'[d].need_rotate => hls_rotate_iframe
               /\ hls_fds'[d].sid = 0 => hls_fds'[d].filenames = <<>>
               /\ hls_fds'[d].sid # 0 => /\ Len(hls_fds'[d].filenames) \in 1..hls_rotate_count + 1
                                         /\ Len(hls_fds'[d].filenames) <= hls_fds'[d].sequence + 1
    <3>1. CASE d = e BY <1>3, <1>5, <1>9, <3>1, HlsNumbers
    <3>2. CASE d # e BY <1>7, <3>2 DEF HlsSlots
    <3> QED BY <3>1, <3>2
  <2>3. \A c, d \in H!Slots : hls_fds'[c].sid = hls_fds'[d].sid => c = d \/ hls_fds'[c].sid = 0
    BY <1>1, <1>8
  <2> QED BY <2>1, <2>2, <2>3 DEF HlsSlots
<1>12. HlsFiles'
  <2>1. /\ chunks \subseteq HlsServices \X HlsTimes
        /\ \A f \in chunks : \E d \in H!Slots : hls_fds[d].sid = f[1] /\ f[2] \in Names(hls_fds[d].filenames)
        /\ \A d \in H!Slots : hls_fds[d].sid \notin twice \cup {0} =>
             /\ Once(hls_fds[d].filenames)
             /\ \A x \in Names(hls_fds[d].filenames) : <<hls_fds[d].sid, x>> \in chunks
        /\ playlist \in [HlsServices -> Seq(Int)] /\ twice \subseteq HlsServices
        /\ \A z \in HlsServices : playlist[z] # H!NoFile =>
             /\ \E d \in H!Slots : hls_fds[d].sid = z
             /\ z \notin twice => \A k \in 1..Len(playlist[z]) : <<z, playlist[z][k]>> \in chunks
    BY DEF HlsFiles
  <2>2. chunks' \subseteq HlsServices \X HlsTimes BY <1>4, <1>5, <2>1
  <2>3. ASSUME NEW f \in chunks'
        PROVE  \E d \in H!Slots : hls_fds'[d].sid = f[1] /\ f[2] \in Names(hls_fds'[d].filenames)
    <3>1. f \in HlsServices \X HlsTimes /\ f \notin R.removed /\ (f \in chunks \/ f = <<s, time>>)
      BY <1>4, <2>2
    <3>2. f = <<f[1], f[2]>> BY <3>1
    <3>3. ASSUME f[1] = s, f[2] \in Names(old) \cup {time} PROVE f[2] \in Names(fn)
      BY <1>3, <3>1, <3>2, <3>3
    <3>4. CASE f = <<s, time>>
      <4>1. f[1] = s /\ f[2] = time BY <3>4
      <4> QED BY <1>9, <3>3, <4>1
    <3>5. CASE f \in chunks
      <4>1. PICK d \in H!Slots : hls_fds[d].sid = f[1] /\ f[2] \in Names(hls_fds[d].filenames) BY <2>1, <3>5
      <4>2. CASE d = e BY <1>6, <1>9, <3>3, <4>1, <4>2
      <4>3. CASE d # e BY <1>7, <4>1, <4>3
      <4> QED BY <4>2, <4>3
    <3> QED BY <3>1, <3>4, <3>5
  <2>4. ASSUME NEW d \in H!Slots, hls_fds'[d].sid \notin twice' \cup {0}
        PROVE  /\ Once(hls_fds'[d].filenames)
               /\ \A x \in Names(hls_fds'[d].filenames) : <<hls_fds'[d].sid, x>> \in chunks'
    <3>1. hls_fds[d].sid \notin twice \cup {0} BY <1>8, <1>10, <2>4
    <3>2. Once(hls_fds[d].filenames) /\ \A x \in Names(hls_fds[d].filenames) : <<hls_fds[d].sid, x>> \in chunks
      BY <2>1, <3>1
    <3>3. CASE d = e
      <4>1. Once(old) /\ time \notin Names(old) BY <1>6, <1>8, <1>10, <2>4, <3>2, <3>3
      <4>2. Once(fn) /\ \A x \in Names(fn) : <<s, x>> \notin R.removed BY <1>3, <4>1
      <4>3. \A x \in Names(fn) : <<s, x>> \in chunks \cup {<<s, time>>} BY <1>3, <1>6, <3>2, <3>3
      <4> QED BY <1>4, <1>9, <3>3, <4>2, <4>3
    <3>4. CASE d # e
      <4>1. hls_fds[d].sid # s /\ hls_fds'[d] = hls_fds[d] BY <1>1, <1>6, <1>7, <2>4, <3>1, <3>4
      <4>2. \A x : <<hls_fds[d].sid, x>> \notin R.removed
        <5>1. \A x : <<hls_fds[d].sid, x>>[1] = hls_fds[d].sid OBVIOUS
        <5> QED BY <1>3, <4>1, <5>1
      <4> QED BY <1>4, <3>2, <4>1, <4>2
    <3> QED BY <3>3, <3>4
  <2>5. playlist' \in [HlsServices -> Seq(Int)] BY <1>3, <1>4, <1>5, <2>1
  <2>6. twice' \subseteq HlsServices BY <1>4, <1>5, <2>1
  <2>7. ASSUME NEW z \in HlsServices, playlist'[z] # H!NoFile
        PROVE  /\ \E d \in H!Slots : hls_fds'[d].sid = z
               /\ z \notin twice' => \A k \in 1..Len(playlist'[z]) : <<z, playlist'[z][k]>> \in chunks'
    <3>1. CASE z = s /\ R.listed # H!NoFile
      <4>1. playlist'[z] = R.listed BY <1>4, <2>1, <3>1
      <4>2. hls_fds'[e].sid = z BY <1>9, <3>1
      <4>3. z # 0 BY HlsNumbers
      <4>4. z \notin twice' => \A x \in Names(fn) : <<z, x>> \in chunks' BY <1>9, <2>4, <4>2, <4>3
      <4> QED BY <1>3, <3>1, <4>1, <4>2, <4>4
    <3>2. CASE z # s \/ R.listed = H!NoFile
      <4>1. playlist'[z] = playlist[z] BY <1>4, <1>5, <2>1, <3>2
      <4>2. \E d \in H!Slots : hls_fds'[d].sid = z BY <1>8, <2>1, <2>7, <4>1
      <4>3. ASSUME z \notin twice', NEW k \in 1..Len(playlist[z]) PROVE <<z, playlist[z][k]>> \in chunks'
        <5>1. <<z, playlist[z][k]>> \in chunks BY <1>10, <2>1, <2>7, <4>1, <4>3
        <5>2. <<z, playlist[z][k]>> \notin R.removed
          <6>1. <<z, playlist[z][k]>>[1] = z OBVIOUS
          <6> QED BY <1>3, <3>2, <6>1
        <5> QED BY <1>4, <5>1, <5>2
      <4> QED BY <4>1, <4>2, <4>3
    <3> QED BY <3>1, <3>2
  <2> QED BY <2>2, <2>3, <2>4, <2>5, <2>6, <2>7 DEF HlsFiles
<1> QED BY <1>7, <1>8, <1>9, <1>11, <1>12

\* hls_entry_destroy removes the files with the slots.
LEMMA HlsDestroys ==
  ASSUME HlsSlots, HlsFiles, NEW G, G \subseteq H!Slots, hls_now \in Nat, hls_now' = hls_now, twice' = twice, H!Destroy(G)
  PROVE  /\ HlsSlots' /\ HlsFiles'
         /\ \A d \in H!Slots : hls_fds'[d] = IF d \in G THEN H!Free ELSE hls_fds[d]
         /\ H!Free.sid = 0
<1> DEFINE gone == {hls_fds[e].sid : e \in G}
           files == UNION {{<<hls_fds[e].sid, t>> : t \in H!ToSet(hls_fds[e].filenames)} : e \in G}
<1>1. /\ hls_fds' = [e \in H!Slots |-> IF e \in G THEN H!Free ELSE hls_fds[e]]
      /\ chunks' = chunks \ files
      /\ playlist' = [z \in HlsServices |-> IF z \in gone THEN H!NoFile ELSE playlist[z]]
  BY DEF H!Destroy
<1>2. \A list : H!ToSet(list) = Names(list) BY DEF H!ToSet, Names
<1>3. \A f : f \in files <=> \E e \in G : \E t \in Names(hls_fds[e].filenames) : f = <<hls_fds[e].sid, t>>
  BY <1>2
<1>4. \A z : z \in gone <=> \E e \in G : hls_fds[e].sid = z OBVIOUS
<1> HIDE DEF gone, files
<1>5. /\ H!Free.sid = 0 /\ H!Free.filenames = <<>> /\ H!Free.rotate = 0 /\ ~H!Free.need_rotate
      /\ H!Free \in HlsEntries
  <2>1. 0 \in HlsTimes BY HlsNumbers DEF HlsTimes
  <2>2. <<>> \in Seq(HlsTimes) OBVIOUS
  <2> QED BY <2>1, <2>2 DEF H!Free, HlsEntries
<1>6. \A d \in H!Slots : hls_fds'[d] = IF d \in G THEN H!Free ELSE hls_fds[d] BY <1>1
<1>7. /\ hls_fds \in [H!Slots -> HlsEntries]
      /\ \A c, d \in H!Slots : hls_fds[c].sid = hls_fds[d].sid => c = d \/ hls_fds[c].sid = 0
  BY DEF HlsSlots
<1>8. HlsSlots'
  <2>1. hls_fds' \in [H!Slots -> HlsEntries] BY <1>1, <1>5, <1>7
  <2>2. ASSUME NEW d \in H!Slots
        PROVE  /\ hls_fds'[d].rotate <= hls_now
               /\ hls_fds'[d].need_rotate => hls_rotate_iframe
               /\ hls_fds'[d].sid = 0 => hls_fds'[d].filenames = <<>>
               /\ hls_fds'[d].sid # 0 => /\ Len(hls_fds'[d].filenames) \in 1..hls_rotate_count + 1
                                         /\ Len(hls_fds'[d].filenames) <= hls_fds'[d].sequence + 1
    <3>1. CASE d \in G
      <4>1. hls_fds[d].rotate \in Nat /\ hls_fds[d].rotate <= hls_now /\ hls_now \in Int
        <5>1. hls_fds[d].rotate \in HlsTimes BY <1>7 DEF HlsEntries
        <5> QED BY <5>1, HlsNumbers DEF HlsSlots, HlsTimes
      <4>2. 0 <= hls_now BY <4>1
      <4> QED BY <1>5, <1>6, <3>1, <4>2
    <3>2. CASE d \notin G BY <1>6, <3>2 DEF HlsSlots
    <3> QED BY <3>1, <3>2
  <2>3. \A c, d \in H!Slots : hls_fds'[c].sid = hls_fds'[d].sid => c = d \/ hls_fds'[c].sid = 0
    BY <1>5, <1>6, <1>7
  <2> QED BY <2>1, <2>2, <2>3 DEF HlsSlots
<1>9. HlsFiles'
  <2>1. /\ chunks \subseteq HlsServices \X HlsTimes
        /\ \A f \in chunks : \E d \in H!Slots : hls_fds[d].sid = f[1] /\ f[2] \in Names(hls_fds[d].filenames)
        /\ \A d \in H!Slots : hls_fds[d].sid \notin twice \cup {0} =>
             /\ Once(hls_fds[d].filenames)
             /\ \A x \in Names(hls_fds[d].filenames) : <<hls_fds[d].sid, x>> \in chunks
        /\ playlist \in [HlsServices -> Seq(Int)] /\ twice \subseteq HlsServices
        /\ \A z \in HlsServices : playlist[z] # H!NoFile =>
             /\ \E d \in H!Slots : hls_fds[d].sid = z
             /\ z \notin twice => \A k \in 1..Len(playlist[z]) : <<z, playlist[z][k]>> \in chunks
    BY DEF HlsFiles
  <2>2. chunks' \subseteq HlsServices \X HlsTimes BY <1>1, <2>1
  <2>3. ASSUME NEW f \in chunks'
        PROVE  \E d \in H!Slots : hls_fds'[d].sid = f[1] /\ f[2] \in Names(hls_fds'[d].filenames)
    <3>1. f \in chunks /\ f \notin files /\ f \in HlsServices \X HlsTimes BY <1>1, <2>1
    <3>2. PICK d \in H!Slots : hls_fds[d].sid = f[1] /\ f[2] \in Names(hls_fds[d].filenames) BY <2>1, <3>1
    <3>3. f = <<f[1], f[2]>> BY <3>1
    <3>4. d \notin G BY <1>3, <3>1, <3>2, <3>3
    <3> QED BY <1>6, <3>2, <3>4
  <2>4. ASSUME NEW d \in H!Slots, hls_fds'[d].sid \notin twice' \cup {0}
        PROVE  /\ Once(hls_fds'[d].filenames)
               /\ \A x \in Names(hls_fds'[d].filenames) : <<hls_fds'[d].sid, x>> \in chunks'
    <3>1. d \notin G /\ hls_fds'[d] = hls_fds[d] /\ hls_fds[d].sid \notin twice \cup {0}
      BY <1>5, <1>6, <2>4
    <3>2. ASSUME NEW x PROVE <<hls_fds[d].sid, x>> \notin files
      <4>1. SUFFICES ASSUME NEW e \in G, NEW t, <<hls_fds[d].sid, x>> = <<hls_fds[e].sid, t>> PROVE FALSE
        BY <1>3
      <4>2. hls_fds[d].sid = hls_fds[e].sid BY <4>1
      <4> QED BY <1>7, <3>1, <4>2
    <3> QED BY <1>1, <2>1, <3>1, <3>2
  <2>5. playlist' \in [HlsServices -> Seq(Int)]
    <3>1. H!NoFile \in Seq(Int) BY DEF H!NoFile
    <3> QED BY <1>1, <2>1, <3>1
  <2>6. ASSUME NEW z \in HlsServices, playlist'[z] # H!NoFile
        PROVE  /\ \E d \in H!Slots : hls_fds'[d].sid = z
               /\ z \notin twice' => \A k \in 1..Len(playlist'[z]) : <<z, playlist'[z][k]>> \in chunks'
    <3>1. z \notin gone /\ playlist'[z] = playlist[z] BY <1>1, <2>6
    <3>2. PICK d \in H!Slots : hls_fds[d].sid = z BY <2>1, <2>6, <3>1
    <3>3. d \notin G BY <1>4, <3>1, <3>2
    <3>4. ASSUME NEW x PROVE <<z, x>> \notin files
      <4>1. SUFFICES ASSUME NEW e \in G, NEW t, <<z, x>> = <<hls_fds[e].sid, t>> PROVE FALSE BY <1>3
      <4>2. z = hls_fds[e].sid BY <4>1
      <4> QED BY <1>4, <3>1, <4>2
    <3> QED BY <1>1, <1>6, <2>1, <2>6, <3>1, <3>2, <3>3, <3>4
  <2> QED BY <2>1, <2>2, <2>3, <2>4, <2>5, <2>6 DEF HlsFiles
<1> QED BY <1>5, <1>6, <1>8, <1>9

LEMMA HlsTimesNat == HlsTimes \subseteq Nat
BY HlsNumbers DEF HlsTimes

LEMMA HlsSlotsSame ==
  ASSUME HlsSlots, HlsClock, hls_now' \in Nat, hls_now <= hls_now', hls_fds' \in [H!Slots -> HlsEntries],
         \A d \in H!Slots : /\ hls_fds'[d].sid = hls_fds[d].sid
                            /\ hls_fds'[d].filenames = hls_fds[d].filenames
                            /\ hls_fds'[d].rotate = hls_fds[d].rotate
                            /\ hls_fds'[d].sequence = hls_fds[d].sequence
                            /\ hls_fds'[d].need_rotate => hls_rotate_iframe
  PROVE  HlsSlots'
<1>1. ASSUME NEW d \in H!Slots PROVE hls_fds'[d].rotate <= hls_now'
  <2>1. hls_fds[d].rotate \in Nat
    <3>1. hls_fds[d] \in HlsEntries BY DEF HlsSlots
    <3> QED BY <3>1, HlsTimesNat DEF HlsEntries
  <2>2. hls_now \in Nat BY HlsTimesNat DEF HlsClock
  <2> QED BY <2>1, <2>2 DEF HlsSlots
<1> QED BY <1>1 DEF HlsSlots

LEMMA HlsFilesSame ==
  ASSUME HlsFiles, chunks' = chunks, playlist' = playlist, twice' = twice,
         \A d \in H!Slots : /\ hls_fds'[d].sid = hls_fds[d].sid
                            /\ hls_fds'[d].filenames = hls_fds[d].filenames
  PROVE  HlsFiles'
<1>1. chunks' \subseteq HlsServices \X HlsTimes BY DEF HlsFiles
<1>2. \A f \in chunks' :
        \E d \in H!Slots : hls_fds'[d].sid = f[1] /\ f[2] \in Names(hls_fds'[d].filenames)
  BY DEF HlsFiles
<1>3. \A d \in H!Slots : hls_fds'[d].sid \notin twice' \cup {0} =>
        /\ Once(hls_fds'[d].filenames)
        /\ \A x \in Names(hls_fds'[d].filenames) : <<hls_fds'[d].sid, x>> \in chunks'
  BY DEF HlsFiles
<1>4. playlist' \in [HlsServices -> Seq(Int)] /\ twice' \subseteq HlsServices BY DEF HlsFiles
<1>5. \A z \in HlsServices : playlist'[z] # H!NoFile =>
        /\ \E d \in H!Slots : hls_fds'[d].sid = z
        /\ z \notin twice' => \A k \in 1..Len(playlist'[z]) : <<z, playlist'[z][k]>> \in chunks'
  BY DEF HlsFiles
<1> QED BY <1>1, <1>2, <1>3, <1>4, <1>5 DEF HlsFiles

\* What the other variables keep when no slot is lost.
LEMMA HlsMasterSame ==
  ASSUME HlsMaster, master' = master, collided' = collided, hls_stopped' = hls_stopped,
         \A d \in H!Slots : hls_fds'[d].sid = hls_fds[d].sid, metrics' = metrics, late' = late
  PROVE  HlsMaster'
BY DEF HlsMaster

LEMMA HlsInitial == H!Init => HlsInv
<1> SUFFICES ASSUME H!Init PROVE HlsInv OBVIOUS
<1>1. /\ hls_now = 0 /\ hls_fds = [e \in H!Slots |-> H!Free] /\ chunks = {}
      /\ playlist = [s \in HlsServices |-> H!NoFile] /\ master = H!NoMaster /\ metrics = FALSE
      /\ task = [at |-> "scan", slot |-> 0, cur |-> 0] /\ wake = 0
      /\ hls_stopped = FALSE /\ twice = {} /\ collided = FALSE /\ late = FALSE
  BY DEF H!Init
<1>2. /\ H!Free.sid = 0 /\ H!Free.filenames = <<>> /\ H!Free.rotate = 0 /\ ~H!Free.need_rotate
      /\ H!Free \in HlsEntries
  <2>1. 0 \in HlsTimes BY HlsNumbers DEF HlsTimes
  <2>2. <<>> \in Seq(HlsTimes) OBVIOUS
  <2> QED BY <2>1, <2>2 DEF H!Free, HlsEntries
<1>3. \A e \in H!Slots : hls_fds[e] = H!Free BY <1>1
<1>4. HlsSlots
  <2>1. hls_fds \in [H!Slots -> HlsEntries] BY <1>1, <1>2
  <2>2. \A e \in H!Slots : hls_fds[e].rotate <= hls_now BY <1>1, <1>2, <1>3
  <2> QED BY <1>2, <1>3, <2>1, <2>2 DEF HlsSlots
<1>5. HlsFiles
  <2>1. H!NoFile \in Seq(Int) BY DEF H!NoFile
  <2>2. playlist \in [HlsServices -> Seq(Int)] BY <1>1, <2>1
  <2>3. \A e \in H!Slots : hls_fds[e].sid \in twice \cup {0} BY <1>2, <1>3
  <2> QED BY <1>1, <2>2, <2>3 DEF HlsFiles
<1>6. HlsMaster BY <1>1, <1>2, <1>3 DEF HlsMaster
<1>7. HlsClock
  <2>1. 0 \in HlsTimes BY HlsNumbers DEF HlsTimes
  <2>2. 0 \in H!Slots BY HlsSlotNumbers
  <2>3. 0 \in 0..MaxHlsNow + hls_rotate_time /\ 0 <= 0 + hls_rotate_time BY HlsNumbers
  <2> QED BY <1>1, <2>1, <2>2, <2>3 DEF HlsClock
<1>8. HlsAges BY <1>2, <1>3 DEF HlsAges
<1>9. HlsFlags BY <1>1 DEF HlsFlags
<1> QED BY <1>4, <1>5, <1>6, <1>7, <1>8, <1>9 DEF HlsInv

\* A chunk opened now is young.
LEMMA HlsYoungNow ==
  ASSUME HlsClock, NEW e \in H!Slots
  PROVE  HlsLastRound(e) \in Int /\ hls_now >= HlsLastRound(e) - hls_rotate_time
         /\ HlsLastRound(e) >= hls_now - hls_rotate_time
<1>1. /\ hls_now \in Nat /\ wake \in Nat /\ hls_rotate_time \in Nat
      /\ wake <= hls_now + hls_rotate_time /\ (task.at = "sleep" => hls_now <= wake)
  BY HlsTimesNat, HlsNumbers DEF HlsClock
<1>2. HlsLastRound(e) \in {wake - hls_rotate_time, hls_now - hls_rotate_time, hls_now}
  BY DEF HlsLastRound
<1>3. HlsLastRound(e) = wake - hls_rotate_time => hls_now - hls_rotate_time <= HlsLastRound(e)
  <2>1. CASE task.at = "sleep" BY <1>1, <2>1 DEF HlsLastRound
  <2>2. CASE task.at # "sleep"
    <3>1. HlsLastRound(e) \in {hls_now - hls_rotate_time, hls_now} BY <2>2 DEF HlsLastRound
    <3> QED BY <1>1, <3>1
  <2> QED BY <2>1, <2>2
<1> QED BY <1>1, <1>2, <1>3

\* What a buffer of service s leaves of the rest: its slot keeps its age or has a new chunk.
LEMMA HlsWorked ==
  ASSUME HlsInv, NEW s \in HlsServices, NEW e \in H!Slots, HlsSlots', HlsFiles',
         hls_fds[e].sid \in {0, s}, hls_fds'[e].sid = s,
         \A d \in H!Slots : d # e => hls_fds'[d] = hls_fds[d],
         \/ hls_fds'[e].rotate = hls_now
         \/ /\ hls_fds[e].sid # 0 /\ hls_fds'[e].rotate = hls_fds[e].rotate
            /\ hls_fds'[e].need_rotate = hls_fds[e].need_rotate,
         late' = hls_stopped, hls_now' = hls_now, master' = master, metrics' = metrics, task' = task,
         wake' = wake, hls_stopped' = hls_stopped, collided' = collided
  PROVE  HlsInv'
<1>1. HlsSlots /\ HlsFiles /\ HlsMaster /\ HlsClock /\ HlsAges /\ HlsFlags BY DEF HlsInv
<1>2. HlsMaster'
  <2>1. ASSUME NEW z \in HlsServices, NEW d \in H!Slots, hls_fds[d].sid = z
        PROVE  \E c \in H!Slots : hls_fds'[c].sid = z
    <3>1. z # 0 BY HlsNumbers
    <3> QED BY <2>1, <3>1
  <2>2. master # H!NoMaster => master \subseteq HlsServices BY <1>1 DEF HlsMaster
  <2>3. hls_stopped' => late' OBVIOUS
  <2>4. ASSUME master # H!NoMaster, ~collided, ~hls_stopped, NEW z \in master
        PROVE  \E c \in H!Slots : hls_fds'[c].sid = z
    <3>1. PICK d \in H!Slots : hls_fds[d].sid = z BY <1>1, <2>4 DEF HlsMaster
    <3> QED BY <2>1, <2>2, <2>4, <3>1
  <2> QED BY <1>1, <2>3, <2>4 DEF HlsMaster
<1>3. HlsClock' BY <1>1 DEF HlsClock
<1>4. HlsAges'
  <2>1. ASSUME NEW d \in H!Slots, hls_fds'[d].sid # 0
        PROVE  \/ hls_fds'[d].rotate >= HlsLastRound(d) - hls_rotate_time
               \/ hls_fds'[d].need_rotate /\ hls_fds'[d].rotate >= HlsLastRound(d) - 2 * hls_rotate_time
    <3>1. CASE d # e BY <1>1, <2>1, <3>1 DEF HlsAges
    <3>2. CASE d = e /\ hls_fds'[e].rotate = hls_now BY <1>1, <3>2, HlsYoungNow
    <3>3. CASE d = e /\ hls_fds'[e].rotate # hls_now BY <1>1, <3>3 DEF HlsAges
    <3> QED BY <3>1, <3>2, <3>3
  <2>2. \A d : HlsLastRound(d)' = HlsLastRound(d) BY DEF HlsLastRound
  <2> QED BY <2>1, <2>2 DEF HlsAges
<1>5. HlsFlags' BY <1>1 DEF HlsFlags
<1> QED BY <1>2, <1>3, <1>4, <1>5 DEF HlsInv

\* hls_worker_main, by what it does with the slot.
LEMMA HlsWorks == ASSUME HlsInv, NEW s \in HlsServices, H!Worker(s) PROVE HlsInv'
<1>1. HlsSlots /\ HlsFiles /\ HlsMaster /\ HlsClock /\ HlsAges /\ HlsFlags BY DEF HlsInv
<1> DEFINE e == H!EntryFind(s)
           found == IF H!Initialized(e) THEN hls_fds[e] ELSE H!Initialize(s, hls_now)
<1>2. PICK iframe \in BOOLEAN, traffic \in IF playlist_ignore_dead THEN BOOLEAN ELSE {TRUE} :
        LET entry == [found EXCEPT !.access = hls_now, !.traffic = traffic]
        IN  IF entry.need_rotate /\ iframe
            THEN H!Rotate(e, entry, hls_now)
            ELSE /\ hls_fds' = [hls_fds EXCEPT ![e] = entry]
                 /\ chunks' = IF H!Initialized(e) THEN chunks ELSE chunks \cup {<<s, hls_now>>}
                 /\ UNCHANGED <<playlist, twice>>
  BY DEF H!Worker
<1> DEFINE entry == [found EXCEPT !.access = hls_now, !.traffic = traffic]
<1>3. /\ late' = hls_stopped /\ hls_now' = hls_now /\ master' = master /\ metrics' = metrics
      /\ task' = task /\ wake' = wake /\ hls_stopped' = hls_stopped /\ collided' = collided
  BY DEF H!Worker
<1>4. /\ e \in H!Slots
      /\ \/ hls_fds[e].sid = s
         \/ hls_fds[e].sid = 0 /\ \A d \in H!Slots : hls_fds[d].sid # s
  BY <1>1, HlsFound
<1>5. H!Initialized(e) <=> hls_fds[e].sid # 0 BY DEF H!Initialized
<1>6. traffic \in BOOLEAN /\ hls_now \in HlsTimes /\ s # 0 BY <1>1, HlsNumbers DEF HlsClock
<1>7. /\ entry \in HlsEntries /\ entry.sid = s
      /\ hls_fds[e].sid # 0 => /\ entry.filenames = hls_fds[e].filenames /\ entry.rotate = hls_fds[e].rotate
                               /\ entry.need_rotate = hls_fds[e].need_rotate
                               /\ entry.sequence = hls_fds[e].sequence
      /\ hls_fds[e].sid = 0 => /\ entry.filenames = <<hls_now>> /\ entry.rotate = hls_now
                               /\ ~entry.need_rotate /\ entry.sequence = 0
  <2>1. CASE hls_fds[e].sid # 0
    <3>1. found = hls_fds[e] /\ hls_fds[e].sid = s BY <1>4, <1>5, <2>1
    <3>2. hls_fds[e] \in HlsEntries BY <1>1, <1>4 DEF HlsSlots
    <3> HIDE DEF found
    <3> QED BY <1>6, <2>1, <3>1, <3>2 DEF HlsEntries
  <2>2. CASE hls_fds[e].sid = 0
    <3>1. found = [sid |-> s, filenames |-> <<hls_now>>, access |-> hls_now, rotate |-> hls_now,
                   need_rotate |-> FALSE, sequence |-> 0, traffic |-> FALSE]
      BY <1>5, <2>2 DEF H!Initialize, H!Free
    <3>2. <<hls_now>> \in Seq(HlsTimes) BY <1>6
    <3> DEFINE g == <<hls_now>>
    <3>3. found = [sid |-> s, filenames |-> g, access |-> hls_now, rotate |-> hls_now,
                   need_rotate |-> FALSE, sequence |-> 0, traffic |-> FALSE] /\ g \in Seq(HlsTimes)
      BY <3>1, <3>2
    <3> HIDE DEF found, g
    <3>4. found \in HlsEntries BY <1>6, <3>3 DEF HlsEntries
    <3>5. /\ entry \in HlsEntries /\ entry.sid = found.sid /\ entry.filenames = found.filenames
          /\ entry.rotate = found.rotate /\ entry.need_rotate = found.need_rotate
          /\ entry.sequence = found.sequence
      BY <1>6, <3>4 DEF HlsEntries
    <3> HIDE DEF entry
    <3> QED BY <2>2, <3>3, <3>5 DEF g
  <2> QED BY <2>1, <2>2
<1> HIDE DEF e, found, entry
<1>8. CASE entry.need_rotate /\ iframe
  <2>1. hls_fds[e].sid # 0 BY <1>7, <1>8
  <2>2. H!Rotate(e, entry, hls_now) BY <1>2, <1>8 DEF entry, found, e
  <2>3. hls_fds[e].sid = s BY <1>4, <2>1
  <2>4. hls_now \in Nat BY <1>1, HlsTimesNat DEF HlsClock
  <2>5. /\ HlsSlots' /\ HlsFiles'
        /\ \A d \in H!Slots : hls_fds'[d].sid = hls_fds[d].sid /\ (d # e => hls_fds'[d] = hls_fds[d])
        /\ hls_fds'[e].rotate = hls_now
    BY <1>1, <1>3, <1>4, <1>6, <1>7, <2>1, <2>2, <2>3, <2>4, HlsRotates
  <2> QED BY <1>1, <1>3, <1>4, <2>3, <2>5, HlsWorked
<1>9. CASE ~(entry.need_rotate /\ iframe)
  <2>1. /\ hls_fds' = [hls_fds EXCEPT ![e] = entry]
        /\ chunks' = IF H!Initialized(e) THEN chunks ELSE chunks \cup {<<s, hls_now>>}
        /\ playlist' = playlist /\ twice' = twice
    BY <1>2, <1>9 DEF entry, found, e
  <2>2. hls_fds \in [H!Slots -> HlsEntries] BY <1>1 DEF HlsSlots
  <2>3. /\ hls_fds' \in [H!Slots -> HlsEntries]
        /\ \A d \in H!Slots : hls_fds'[d] = IF d = e THEN entry ELSE hls_fds[d]
    BY <1>4, <1>7, <2>1, <2>2
  <2>4. hls_now \in Nat BY <1>1, HlsTimesNat DEF HlsClock
  <2>5. CASE hls_fds[e].sid # 0
    <3>1. chunks' = chunks BY <1>5, <2>1, <2>5
    <3>2. hls_fds[e].sid = s BY <1>4, <2>5
    <3>3. \A d \in H!Slots : /\ hls_fds'[d].sid = hls_fds[d].sid
                             /\ hls_fds'[d].filenames = hls_fds[d].filenames
                             /\ hls_fds'[d].rotate = hls_fds[d].rotate
                             /\ hls_fds'[d].sequence = hls_fds[d].sequence
                             /\ hls_fds'[d].need_rotate = hls_fds[d].need_rotate
      BY <1>7, <2>3, <2>5, <3>2
    <3>4. \A d \in H!Slots : hls_fds[d].need_rotate => hls_rotate_iframe BY <1>1 DEF HlsSlots
    <3>5. HlsSlots' BY <1>1, <1>3, <2>3, <2>4, <3>3, <3>4, HlsSlotsSame
    <3>6. HlsFiles' BY <1>1, <2>1, <3>1, <3>3, HlsFilesSame
    <3> QED BY <1>1, <1>3, <1>4, <2>3, <2>5, <3>2, <3>3, <3>5, <3>6, HlsWorked
  <2>6. CASE hls_fds[e].sid = 0
    <3>1. chunks' = chunks \cup {<<s, hls_now>>} BY <1>5, <2>1, <2>6
    <3>2. /\ entry.filenames = <<hls_now>> /\ entry.rotate = hls_now /\ ~entry.need_rotate
          /\ entry.sequence = 0 /\ entry.sid = s /\ \A d \in H!Slots : hls_fds[d].sid # s
      BY <1>4, <1>6, <1>7, <2>6
    <3>3. /\ Len(entry.filenames) = 1 /\ Once(entry.filenames)
          /\ \A x : x \in Names(entry.filenames) <=> x = hls_now
      <4>1. Len(entry.filenames) = 1 /\ entry.filenames[1] = hls_now BY <3>2
      <4> DEFINE g == entry.filenames
      <4>2. Len(g) = 1 /\ g[1] = hls_now BY <4>1
      <4>3. \A x : x \in Names(g) <=> \E i \in 1..Len(g) : g[i] = x BY NamesFacts
      <4> HIDE DEF g
      <4>4. \A i \in 1..Len(g) : i = 1 BY <4>2
      <4>5. 1 \in 1..Len(g) BY <4>2
      <4>6. Once(g) BY <4>4 DEF Once
      <4>7. \A x : x \in Names(g) <=> x = hls_now BY <4>2, <4>3, <4>4, <4>5
      <4> QED BY <4>2, <4>6, <4>7 DEF g
    <3>4. HlsSlots'
      <4>1. 1 \in 1..hls_rotate_count + 1 /\ 1 <= 0 + 1 /\ hls_now <= hls_now BY <2>4, HlsNumbers
      <4> QED BY <1>1, <1>3, <1>6, <2>3, <3>2, <3>3, <4>1 DEF HlsSlots
    <3>5. HlsFiles'
      <4>1. chunks' \subseteq HlsServices \X HlsTimes BY <1>1, <1>6, <3>1 DEF HlsFiles
      <4>2. ASSUME NEW f \in chunks'
            PROVE  \E d \in H!Slots : hls_fds'[d].sid = f[1] /\ f[2] \in Names(hls_fds'[d].filenames)
        <5>1. CASE f \in chunks
          <6>1. PICK d \in H!Slots : hls_fds[d].sid = f[1] /\ f[2] \in Names(hls_fds[d].filenames)
            BY <1>1, <5>1 DEF HlsFiles
          <6>2. f[1] # 0 BY <4>1, HlsNumbers
          <6> QED BY <2>3, <2>6, <6>1, <6>2
        <5>2. CASE f = <<s, hls_now>>
          <6>1. f[1] = s /\ f[2] = hls_now BY <5>2
          <6> QED BY <1>4, <2>3, <3>2, <3>3, <6>1
        <5> QED BY <3>1, <5>1, <5>2
      <4>3. ASSUME NEW d \in H!Slots, hls_fds'[d].sid \notin twice' \cup {0}
            PROVE  /\ Once(hls_fds'[d].filenames)
                   /\ \A x \in Names(hls_fds'[d].filenames) : <<hls_fds'[d].sid, x>> \in chunks'
        <5>1. CASE d = e BY <2>3, <3>1, <3>2, <3>3, <5>1
        <5>2. CASE d # e
          <6>1. hls_fds'[d] = hls_fds[d] BY <2>3, <5>2
          <6> QED BY <1>1, <2>1, <3>1, <4>3, <6>1 DEF HlsFiles
        <5> QED BY <5>1, <5>2
      <4>4. ASSUME NEW z \in HlsServices, playlist'[z] # H!NoFile
            PROVE  /\ \E d \in H!Slots : hls_fds'[d].sid = z
                   /\ z \notin twice' => \A k \in 1..Len(playlist'[z]) : <<z, playlist'[z][k]>> \in chunks'
        <5>1. PICK d \in H!Slots : hls_fds[d].sid = z BY <1>1, <2>1, <4>4 DEF HlsFiles
        <5>2. z # 0 BY HlsNumbers
        <5>3. hls_fds'[d].sid = z BY <2>3, <2>6, <5>1, <5>2
        <5> QED BY <1>1, <2>1, <3>1, <4>4, <5>3 DEF HlsFiles
      <4> QED BY <1>1, <2>1, <4>1, <4>2, <4>3, <4>4 DEF HlsFiles
    <3> QED BY <1>1, <1>3, <1>4, <2>3, <3>2, <3>4, <3>5, HlsWorked
  <2> QED BY <2>5, <2>6
<1> QED BY <1>8, <1>9

LEMMA HlsNextSlot ==
  ASSUME HlsClock
  PROVE  /\ H!NextSlot \in [at : {"sleep", "scan", "rotate", "master", "metrics"}, slot : H!Slots, cur : HlsTimes]
         /\ H!NextSlot.cur = task.cur
         /\ \/ H!NextSlot.at = "scan" /\ H!NextSlot.slot = task.slot + 1
            \/ H!NextSlot.at = "master" /\ task.slot + 1 \notin H!Slots
<1>1. task \in [at : {"sleep", "scan", "rotate", "master", "metrics"}, slot : H!Slots, cur : HlsTimes]
  BY DEF HlsClock
<1>2. CASE task.slot + 1 \in H!Slots
  <2>1. H!NextSlot = [task EXCEPT !.at = "scan", !.slot = task.slot + 1] BY <1>2 DEF H!NextSlot
  <2> DEFINE n == task.slot + 1
  <2>2. H!NextSlot = [task EXCEPT !.at = "scan", !.slot = n] /\ n \in H!Slots BY <1>2, <2>1
  <2> HIDE DEF n
  <2>3. /\ H!NextSlot \in [at : {"sleep", "scan", "rotate", "master", "metrics"}, slot : H!Slots, cur : HlsTimes]
        /\ H!NextSlot.cur = task.cur /\ H!NextSlot.at = "scan" /\ H!NextSlot.slot = n
    BY <1>1, <2>2
  <2> QED BY <2>3 DEF n
<1>3. CASE task.slot + 1 \notin H!Slots
  <2>1. H!NextSlot = [task EXCEPT !.at = "master"] BY <1>3 DEF H!NextSlot
  <2> QED BY <1>1, <1>3, <2>1
<1> QED BY <1>2, <1>3

\* The slots after the one scanned, in their order.
LEMMA HlsAfter ==
  ASSUME HlsClock, task.at \in {"scan", "rotate"}, task' = H!NextSlot, hls_now' = hls_now, NEW e \in H!Slots
  PROVE  /\ HlsLastRound(e)' = IF e > task.slot THEN HlsLastRound(e) ELSE hls_now
         /\ HlsLastRound(e) = IF e >= task.slot THEN hls_now - hls_rotate_time ELSE hls_now
<1>1. e \in Nat /\ task.slot \in Nat /\ task.slot \in H!Slots BY HlsSlotNumbers DEF HlsClock
<1>2. HlsLastRound(e) = IF e >= task.slot THEN hls_now - hls_rotate_time ELSE hls_now
  BY DEF HlsLastRound
<1>3. CASE task'.at = "scan" /\ task'.slot = task.slot + 1
  <2>1. HlsLastRound(e)' = IF e >= task.slot + 1 THEN hls_now - hls_rotate_time ELSE hls_now
    BY <1>3 DEF HlsLastRound
  <2> QED BY <1>1, <1>2, <2>1
<1>4. CASE task'.at = "master" /\ task.slot + 1 \notin H!Slots
  <2>1. HlsLastRound(e)' = hls_now BY <1>4 DEF HlsLastRound
  <2>2. ~(e > task.slot)
    <3>1. H!Slots = 0..Cardinality(HlsServices) - 1 /\ Cardinality(HlsServices) \in Nat BY HlsSlotNumbers
    <3> DEFINE n == Cardinality(HlsServices)
    <3>2. n \in Nat /\ e \in 0..n - 1 /\ task.slot + 1 \notin 0..n - 1 BY <1>4, <3>1
    <3> HIDE DEF n
    <3> QED BY <1>1, <3>2
  <2> QED BY <1>2, <2>1, <2>2
<1> QED BY <1>2, <1>3, <1>4, HlsNextSlot

\* Steps of the periodic thread that leave the files alone.
LEMMA HlsBegins == ASSUME HlsInv, H!Begins PROVE HlsInv'
<1>1. HlsSlots /\ HlsFiles /\ HlsMaster /\ HlsClock /\ HlsAges /\ HlsFlags BY DEF HlsInv
<1>2. /\ task.at = "sleep" /\ hls_now >= wake /\ task' = [at |-> "scan", slot |-> 0, cur |-> hls_now]
      /\ UNCHANGED <<hls_now, hls_fds, chunks, playlist, master, metrics, wake, master_time,
                     checksum, hls_stopped, twice, collided, late>>
  BY DEF H!Begins
<1>3. HlsSlots' BY <1>1, <1>2 DEF HlsSlots
<1>4. HlsFiles' BY <1>1, <1>2, HlsFilesSame
<1>5. HlsMaster' BY <1>1, <1>2, HlsMasterSame
<1>6. HlsClock'
  <2>1. 0 \in H!Slots BY HlsSlotNumbers
  <2> QED BY <1>1, <1>2, <2>1 DEF HlsClock
<1>7. hls_now = wake
  <2>1. hls_now \in Nat /\ wake \in 0..MaxHlsNow + hls_rotate_time /\ hls_now <= wake
    BY <1>1, <1>2, HlsTimesNat DEF HlsClock
  <2> QED BY <1>2, <2>1, HlsNumbers
<1>8. ASSUME NEW e \in H!Slots PROVE HlsLastRound(e)' = HlsLastRound(e)
  <2>1. e >= 0 BY HlsSlotNumbers
  <2> QED BY <1>2, <1>7, <2>1 DEF HlsLastRound
<1>9. HlsAges' BY <1>1, <1>2, <1>8 DEF HlsAges
<1>10. HlsFlags' BY <1>1, <1>2 DEF HlsFlags
<1> QED BY <1>3, <1>4, <1>5, <1>6, <1>9, <1>10 DEF HlsInv

LEMMA HlsScans == ASSUME HlsInv, H!Scans PROVE HlsInv'
<1>1. HlsSlots /\ HlsFiles /\ HlsMaster /\ HlsClock /\ HlsAges /\ HlsFlags BY DEF HlsInv
<1>2. /\ task.at = "scan"
      /\ task' = IF H!Initialized(task.slot) /\ hls_fds[task.slot].rotate < task.cur - hls_rotate_time
                 THEN [task EXCEPT !.at = "rotate"] ELSE H!NextSlot
      /\ UNCHANGED <<hls_now, hls_fds, chunks, playlist, master, metrics, wake, master_time,
                     checksum, hls_stopped, twice, collided, late>>
  BY DEF H!Scans
<1>3. HlsSlots' BY <1>1, <1>2 DEF HlsSlots
<1>4. HlsFiles' BY <1>1, <1>2, HlsFilesSame
<1>5. HlsMaster' BY <1>1, <1>2, HlsMasterSame
<1>6. HlsFlags' BY <1>1, <1>2 DEF HlsFlags
<1>7. task \in [at : {"sleep", "scan", "rotate", "master", "metrics"}, slot : H!Slots, cur : HlsTimes]
      /\ task.cur = hls_now
  BY <1>1, <1>2 DEF HlsClock
<1>8. CASE H!Initialized(task.slot) /\ hls_fds[task.slot].rotate < task.cur - hls_rotate_time
  <2>1. /\ task' \in [at : {"sleep", "scan", "rotate", "master", "metrics"}, slot : H!Slots, cur : HlsTimes]
        /\ task'.at = "rotate" /\ task'.slot = task.slot /\ task'.cur = hls_now
    BY <1>2, <1>7, <1>8
  <2>2. HlsClock' BY <1>1, <1>2, <2>1 DEF HlsClock
  <2>3. \A e \in H!Slots : HlsLastRound(e)' = HlsLastRound(e) BY <1>2, <2>1 DEF HlsLastRound
  <2>4. HlsAges' BY <1>1, <1>2, <2>3 DEF HlsAges
  <2> QED BY <1>3, <1>4, <1>5, <1>6, <2>2, <2>4 DEF HlsInv
<1>9. CASE ~(H!Initialized(task.slot) /\ hls_fds[task.slot].rotate < task.cur - hls_rotate_time)
  <2>1. task' = H!NextSlot BY <1>2, <1>9
  <2>2. HlsClock' BY <1>1, <1>2, <1>7, <2>1, HlsNextSlot DEF HlsClock
  <2>3. ASSUME NEW e \in H!Slots, hls_fds[e].sid # 0
        PROVE  \/ hls_fds[e].rotate >= HlsLastRound(e)' - hls_rotate_time
               \/ hls_fds[e].need_rotate /\ hls_fds[e].rotate >= HlsLastRound(e)' - 2 * hls_rotate_time
    <3>1. /\ HlsLastRound(e)' = IF e > task.slot THEN HlsLastRound(e) ELSE hls_now
          /\ HlsLastRound(e) = IF e >= task.slot THEN hls_now - hls_rotate_time ELSE hls_now
      BY <1>1, <1>2, <2>1, HlsAfter
    <3>2. e \in Nat /\ task.slot \in Nat BY <1>7, HlsSlotNumbers
    <3>3. CASE e = task.slot
      <4>1. ~(hls_fds[e].rotate < hls_now - hls_rotate_time) BY <1>7, <1>9, <2>3, <3>3 DEF H!Initialized
      <4>2. hls_fds[e].rotate \in Nat /\ hls_now \in Nat
        <5>1. hls_fds[e] \in HlsEntries BY <1>1 DEF HlsSlots
        <5> QED BY <1>1, <5>1, HlsTimesNat DEF HlsEntries, HlsClock
      <4> QED BY <3>1, <3>2, <3>3, <4>1, <4>2, HlsNumbers
    <3>4. CASE e # task.slot
      <4>1. HlsLastRound(e)' = HlsLastRound(e) BY <3>1, <3>2, <3>4
      <4> QED BY <1>1, <2>3, <4>1 DEF HlsAges
    <3> QED BY <3>3, <3>4
  <2>4. HlsAges' BY <1>2, <2>3 DEF HlsAges
  <2> QED BY <1>3, <1>4, <1>5, <1>6, <2>2, <2>4 DEF HlsInv
<1> QED BY <1>8, <1>9

LEMMA HlsWritesMetrics == ASSUME HlsInv, H!WritesMetrics PROVE HlsInv'
<1>1. HlsSlots /\ HlsFiles /\ HlsMaster /\ HlsClock /\ HlsAges /\ HlsFlags BY DEF HlsInv
<1>2. /\ task.at = "metrics" /\ metrics' = TRUE /\ late' = (late \/ hls_stopped)
      /\ task' = [at |-> "sleep", slot |-> 0, cur |-> 0] /\ wake' = hls_now + hls_rotate_time
      /\ UNCHANGED <<hls_now, hls_fds, chunks, playlist, master, master_time, checksum,
                     hls_stopped, twice, collided>>
  BY DEF H!WritesMetrics
<1>3. HlsSlots' BY <1>1, <1>2 DEF HlsSlots
<1>4. HlsFiles' BY <1>1, <1>2, HlsFilesSame
<1>5. HlsMaster' BY <1>1, <1>2 DEF HlsMaster
<1>6. hls_now \in Nat /\ hls_now <= MaxHlsNow
  <2>1. hls_now \in 0..MaxHlsNow BY <1>1 DEF HlsClock, HlsTimes
  <2> QED BY <2>1, HlsNumbers
<1>7. HlsClock'
  <2>1. 0 \in H!Slots /\ 0 \in HlsTimes BY HlsSlotNumbers, HlsNumbers DEF HlsTimes
  <2>2. wake' \in 0..MaxHlsNow + hls_rotate_time /\ wake' <= hls_now + hls_rotate_time /\ hls_now <= wake'
    BY <1>2, <1>6, HlsNumbers
  <2> QED BY <1>1, <1>2, <2>1, <2>2 DEF HlsClock
<1>8. ASSUME NEW e \in H!Slots PROVE HlsLastRound(e)' = HlsLastRound(e)
  <2>1. HlsLastRound(e) = hls_now BY <1>2 DEF HlsLastRound
  <2>2. HlsLastRound(e)' = (hls_now + hls_rotate_time) - hls_rotate_time BY <1>2 DEF HlsLastRound
  <2> QED BY <1>6, <2>1, <2>2, HlsNumbers
<1>9. HlsAges' BY <1>1, <1>2, <1>8 DEF HlsAges
<1>10. HlsFlags' BY <1>1, <1>2 DEF HlsFlags
<1> QED BY <1>3, <1>4, <1>5, <1>7, <1>9, <1>10 DEF HlsInv

LEMMA HlsTicks == ASSUME HlsInv, H!Tick PROVE HlsInv'
<1>1. HlsSlots /\ HlsFiles /\ HlsMaster /\ HlsClock /\ HlsAges /\ HlsFlags BY DEF HlsInv
<1>2. /\ hls_now < MaxHlsNow /\ task.at = "sleep" /\ hls_now < wake /\ hls_now' = hls_now + 1
      /\ UNCHANGED <<hls_fds, chunks, playlist, master, metrics, task, wake, master_time,
                     checksum, hls_stopped, twice, collided, late>>
  BY DEF H!Tick
<1>3. /\ hls_now \in Nat /\ hls_now' \in HlsTimes /\ hls_now' \in Nat /\ hls_now <= hls_now'
      /\ wake <= hls_now' + hls_rotate_time /\ hls_now' <= wake
  <2>1. hls_now \in 0..MaxHlsNow /\ wake \in 0..MaxHlsNow + hls_rotate_time /\ wake <= hls_now + hls_rotate_time
    BY <1>1 DEF HlsClock, HlsTimes
  <2> QED BY <1>2, <2>1, HlsNumbers DEF HlsTimes
<1>4. HlsSlots'
  <2>1. hls_fds' \in [H!Slots -> HlsEntries] BY <1>1, <1>2 DEF HlsSlots
  <2>2. \A d \in H!Slots : hls_fds'[d].need_rotate => hls_rotate_iframe BY <1>1, <1>2 DEF HlsSlots
  <2> QED BY <1>1, <1>2, <1>3, <2>1, <2>2, HlsSlotsSame
<1>5. HlsFiles' BY <1>1, <1>2, HlsFilesSame
<1>6. HlsMaster' BY <1>1, <1>2, HlsMasterSame
<1>7. HlsClock' BY <1>1, <1>2, <1>3 DEF HlsClock
<1>8. \A e \in H!Slots : HlsLastRound(e)' = HlsLastRound(e) BY <1>2 DEF HlsLastRound
<1>9. HlsAges' BY <1>1, <1>2, <1>8 DEF HlsAges
<1>10. HlsFlags' BY <1>1, <1>2 DEF HlsFlags
<1> QED BY <1>4, <1>5, <1>6, <1>7, <1>9, <1>10 DEF HlsInv

LEMMA HlsStops == ASSUME HlsInv, H!Stop PROVE HlsInv'
<1>1. HlsSlots /\ HlsFiles /\ HlsMaster /\ HlsClock /\ HlsAges /\ HlsFlags BY DEF HlsInv
<1> DEFINE G == {e \in H!Slots : H!Initialized(e)}
<1>2. /\ hls_stopped' = TRUE /\ H!Destroy(G) /\ master' = H!NoMaster /\ metrics' = FALSE
      /\ UNCHANGED <<hls_now, task, wake, master_time, checksum, twice, collided, late>>
  BY DEF H!Stop
<1>3. G \subseteq H!Slots /\ \A e \in H!Slots : e \in G <=> hls_fds[e].sid # 0 BY DEF H!Initialized
<1> HIDE DEF G
<1>4. hls_now \in Nat BY <1>1, HlsTimesNat DEF HlsClock
<1>5. /\ HlsSlots' /\ HlsFiles'
      /\ \A d \in H!Slots : hls_fds'[d] = IF d \in G THEN H!Free ELSE hls_fds[d]
      /\ H!Free.sid = 0
  BY <1>1, <1>2, <1>3, <1>4, HlsDestroys
<1>6. \A d \in H!Slots : hls_fds'[d].sid = 0 BY <1>3, <1>5
<1>7. HlsMaster' BY <1>2, <1>6 DEF HlsMaster
<1>8. HlsClock' BY <1>1, <1>2 DEF HlsClock
<1>9. HlsAges' BY <1>6 DEF HlsAges
<1>10. HlsFlags' BY <1>1, <1>2 DEF HlsFlags
<1> QED BY <1>5, <1>7, <1>8, <1>9, <1>10 DEF HlsInv

LEMMA HlsStutters == ASSUME HlsInv, UNCHANGED hlsVars PROVE HlsInv'
<1>1. /\ HlsSlots /\ HlsFiles /\ HlsMaster /\ HlsClock /\ HlsAges /\ HlsFlags
      /\ UNCHANGED <<hls_now, hls_fds, chunks, playlist, master, metrics, task, wake, master_time,
                     checksum, hls_stopped, twice, collided, late>>
  BY DEF HlsInv, hlsVars
<1>2. HlsSlots' BY <1>1 DEF HlsSlots
<1>3. HlsFiles' BY <1>1, HlsFilesSame
<1>4. HlsMaster' BY <1>1, HlsMasterSame
<1>5. HlsClock' BY <1>1 DEF HlsClock
<1>6. HlsAges' BY <1>1 DEF HlsAges, HlsLastRound
<1>7. HlsFlags' BY <1>1 DEF HlsFlags
<1> QED BY <1>2, <1>3, <1>4, <1>5, <1>6, <1>7 DEF HlsInv

LEMMA HlsRotatesOrAsks == ASSUME HlsInv, H!RotatesOrAsks PROVE HlsInv'
<1>1. HlsSlots /\ HlsFiles /\ HlsMaster /\ HlsClock /\ HlsAges /\ HlsFlags BY DEF HlsInv
<1> DEFINE e == task.slot
           entry == hls_fds[e]
<1>2. /\ task.at = "rotate" /\ task' = H!NextSlot
      /\ IF ~entry.need_rotate /\ hls_rotate_iframe
         THEN /\ hls_fds' = [hls_fds EXCEPT ![e].need_rotate = TRUE]
              /\ UNCHANGED <<chunks, playlist, twice>>
         ELSE IF H!Initialized(e) THEN H!Rotate(e, entry, task.cur)
         ELSE UNCHANGED <<hls_fds, chunks, playlist, twice>>
      /\ UNCHANGED <<hls_now, master, metrics, wake, master_time, checksum, hls_stopped,
                     collided, late>>
  BY DEF H!RotatesOrAsks
<1>3. /\ e \in H!Slots /\ hls_now \in Nat /\ hls_now \in HlsTimes /\ task.cur = hls_now
      /\ hls_fds \in [H!Slots -> HlsEntries] /\ entry \in HlsEntries
  BY <1>1, <1>2, HlsTimesNat DEF HlsClock, HlsSlots
<1>4. H!Initialized(e) <=> entry.sid # 0 BY DEF H!Initialized
<1> HIDE DEF e, entry
<1>5. HlsClock' BY <1>1, <1>2, <1>3, HlsNextSlot DEF HlsClock
<1>6. HlsFlags' BY <1>1, <1>2 DEF HlsFlags
<1>7. ASSUME NEW d \in H!Slots
      PROVE  /\ d # e => HlsLastRound(d)' = HlsLastRound(d)
             /\ d = e => HlsLastRound(d)' = hls_now /\ HlsLastRound(d) = hls_now - hls_rotate_time
  <2>1. /\ HlsLastRound(d)' = IF d > e THEN HlsLastRound(d) ELSE hls_now
        /\ HlsLastRound(d) = IF d >= e THEN hls_now - hls_rotate_time ELSE hls_now
    BY <1>1, <1>2, HlsAfter DEF e
  <2>2. d \in Nat /\ e \in Nat BY <1>3, HlsSlotNumbers
  <2> QED BY <2>1, <2>2
\* The rest of the invariant, once the slot scanned is young.
<1>8. ASSUME \A d \in H!Slots : hls_fds'[d].sid = hls_fds[d].sid /\ (d # e => hls_fds'[d] = hls_fds[d]),
             hls_fds'[e].sid # 0 => \/ hls_fds'[e].rotate >= hls_now - hls_rotate_time
                                    \/ /\ hls_fds'[e].need_rotate
                                       /\ hls_fds'[e].rotate >= hls_now - 2 * hls_rotate_time,
             HlsSlots', HlsFiles'
      PROVE  HlsInv'
  <2>1. HlsMaster' BY <1>1, <1>2, <1>8, HlsMasterSame
  <2>2. ASSUME NEW d \in H!Slots, hls_fds'[d].sid # 0
        PROVE  \/ hls_fds'[d].rotate >= HlsLastRound(d)' - hls_rotate_time
               \/ hls_fds'[d].need_rotate /\ hls_fds'[d].rotate >= HlsLastRound(d)' - 2 * hls_rotate_time
    <3>1. CASE d = e BY <1>7, <1>8, <2>2, <3>1
    <3>2. CASE d # e
      <4>1. hls_fds'[d] = hls_fds[d] /\ HlsLastRound(d)' = HlsLastRound(d) BY <1>7, <1>8, <3>2
      <4> QED BY <1>1, <2>2, <4>1 DEF HlsAges
    <3> QED BY <3>1, <3>2
  <2>3. HlsAges' BY <2>2 DEF HlsAges
  <2> QED BY <1>5, <1>6, <1>8, <2>1, <2>3 DEF HlsInv
<1>9. entry.sid # 0 => \/ entry.rotate >= (hls_now - hls_rotate_time) - hls_rotate_time
                       \/ /\ entry.need_rotate
                          /\ entry.rotate >= (hls_now - hls_rotate_time) - 2 * hls_rotate_time
  BY <1>1, <1>3, <1>7 DEF HlsAges, entry
<1>10. CASE ~entry.need_rotate /\ hls_rotate_iframe
  <2>1. /\ hls_fds' = [hls_fds EXCEPT ![e].need_rotate = TRUE] /\ chunks' = chunks
        /\ playlist' = playlist /\ twice' = twice
    BY <1>2, <1>10
  <2>2. /\ hls_fds' \in [H!Slots -> HlsEntries]
        /\ \A d \in H!Slots : hls_fds'[d] = IF d = e THEN [hls_fds[e] EXCEPT !.need_rotate = TRUE] ELSE hls_fds[d]
    <3>1. [entry EXCEPT !.need_rotate = TRUE] \in HlsEntries BY <1>3 DEF HlsEntries
    <3> DEFINE g == [entry EXCEPT !.need_rotate = TRUE]
    <3>2. hls_fds' = [hls_fds EXCEPT ![e] = g] BY <1>3, <2>1 DEF entry
    <3>3. g \in HlsEntries /\ g = [hls_fds[e] EXCEPT !.need_rotate = TRUE] BY <3>1 DEF entry
    <3> HIDE DEF g
    <3> QED BY <1>3, <3>2, <3>3
  <2>3. /\ hls_fds'[e].need_rotate /\ hls_fds'[e].sid = entry.sid /\ hls_fds'[e].rotate = entry.rotate
        /\ hls_fds'[e].filenames = entry.filenames /\ hls_fds'[e].sequence = entry.sequence
    BY <1>3, <2>2 DEF entry, HlsEntries
  <2>4. \A d \in H!Slots : /\ hls_fds'[d].sid = hls_fds[d].sid
                           /\ hls_fds'[d].filenames = hls_fds[d].filenames
                           /\ hls_fds'[d].rotate = hls_fds[d].rotate
                           /\ hls_fds'[d].sequence = hls_fds[d].sequence
    BY <2>2, <2>3 DEF entry
  <2>5. \A d \in H!Slots : hls_fds'[d].need_rotate => hls_rotate_iframe BY <1>10
  <2>6. HlsSlots'
    <3>1. hls_now' = hls_now /\ hls_now' \in Nat /\ hls_now <= hls_now' BY <1>2, <1>3
    <3> QED BY <1>1, <2>2, <2>4, <2>5, <3>1, HlsSlotsSame
  <2>7. HlsFiles' BY <1>1, <2>1, <2>4, HlsFilesSame
  <2>8. entry.sid # 0 => entry.rotate >= hls_now - 2 * hls_rotate_time
    <3>1. entry.rotate \in Nat BY <1>3, HlsTimesNat DEF HlsEntries
    <3> QED BY <1>3, <1>9, <1>10, <3>1, HlsNumbers
  <2> QED BY <1>8, <2>2, <2>3, <2>4, <2>6, <2>7, <2>8
<1>11. CASE ~(~entry.need_rotate /\ hls_rotate_iframe) /\ entry.sid # 0
  <2>1. H!Rotate(e, entry, hls_now) /\ hls_now' = hls_now BY <1>2, <1>3, <1>4, <1>11
  <2>2. hls_now <= hls_now BY <1>3
  <2>3. /\ HlsSlots' /\ HlsFiles'
        /\ \A d \in H!Slots : hls_fds'[d].sid = hls_fds[d].sid /\ (d # e => hls_fds'[d] = hls_fds[d])
        /\ hls_fds'[e].rotate = hls_now
    BY <1>1, <1>3, <1>11, <2>1, <2>2, HlsRotates DEF entry
  <2>4. hls_now >= hls_now - hls_rotate_time BY <1>3, HlsNumbers
  <2> QED BY <1>8, <2>3, <2>4
<1>12. CASE ~(~entry.need_rotate /\ hls_rotate_iframe) /\ entry.sid = 0
  <2>1. UNCHANGED <<hls_fds, chunks, playlist, twice, hls_now>> BY <1>2, <1>4, <1>12
  <2>2. HlsSlots' BY <1>1, <2>1 DEF HlsSlots
  <2>3. HlsFiles' BY <1>1, <2>1, HlsFilesSame
  <2> QED BY <1>8, <1>12, <2>1, <2>2, <2>3 DEF entry
<1> QED BY <1>10, <1>11, <1>12

\* The services of the master playlist have a slot.
LEMMA HlsServed ==
  ASSUME NEW fds \in [H!Slots -> HlsEntries]
  PROVE  /\ H!Services(fds) \subseteq HlsServices
         /\ \A s \in H!Services(fds) : \E e \in H!Slots : fds[e].sid = s
<1>1. H!Services(fds) = {fds[e].sid : e \in H!Active(fds)} BY DEF H!Services
<1>2. \A e \in H!Active(fds) : e \in H!Slots /\ fds[e].sid # 0 BY DEF H!Active
<1>3. \A e \in H!Slots : fds[e].sid \in HlsServices \cup {0}
  <2>1. \A e \in H!Slots : fds[e] \in HlsEntries OBVIOUS
  <2> QED BY <2>1 DEF HlsEntries
<1> QED BY <1>1, <1>2, <1>3

LEMMA HlsMasterRound == ASSUME HlsInv, H!MasterRound PROVE HlsInv'
<1>1. HlsSlots /\ HlsFiles /\ HlsMaster /\ HlsClock /\ HlsAges /\ HlsFlags BY DEF HlsInv
<1> DEFINE G == {e \in H!Slots : H!TooOld(e)}
<1>2. /\ task.at = "master" /\ task' = [task EXCEPT !.at = "metrics"]
      /\ UNCHANGED <<hls_now, metrics, wake, hls_stopped, twice>>
  BY DEF H!MasterRound
<1>3. G \subseteq H!Slots OBVIOUS
<1> HIDE DEF G
<1>4. HlsClock'
  <2>1. task \in [at : {"sleep", "scan", "rotate", "master", "metrics"}, slot : H!Slots, cur : HlsTimes]
    BY <1>1 DEF HlsClock
  <2>2. /\ task' \in [at : {"sleep", "scan", "rotate", "master", "metrics"}, slot : H!Slots, cur : HlsTimes]
        /\ task'.at = "metrics" /\ task'.cur = task.cur
    BY <1>2, <2>1
  <2> QED BY <1>1, <1>2, <2>2 DEF HlsClock
<1>5. task'.at = "metrics" BY <1>1, <1>2 DEF HlsClock
<1>6. \A e : HlsLastRound(e)' = HlsLastRound(e) BY <1>2, <1>5 DEF HlsLastRound
<1>7. CASE master_time < task.cur - hls_rotate_time
  <2>1. /\ H!Destroy(G)
        /\ master' = IF checksum' = checksum THEN master ELSE H!Services(hls_fds')
        /\ collided' = (checksum' = checksum /\ H!Services(hls_fds') # master \ H!NoMaster)
        /\ late' = (late \/ (hls_stopped /\ checksum' # checksum))
    BY <1>7 DEF H!MasterRound, G
  <2>2. hls_now \in Nat BY <1>1, HlsTimesNat DEF HlsClock
  <2>3. /\ HlsSlots' /\ HlsFiles'
        /\ \A d \in H!Slots : hls_fds'[d] = IF d \in G THEN H!Free ELSE hls_fds[d]
        /\ H!Free.sid = 0
    BY <1>1, <1>2, <1>3, <2>1, <2>2, HlsDestroys
  <2>4. HlsAges' BY <1>1, <1>6, <2>3 DEF HlsAges
  <2>5. HlsMaster'
    <3>1. hls_fds' \in [H!Slots -> HlsEntries] BY <2>3 DEF HlsSlots
    <3>2. /\ H!Services(hls_fds') \subseteq HlsServices
          /\ \A s \in H!Services(hls_fds') : \E e \in H!Slots : hls_fds'[e].sid = s
      BY <3>1, HlsServed
    <3>3. master \in (SUBSET HlsServices) \cup {H!NoMaster} BY <1>1 DEF HlsMaster
    <3>4. master' \in (SUBSET HlsServices) \cup {H!NoMaster} BY <2>1, <3>2, <3>3
    <3>5. ASSUME master' # H!NoMaster, ~collided', NEW s \in master'
          PROVE  \E e \in H!Slots : hls_fds'[e].sid = s
      <4>1. CASE checksum' = checksum
        <5>1. master' = master /\ H!Services(hls_fds') = master \ H!NoMaster BY <2>1, <3>5, <4>1
        <5>2. s # 0 /\ s \in master BY <3>3, <3>5, <5>1, HlsNumbers
        <5>3. s \in H!Services(hls_fds') BY <5>1, <5>2 DEF H!NoMaster
        <5> QED BY <3>2, <5>3
      <4>2. CASE checksum' # checksum BY <2>1, <3>2, <3>5, <4>2
      <4> QED BY <4>1, <4>2
    <3>6. ASSUME hls_stopped', ~late'
          PROVE  master' = H!NoMaster /\ ~metrics' /\ \A e \in H!Slots : hls_fds'[e].sid = 0
      <4>1. hls_stopped /\ ~late /\ checksum' = checksum BY <1>2, <2>1, <3>6
      <4>2. master = H!NoMaster /\ ~metrics /\ \A e \in H!Slots : hls_fds[e].sid = 0
        BY <1>1, <4>1 DEF HlsMaster
      <4> QED BY <1>2, <2>1, <2>3, <4>1, <4>2
    <3> QED BY <3>4, <3>5, <3>6 DEF HlsMaster
  <2>6. HlsFlags' BY <1>1, <1>2, <2>1 DEF HlsFlags
  <2> QED BY <1>4, <2>3, <2>4, <2>5, <2>6 DEF HlsInv
<1>8. CASE ~(master_time < task.cur - hls_rotate_time)
  <2>1. UNCHANGED <<hls_fds, chunks, playlist, master, collided, late>> BY <1>8 DEF H!MasterRound
  <2>2. HlsSlots' BY <1>1, <1>2, <2>1 DEF HlsSlots
  <2>3. HlsFiles' BY <1>1, <1>2, <2>1, HlsFilesSame
  <2>4. HlsMaster' BY <1>1, <1>2, <2>1, HlsMasterSame
  <2>5. HlsAges' BY <1>1, <1>6, <2>1 DEF HlsAges
  <2>6. HlsFlags' BY <1>1, <1>2, <2>1 DEF HlsFlags
  <2> QED BY <1>4, <2>2, <2>3, <2>4, <2>5, <2>6 DEF HlsInv
<1> QED BY <1>7, <1>8

LEMMA HlsStep == HlsInv /\ (H!Next \/ UNCHANGED hlsVars) => HlsInv'
<1> SUFFICES ASSUME HlsInv, H!Next \/ UNCHANGED hlsVars PROVE HlsInv' OBVIOUS
<1>1. CASE \E s \in HlsServices : H!Worker(s) BY <1>1, HlsWorks
<1>2. CASE H!Begins BY <1>2, HlsBegins
<1>3. CASE H!Scans BY <1>3, HlsScans
<1>4. CASE H!RotatesOrAsks BY <1>4, HlsRotatesOrAsks
<1>5. CASE H!MasterRound BY <1>5, HlsMasterRound
<1>6. CASE H!WritesMetrics BY <1>6, HlsWritesMetrics
<1>7. CASE H!Stop BY <1>7, HlsStops
<1>8. CASE H!Tick BY <1>8, HlsTicks
<1>9. CASE UNCHANGED hlsVars BY <1>9, HlsStutters
<1> QED BY <1>1, <1>2, <1>3, <1>4, <1>5, <1>6, <1>7, <1>8, <1>9 DEF H!Next

LEMMA HlsGoals == HlsInv => H!TypeOK /\ H!FilesAgree /\ H!ChunkBounded /\ H!NothingLeft
<1> SUFFICES ASSUME HlsInv PROVE H!TypeOK /\ H!FilesAgree /\ H!ChunkBounded /\ H!NothingLeft OBVIOUS
<1>1. HlsSlots /\ HlsFiles /\ HlsMaster /\ HlsClock /\ HlsAges /\ HlsFlags BY DEF HlsInv
<1>2. \A list : H!ToSet(list) = Names(list) BY DEF H!ToSet, Names
<1>3. \A e \in H!Slots : hls_fds[e] \in HlsEntries BY <1>1 DEF HlsSlots
<1>4. H!TypeOK
  <2>1. ASSUME NEW e \in H!Slots
        PROVE  /\ hls_fds[e].sid \in HlsServices \cup {0}
               /\ Len(hls_fds[e].filenames) <= hls_rotate_count + 1
               /\ hls_fds[e].need_rotate => hls_rotate_iframe
    <3>1. hls_fds[e].sid \in HlsServices \cup {0} BY <1>3 DEF HlsEntries
    <3>2. CASE hls_fds[e].sid = 0
      <4>1. Len(hls_fds[e].filenames) = 0 BY <1>1, <3>2 DEF HlsSlots
      <4> QED BY <1>1, <3>1, <4>1, HlsNumbers DEF HlsSlots
    <3>3. CASE hls_fds[e].sid # 0
      <4>1. Len(hls_fds[e].filenames) \in 1..hls_rotate_count + 1 BY <1>1, <3>3 DEF HlsSlots
      <4> QED BY <1>1, <3>1, <4>1, HlsNumbers DEF HlsSlots
    <3> QED BY <3>2, <3>3
  <2>2. /\ hls_now \in 0..MaxHlsNow /\ wake \in 0..MaxHlsNow + hls_rotate_time
        /\ task.at \in {"sleep", "scan", "rotate", "master", "metrics"} /\ task.slot \in H!Slots
    BY <1>1 DEF HlsClock, HlsTimes
  <2>3. /\ chunks \subseteq HlsServices \X (0..MaxHlsNow) /\ playlist \in [HlsServices -> Seq(Int)]
        /\ twice \subseteq HlsServices
    BY <1>1 DEF HlsFiles, HlsTimes
  <2>4. master \in (SUBSET HlsServices) \cup {H!NoMaster} BY <1>1 DEF HlsMaster
  <2>5. {metrics, hls_stopped, collided, late} \subseteq BOOLEAN BY <1>1 DEF HlsFlags
  <2> QED BY <2>1, <2>2, <2>3, <2>4, <2>5 DEF H!TypeOK
<1>5. H!FilesAgree
  <2>1. \A f \in chunks : \E e \in H!Slots : hls_fds[e].sid = f[1] /\ f[2] \in H!ToSet(hls_fds[e].filenames)
    BY <1>1, <1>2 DEF HlsFiles
  <2>2. \A s \in HlsServices \ twice :
          playlist[s] # H!NoFile => \A k \in 1..Len(playlist[s]) : <<s, playlist[s][k]>> \in chunks
    BY <1>1 DEF HlsFiles
  <2> QED BY <1>1, <2>1, <2>2 DEF H!FilesAgree, HlsMaster
<1>6. H!ChunkBounded
  <2>1. SUFFICES ASSUME NEW e \in H!Slots, H!Initialized(e)
                 PROVE  hls_now - hls_fds[e].rotate <= (IF hls_rotate_iframe THEN 3 ELSE 2) * hls_rotate_time
    BY DEF H!ChunkBounded
  <2> DEFINE r == hls_fds[e].rotate
             l == HlsLastRound(e)
  <2>2. r \in Nat /\ hls_now \in Nat /\ hls_rotate_time \in Nat
    BY <1>1, <1>3, HlsTimesNat, HlsNumbers DEF HlsEntries, HlsClock
  <2>3. l \in Int /\ l >= hls_now - hls_rotate_time BY <1>1, HlsYoungNow
  <2>4. \/ r >= l - hls_rotate_time
        \/ hls_fds[e].need_rotate /\ r >= l - 2 * hls_rotate_time
    BY <1>1, <2>1 DEF HlsAges, H!Initialized
  <2>5. hls_fds[e].need_rotate => hls_rotate_iframe BY <1>1 DEF HlsSlots
  <2> HIDE DEF r, l
  <2>6. r >= hls_now - 3 * hls_rotate_time BY <2>2, <2>3, <2>4
  <2>7. ~hls_rotate_iframe => r >= hls_now - 2 * hls_rotate_time BY <2>2, <2>3, <2>4, <2>5
  <2> QED BY <2>2, <2>6, <2>7 DEF r
<1>7. H!NothingLeft
  <2>1. SUFFICES ASSUME hls_stopped, ~late
                 PROVE  chunks = {} /\ master = H!NoMaster /\ ~metrics /\ \A s \in HlsServices : playlist[s] = H!NoFile
    BY DEF H!NothingLeft
  <2>2. master = H!NoMaster /\ ~metrics /\ \A e \in H!Slots : hls_fds[e].sid = 0
    BY <1>1, <2>1 DEF HlsMaster
  <2>3. ASSUME NEW f \in chunks PROVE FALSE
    <3>1. PICK e \in H!Slots : hls_fds[e].sid = f[1] BY <1>1 DEF HlsFiles
    <3>2. f[1] \in HlsServices BY <1>1 DEF HlsFiles
    <3> QED BY <2>2, <3>1, <3>2, HlsNumbers
  <2>4. ASSUME NEW s \in HlsServices, playlist[s] # H!NoFile PROVE FALSE
    <3>1. PICK e \in H!Slots : hls_fds[e].sid = s BY <1>1, <2>4 DEF HlsFiles
    <3> QED BY <2>2, <3>1, HlsNumbers
  <2> QED BY <2>2, <2>3, <2>4
<1> QED BY <1>4, <1>5, <1>6, <1>7
=============================================================================
