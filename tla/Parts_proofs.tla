---------------------------- MODULE Parts_proofs ----------------------------
(***************************************************************************)
(* The invariants of the parts, for every value of their constants.        *)
(***************************************************************************)
EXTENDS Parts, Parts_lemmas, Rewrites_proofs

vars == <<part, keyVars, camVars, menuVars, monVars, sapVars, nitVars, clVars, hlsVars,
          sdtVars, eitVars, pmtVars, lcVars, dgVars>>

\* A step of the whole is a step of a part or leaves its variables alone.
LEMMA EachAlone ==
  ASSUME [Next]_vars
  PROVE  /\ K!Next \/ UNCHANGED keyVars
         /\ C!Next \/ UNCHANGED camVars
         /\ Menu!Next \/ UNCHANGED menuVars
         /\ Mon!Next \/ UNCHANGED monVars
         /\ Cl!Next \/ UNCHANGED clVars
         /\ H!Next \/ UNCHANGED hlsVars
         /\ Sp!Next \/ UNCHANGED sapVars
         /\ N!Next \/ UNCHANGED nitVars
         /\ Sdt!Next \/ UNCHANGED sdtVars
         /\ Eit!Next \/ UNCHANGED eitVars
         /\ Pmt!Next \/ UNCHANGED pmtVars
         /\ L!Next \/ UNCHANGED lcVars
         /\ D!Next \/ UNCHANGED dgVars
<1>1. CASE UNCHANGED vars BY <1>1 DEF vars
<1>2. CASE Next
  <2> USE DEF Only
  <2>1. K!Next \/ UNCHANGED keyVars BY <1>2 DEF Next
  <2>2. C!Next \/ UNCHANGED camVars BY <1>2 DEF Next
  <2>3. Menu!Next \/ UNCHANGED menuVars BY <1>2 DEF Next
  <2>4. Mon!Next \/ UNCHANGED monVars BY <1>2 DEF Next
  <2>5. H!Next \/ UNCHANGED hlsVars BY <1>2 DEF Next
  <2>6. L!Next \/ UNCHANGED lcVars BY <1>2 DEF Next
  <2>7. Cl!Next \/ UNCHANGED clVars BY <1>2 DEF Next
  <2>8. Sp!Next \/ UNCHANGED sapVars BY <1>2 DEF Next
  <2>9. N!Next \/ UNCHANGED nitVars BY <1>2 DEF Next
  <2>10. Sdt!Next \/ UNCHANGED sdtVars BY <1>2 DEF Next
  <2>11. Eit!Next \/ UNCHANGED eitVars BY <1>2 DEF Next
  <2>12. Pmt!Next \/ UNCHANGED pmtVars BY <1>2 DEF Next
  <2>13. D!Next \/ UNCHANGED dgVars BY <1>2 DEF Next
  <2> QED BY <2>1, <2>2, <2>3, <2>4, <2>5, <2>6, <2>7, <2>8, <2>9, <2>10, <2>11, <2>12, <2>13
<1> QED BY <1>1, <1>2

-----------------------------------------------------------------------------
(* Sap                                                                      *)

SapAnnounces == [version : 0..15, name : 0..MaxName]

SapTypes ==
    /\ sap_now \in 0..MaxSapNow /\ polled_now \in BOOLEAN
    /\ name \in [SapChannels -> 1..MaxName] /\ sap_ready \in [SapChannels -> BOOLEAN]
    /\ sap_need_update \in [SapChannels -> BOOLEAN]
    /\ message \in [SapChannels -> [version : 0..15, to_be_sent : BOOLEAN, name : 0..MaxName]]
    /\ building \in [channel : SapChannels \cup {"none"}, name : 0..MaxName, left : SUBSET SapChannels]
    /\ on_air \in [SapChannels -> SapAnnounces]
    /\ changed \in [SapChannels -> Nat] /\ crossed \subseteq SapChannels
    /\ rebuilt \in [SapChannels -> Nat]
    /\ \A c \in SapChannels : changed[c] <= sap_now

\* From second 2 on the last time is that of a send, an interval ago at most.
SapClock ==
    /\ sap_last_time_sent \in Int
    /\ sap_now <= 1 =>
           sap_last_time_sent = IF polled_now THEN sap_now - sap_interval - 1 ELSE 0
    /\ sap_now >= 2 => /\ sap_last_time_sent >= 1 /\ sap_last_time_sent <= sap_now - 1
                       /\ sap_now - sap_last_time_sent <= sap_interval + 1

SapPending == building.left \cup {building.channel}

\* What is built is the name of a channel that is ready.
SapBuilds ==
    /\ building.channel # "none" => polled_now
    /\ building.channel = "none" => building.left = {}
    /\ \A c \in SapChannels :
         /\ c \in SapPending => sap_ready[c]
         /\ c = building.channel /\ c \notin crossed => building.name = name[c]

\* A name that is not crossed is in the message, or in the next one, which the next poll builds.
SapFresh ==
    \A c \in SapChannels : sap_ready[c] =>
        /\ c \notin crossed /\ name[c] \notin TooLong /\ ~sap_need_update[c] /\ c # building.channel =>
               message[c].to_be_sent /\ message[c].name = name[c]
        /\ sap_need_update[c] =>
               c \in SapPending \/ changed[c] >= IF polled_now THEN sap_now ELSE sap_now - 1

\* What was sent in a second after the change has the name.
SapAired ==
    \A c \in SapChannels :
        sap_ready[c] /\ c \notin crossed /\ name[c] \notin TooLong /\ sap_now >= 2
            /\ sap_last_time_sent > changed[c]
        => on_air[c].name = name[c]

SapVersions ==
    \A c \in SapChannels :
        /\ message[c].version = (on_air[c].version + rebuilt[c]) % 16
        /\ rebuilt[c] = 0 /\ on_air[c] # Sp!NoAnnounce => on_air[c].name = message[c].name

SapInv == SapTypes /\ SapClock /\ SapBuilds /\ SapFresh /\ SapAired /\ SapVersions

LEMMA SapNumbers ==
  /\ "none" \notin SapChannels /\ sap_interval \in Nat /\ MaxName \in Nat /\ MaxName > 0 /\ MaxSapNow \in Nat
  /\ Sp!NoChannel = "none" /\ Sp!NoAnnounce = [version |-> 0, name |-> 0]
BY SapTimed DEF Sp!SapAssumption, Sp!NoChannel, Sp!NoAnnounce

LEMMA SapInitial == Sp!Init => SapInv
<1> SUFFICES ASSUME Sp!Init PROVE SapInv OBVIOUS
<1>1. /\ sap_now = 0 /\ polled_now = FALSE
      /\ name = [c \in SapChannels |-> 1] /\ sap_ready = [c \in SapChannels |-> FALSE]
      /\ sap_need_update = [c \in SapChannels |-> FALSE]
      /\ message = [c \in SapChannels |-> [version |-> 0, to_be_sent |-> FALSE, name |-> 0]]
      /\ sap_last_time_sent = 0
      /\ building = [channel |-> "none", name |-> 0, left |-> {}]
      /\ on_air = [c \in SapChannels |-> [version |-> 0, name |-> 0]]
      /\ changed = [c \in SapChannels |-> 0] /\ crossed = {} /\ rebuilt = [c \in SapChannels |-> 0]
  BY SapNumbers DEF Sp!Init
<1>2. 0 \in 0..MaxSapNow /\ 1 \in 1..MaxName /\ 0 \in 0..MaxName BY SapNumbers
<1>3. SapTypes
  <2>1. /\ name \in [SapChannels -> 1..MaxName] /\ sap_ready \in [SapChannels -> BOOLEAN]
        /\ sap_need_update \in [SapChannels -> BOOLEAN]
        /\ changed \in [SapChannels -> Nat] /\ rebuilt \in [SapChannels -> Nat]
        /\ \A c \in SapChannels : changed[c] <= sap_now
    BY <1>1, <1>2
  <2>2. message \in [SapChannels -> [version : 0..15, to_be_sent : BOOLEAN, name : 0..MaxName]]
    <3>1. [version |-> 0, to_be_sent |-> FALSE, name |-> 0]
              \in [version : 0..15, to_be_sent : BOOLEAN, name : 0..MaxName]
      BY <1>2
    <3> QED BY <1>1, <3>1
  <2>3. on_air \in [SapChannels -> SapAnnounces]
    <3>1. [version |-> 0, name |-> 0] \in SapAnnounces BY <1>2 DEF SapAnnounces
    <3> QED BY <1>1, <3>1
  <2>4. building \in [channel : SapChannels \cup {"none"}, name : 0..MaxName, left : SUBSET SapChannels]
    BY <1>1, <1>2
  <2> QED BY <1>1, <1>2, <2>1, <2>2, <2>3, <2>4 DEF SapTypes
<1>4. SapClock BY <1>1 DEF SapClock
<1>5. SapBuilds BY <1>1, SapNumbers DEF SapBuilds, SapPending
<1>6. SapFresh /\ SapAired BY <1>1 DEF SapFresh, SapAired
<1>7. SapVersions BY <1>1, SapNumbers DEF SapVersions
<1> QED BY <1>3, <1>4, <1>5, <1>6, <1>7 DEF SapInv

\* The invariant in the form the steps need.
LEMMA SapFacts ==
  ASSUME SapInv
  PROVE  /\ SapTypes /\ SapClock /\ SapBuilds /\ SapFresh /\ SapAired /\ SapVersions
         /\ sap_now \in Nat /\ sap_interval \in Nat /\ sap_last_time_sent \in Int
         /\ building.channel \in SapChannels \cup {"none"} /\ building.left \subseteq SapChannels
         /\ building.name \in 0..MaxName
BY SapNumbers DEF SapInv, SapTypes, SapClock

LEMMA SapRenames == ASSUME SapInv, NEW c \in SapChannels, Sp!UpdateName(c) PROVE SapInv'
<1>1. /\ name[c] < MaxName
      /\ name' = [name EXCEPT ![c] = name[c] + 1]
      /\ sap_need_update' = [sap_need_update EXCEPT ![c] = TRUE]
      /\ changed' = [changed EXCEPT ![c] = sap_now]
      /\ crossed' = IF building.channel = c THEN crossed \cup {c} ELSE crossed \ {c}
      /\ UNCHANGED <<sap_now, polled_now, sap_ready, message, sap_last_time_sent, building, on_air, rebuilt>>
  BY DEF Sp!UpdateName
<1>2. /\ SapTypes /\ SapClock /\ SapBuilds /\ SapFresh /\ SapAired /\ SapVersions
      /\ sap_now \in Nat /\ sap_last_time_sent \in Int
  BY SapFacts
<1>3. /\ \A d \in SapChannels : d # c => /\ name'[d] = name[d] /\ changed'[d] = changed[d]
                                         /\ sap_need_update'[d] = sap_need_update[d]
                                         /\ d \in crossed' <=> d \in crossed
      /\ sap_need_update'[c] = TRUE /\ changed'[c] = sap_now /\ (building.channel = c => c \in crossed')
  BY <1>1, <1>2 DEF SapTypes
<1>4. SapTypes'
  <2>1. name' \in [SapChannels -> 1..MaxName]
    <3>1. name[c] \in 1..MaxName BY <1>2 DEF SapTypes
    <3>2. name[c] + 1 \in 1..MaxName BY <1>1, <3>1, SapNumbers
    <3> QED BY <1>1, <1>2, <3>2 DEF SapTypes
  <2>2. changed' \in [SapChannels -> Nat] /\ \A d \in SapChannels : changed'[d] <= sap_now
    BY <1>1, <1>2, <1>3 DEF SapTypes
  <2> QED BY <1>1, <1>2, <2>1, <2>2 DEF SapTypes
<1>5. SapClock' BY <1>1, <1>2 DEF SapClock
<1>6. SapBuilds' BY <1>1, <1>2, <1>3 DEF SapBuilds, SapPending
<1>7. SapFresh'
  <2>1. sap_now >= IF polled_now THEN sap_now ELSE sap_now - 1 BY <1>2
  <2> QED BY <1>1, <1>2, <1>3, <2>1 DEF SapFresh, SapPending
<1>8. SapAired'
  <2>1. sap_now >= 2 => ~(sap_last_time_sent > sap_now) BY <1>2 DEF SapClock
  <2> QED BY <1>1, <1>2, <1>3, <2>1 DEF SapAired
<1>9. SapVersions' BY <1>1, <1>2 DEF SapVersions
<1> QED BY <1>4, <1>5, <1>6, <1>7, <1>8, <1>9 DEF SapInv

LEMMA SapReadies == ASSUME SapInv, NEW c \in SapChannels, Sp!SetReady(c) PROVE SapInv'
<1>1. /\ building.channel = "none"
      /\ sap_ready' = [sap_ready EXCEPT ![c] = ~sap_ready[c]]
      /\ sap_need_update' = [sap_need_update EXCEPT ![c] = sap_need_update[c] \/ ~sap_ready[c]]
      /\ changed' = [changed EXCEPT ![c] = IF sap_ready[c] THEN changed[c] ELSE sap_now]
      /\ UNCHANGED <<sap_now, polled_now, name, message, sap_last_time_sent, building, on_air, crossed, rebuilt>>
  BY SapNumbers DEF Sp!SetReady
<1>2. /\ SapTypes /\ SapClock /\ SapBuilds /\ SapFresh /\ SapAired /\ SapVersions
      /\ sap_now \in Nat /\ sap_last_time_sent \in Int
  BY SapFacts
<1>3. /\ \A d \in SapChannels : d # c => /\ sap_ready'[d] = sap_ready[d] /\ changed'[d] = changed[d]
                                         /\ sap_need_update'[d] = sap_need_update[d]
      /\ sap_ready'[c] => sap_need_update'[c] = TRUE /\ changed'[c] = sap_now
  BY <1>1, <1>2 DEF SapTypes
<1>4. SapTypes'
  <2>1. changed' \in [SapChannels -> Nat] /\ \A d \in SapChannels : changed'[d] <= sap_now
    BY <1>1, <1>2, <1>3 DEF SapTypes
  <2>2. sap_ready' \in [SapChannels -> BOOLEAN] /\ sap_need_update' \in [SapChannels -> BOOLEAN]
    <3>1. (~sap_ready[c]) \in BOOLEAN /\ (sap_need_update[c] \/ ~sap_ready[c]) \in BOOLEAN OBVIOUS
    <3> QED BY <1>1, <1>2, <3>1 DEF SapTypes
  <2> QED BY <1>1, <1>2, <2>1, <2>2 DEF SapTypes
<1>5. SapClock' BY <1>1, <1>2 DEF SapClock
<1>6. SapBuilds' BY <1>1, <1>2, SapNumbers DEF SapBuilds, SapPending
<1>7. SapFresh'
  <2>1. sap_now >= IF polled_now THEN sap_now ELSE sap_now - 1 BY <1>2
  <2> QED BY <1>1, <1>2, <1>3, <2>1 DEF SapFresh, SapPending
<1>8. SapAired'
  <2>1. sap_now >= 2 => ~(sap_last_time_sent > sap_now) BY <1>2 DEF SapClock
  <2> QED BY <1>1, <1>2, <1>3, <2>1 DEF SapAired
<1>9. SapVersions' BY <1>1, <1>2 DEF SapVersions
<1> QED BY <1>4, <1>5, <1>6, <1>7, <1>8, <1>9 DEF SapInv

\* A poll takes every channel that is to be updated; it leaves the clock as the invariant says.
LEMMA SapPolls == ASSUME SapInv, Sp!PollBegins PROVE SapInv'
<1> DEFINE isFirst == sap_last_time_sent = 0
           dueNow == {c \in SapChannels : sap_ready[c] /\ (isFirst \/ sap_need_update[c])}
<1>1. /\ building.channel = "none" /\ ~polled_now /\ polled_now' = TRUE
      /\ sap_last_time_sent' = IF isFirst THEN sap_now - sap_interval - 1 ELSE sap_last_time_sent
      /\ IF dueNow = {}
         THEN building' = building
         ELSE \E c \in dueNow : building' = [channel |-> c, name |-> name[c], left |-> dueNow \ {c}]
      /\ UNCHANGED <<sap_now, name, sap_ready, sap_need_update, message, on_air, changed, crossed, rebuilt>>
  BY SapNumbers DEF Sp!PollBegins
<1>2. /\ SapTypes /\ SapClock /\ SapBuilds /\ SapFresh /\ SapAired /\ SapVersions
      /\ sap_now \in Nat /\ sap_interval \in Nat /\ sap_last_time_sent \in Int
  BY SapFacts
<1>3. /\ sap_now <= 1 => isFirst
      /\ sap_now >= 2 => ~isFirst /\ sap_last_time_sent' = sap_last_time_sent
  BY <1>1, <1>2 DEF SapClock
<1>4. SapPending \cap SapChannels = {} BY <1>1, <1>2, SapNumbers DEF SapBuilds, SapPending
<1>5. /\ dueNow \subseteq SapChannels /\ \A c \in dueNow : sap_ready[c]
      /\ \A c \in SapChannels : sap_ready[c] /\ sap_need_update[c] => c \in dueNow
  OBVIOUS
<1>6. /\ building' \in [channel : SapChannels \cup {"none"}, name : 0..MaxName, left : SUBSET SapChannels]
      /\ building'.channel = "none" => building'.left = {}
      /\ building'.left \cup {building'.channel} \subseteq dueNow \cup {"none"}
      /\ dueNow \subseteq building'.left \cup {building'.channel}
      /\ \A c \in SapChannels : c = building'.channel => building'.name = name[c]
  <2>1. CASE dueNow = {} BY <1>1, <1>2, <2>1, SapNumbers DEF SapTypes, SapBuilds
  <2>2. CASE dueNow # {}
    <3>1. PICK c \in dueNow : building' = [channel |-> c, name |-> name[c], left |-> dueNow \ {c}] BY <1>1, <2>2
    <3>2. c \in SapChannels /\ c # "none" /\ name[c] \in 0..MaxName
      <4>1. c \in SapChannels BY <1>5
      <4>2. name[c] \in 1..MaxName BY <4>1, <1>2 DEF SapTypes
      <4> QED BY <4>1, <4>2, SapNumbers
    <3> HIDE DEF dueNow
    <3> QED BY <3>1, <3>2, <1>5
  <2> QED BY <2>1, <2>2
<1> HIDE DEF dueNow
<1>7. SapTypes' BY <1>1, <1>2, <1>6 DEF SapTypes
<1>8. SapClock' BY <1>1, <1>2, <1>3 DEF SapClock
<1>9. SapBuilds' BY <1>1, <1>2, <1>5, <1>6, SapNumbers DEF SapBuilds, SapPending
<1>10. SapFresh' BY <1>1, <1>2, <1>4, <1>5, <1>6, SapNumbers DEF SapFresh, SapPending
<1>11. SapAired' BY <1>1, <1>2, <1>3 DEF SapAired
<1>12. SapVersions' BY <1>1, <1>2 DEF SapVersions
<1> QED BY <1>7, <1>8, <1>9, <1>10, <1>11, <1>12 DEF SapInv

\* A version that is counted is the sum of the builds.
LEMMA SapNextVersion ==
  ASSUME NEW v \in 0..15, NEW r \in Nat, NEW w, w = (v + r) % 16
  PROVE  (w + 1) % 16 = (v + (r + 1)) % 16 /\ (w + 1) % 16 \in 0..15
OBVIOUS

LEMMA SapUpdates == ASSUME SapInv, Sp!Updated PROVE SapInv'
<1> DEFINE c == building.channel
           isSent == sap_ready[c] /\ building.name \notin TooLong
           isBuilt == [version |-> (message[c].version + 1) % 16, to_be_sent |-> isSent,
                     name |-> IF isSent THEN building.name ELSE 0]
<1>1. /\ c # "none"
      /\ message' = [message EXCEPT ![c] = isBuilt]
      /\ sap_need_update' = [sap_need_update EXCEPT ![c] = FALSE]
      /\ rebuilt' = [rebuilt EXCEPT ![c] = rebuilt[c] + 1]
      /\ IF building.left = {}
         THEN building' = [channel |-> "none", name |-> 0, left |-> {}]
         ELSE \E d \in building.left : building' = [channel |-> d, name |-> name[d], left |-> building.left \ {d}]
      /\ UNCHANGED <<sap_now, polled_now, name, sap_ready, sap_last_time_sent, on_air, changed, crossed>>
  BY SapNumbers DEF Sp!Updated, Sp!AddProgram
<1>2. /\ SapTypes /\ SapClock /\ SapBuilds /\ SapFresh /\ SapAired /\ SapVersions
      /\ sap_now \in Nat /\ sap_last_time_sent \in Int
      /\ c \in SapChannels /\ building.left \subseteq SapChannels /\ building.name \in 0..MaxName
  BY <1>1, SapFacts
<1>3. /\ message[c].version \in 0..15 /\ on_air[c].version \in 0..15 /\ rebuilt[c] \in Nat
      /\ message[c].version = (on_air[c].version + rebuilt[c]) % 16
  BY <1>2 DEF SapTypes, SapVersions, SapAnnounces
<1>4. /\ isBuilt.version = (on_air[c].version + (rebuilt[c] + 1)) % 16
      /\ isBuilt.to_be_sent = isSent /\ (isSent => isBuilt.name = building.name)
      /\ isBuilt \in [version : 0..15, to_be_sent : BOOLEAN, name : 0..MaxName]
  <2>1. (message[c].version + 1) % 16 = (on_air[c].version + (rebuilt[c] + 1)) % 16
        /\ (message[c].version + 1) % 16 \in 0..15
    <3> HIDE DEF c
    <3> QED BY <1>3, SapNextVersion
  <2>2. isSent \in BOOLEAN /\ (IF isSent THEN building.name ELSE 0) \in 0..MaxName BY <1>2, SapNumbers
  <2> QED BY <2>1, <2>2
<1>5. sap_ready[c] /\ (c \notin crossed => building.name = name[c]) /\ polled_now
  BY <1>1, <1>2 DEF SapBuilds, SapPending
<1>6. isSent <=> building.name \notin TooLong BY <1>5
<1> HIDE DEF isSent, isBuilt
<1>7. /\ \A d \in SapChannels : d # c => /\ message'[d] = message[d] /\ rebuilt'[d] = rebuilt[d]
                                         /\ sap_need_update'[d] = sap_need_update[d]
      /\ message'[c] = isBuilt /\ rebuilt'[c] = rebuilt[c] + 1 /\ sap_need_update'[c] = FALSE
  BY <1>1, <1>2 DEF SapTypes
<1>8. /\ building' \in [channel : SapChannels \cup {"none"}, name : 0..MaxName, left : SUBSET SapChannels]
      /\ building'.channel = "none" => building'.left = {}
      /\ \A d \in SapChannels : d \in building'.left \cup {building'.channel} <=> d \in building.left
      /\ \A d \in SapChannels : d = building'.channel => building'.name = name[d]
  <2>1. CASE building.left = {} BY <1>1, <2>1, SapNumbers
  <2>2. CASE building.left # {}
    <3>1. PICK d \in building.left :
              building' = [channel |-> d, name |-> name[d], left |-> building.left \ {d}]
      BY <1>1, <2>2
    <3>2. d \in SapChannels /\ d # "none" /\ name[d] \in 0..MaxName
      <4>1. d \in SapChannels BY <1>2
      <4>2. name[d] \in 1..MaxName BY <4>1, <1>2 DEF SapTypes
      <4> QED BY <4>1, <4>2, SapNumbers
    <3> QED BY <1>2, <3>1, <3>2
  <2> QED BY <2>1, <2>2
<1> HIDE DEF c
<1>9. SapTypes'
  <2>1. message' \in [SapChannels -> [version : 0..15, to_be_sent : BOOLEAN, name : 0..MaxName]]
    BY <1>1, <1>2, <1>4 DEF SapTypes
  <2>2. rebuilt' \in [SapChannels -> Nat] /\ sap_need_update' \in [SapChannels -> BOOLEAN]
    <3>1. rebuilt[c] \in Nat BY <1>2 DEF SapTypes
    <3>2. rebuilt[c] + 1 \in Nat /\ FALSE \in BOOLEAN BY <3>1
    <3> QED BY <1>1, <1>2, <3>2 DEF SapTypes
  <2> QED BY <1>1, <1>2, <1>8, <2>1, <2>2 DEF SapTypes
<1>10. SapClock' BY <1>1, <1>2 DEF SapClock
<1>11. SapBuilds'
  <2>1. \A d \in SapChannels : d \in building.left => sap_ready[d] BY <1>2 DEF SapBuilds, SapPending
  <2> QED BY <1>1, <1>5, <1>8, <2>1 DEF SapBuilds, SapPending
<1>12. SapFresh'
  <2> SUFFICES ASSUME NEW d \in SapChannels, sap_ready[d]
               PROVE  /\ d \notin crossed /\ name[d] \notin TooLong /\ ~sap_need_update'[d] /\ d # building'.channel =>
                            message'[d].to_be_sent /\ message'[d].name = name[d]
                      /\ sap_need_update'[d] =>
                            d \in building.left \/ changed[d] >= IF polled_now THEN sap_now ELSE sap_now - 1
    BY <1>1, <1>8 DEF SapFresh, SapPending
  <2>1. CASE d = c BY <2>1, <1>4, <1>5, <1>6, <1>7
  <2>2. CASE d # c BY <2>2, <1>2, <1>7 DEF SapFresh, SapPending, c
  <2> QED BY <2>1, <2>2
<1>13. SapAired' BY <1>1, <1>2 DEF SapAired
<1>14. SapVersions'
  <2> SUFFICES ASSUME NEW d \in SapChannels
               PROVE  /\ message'[d].version = (on_air[d].version + rebuilt'[d]) % 16
                      /\ rebuilt'[d] = 0 /\ on_air[d] # Sp!NoAnnounce => on_air[d].name = message'[d].name
    BY <1>1, SapNumbers DEF SapVersions
  <2>1. CASE d = c BY <2>1, <1>3, <1>4, <1>7
  <2>2. CASE d # c BY <2>2, <1>2, <1>7 DEF SapVersions
  <2> QED BY <2>1, <2>2
<1> QED BY <1>9, <1>10, <1>11, <1>12, <1>13, <1>14 DEF SapInv

\* The clock a second later.
LEMMA SapSecond ==
  ASSUME NEW now \in Nat, NEW interval \in Nat, NEW last \in Int,
         now + 1 <= 1 => last = 0,
         now + 1 >= 2 => last >= 1 /\ last <= now /\ now + 1 - last <= interval + 1,
         NEW next, next = now + 1
  PROVE  /\ next <= 1 => last = 0
         /\ next >= 2 => last >= 1 /\ last <= next - 1 /\ next - last <= interval + 1
OBVIOUS

LEMMA SapSends == ASSUME SapInv, Sp!SendAndSleep PROVE SapInv'
<1> DEFINE dueNow == sap_now - sap_last_time_sent >= sap_interval
           newAir == [c \in SapChannels |->
                       IF message[c].to_be_sent
                       THEN [version |-> message[c].version, name |-> message[c].name] ELSE on_air[c]]
           newCounts == [c \in SapChannels |-> IF message[c].to_be_sent THEN 0 ELSE rebuilt[c]]
<1>1. /\ polled_now /\ building.channel = "none" /\ sap_now < MaxSapNow
      /\ dueNow => on_air' = newAir /\ rebuilt' = newCounts /\ sap_last_time_sent' = sap_now
      /\ ~dueNow => on_air' = on_air /\ rebuilt' = rebuilt /\ sap_last_time_sent' = sap_last_time_sent
      /\ sap_now' = sap_now + 1 /\ polled_now' = FALSE
      /\ UNCHANGED <<name, sap_ready, sap_need_update, message, building, changed, crossed>>
  BY SapNumbers DEF Sp!SendAndSleep
<1>2. /\ SapTypes /\ SapClock /\ SapBuilds /\ SapFresh /\ SapAired /\ SapVersions
      /\ sap_now \in Nat /\ sap_interval \in Nat /\ sap_last_time_sent \in Int
      /\ message \in [SapChannels -> [version : 0..15, to_be_sent : BOOLEAN, name : 0..MaxName]]
      /\ on_air \in [SapChannels -> SapAnnounces] /\ rebuilt \in [SapChannels -> Nat]
      /\ changed \in [SapChannels -> Nat]
  BY SapFacts DEF SapTypes
<1>3. /\ ~dueNow => sap_now >= 2
      /\ sap_last_time_sent' \in Int
      /\ sap_now + 1 <= 1 => sap_last_time_sent' = 0
      /\ sap_now + 1 >= 2 => /\ sap_last_time_sent' >= 1 /\ sap_last_time_sent' <= sap_now
                             /\ sap_now + 1 - sap_last_time_sent' <= sap_interval + 1
  BY <1>1, <1>2 DEF SapClock
<1>4. /\ building.left = {}
      /\ \A c \in SapChannels : sap_ready[c] /\ sap_need_update[c] => changed[c] >= sap_now
  <2>1. building.left = {} BY <1>1, <1>2 DEF SapBuilds
  <2> QED BY <2>1, <1>1, <1>2, SapNumbers DEF SapFresh, SapPending
<1> HIDE DEF dueNow
<1>5. \A c \in SapChannels :
          /\ message[c].version \in 0..15 /\ message[c].name \in 0..MaxName
          /\ dueNow /\ message[c].to_be_sent =>
                 /\ on_air'[c].version = message[c].version /\ on_air'[c].name = message[c].name
                 /\ rebuilt'[c] = 0
          /\ ~(dueNow /\ message[c].to_be_sent) => on_air'[c] = on_air[c] /\ rebuilt'[c] = rebuilt[c]
  BY <1>1, <1>2
<1>6. on_air' \in [SapChannels -> SapAnnounces] /\ rebuilt' \in [SapChannels -> Nat]
  <2>1. CASE ~dueNow BY <2>1, <1>1, <1>2
  <2>2. CASE dueNow
    <3>1. \A c \in SapChannels : newAir[c] \in SapAnnounces /\ newCounts[c] \in Nat
      BY <1>2, <1>5 DEF SapAnnounces
    <3>2. newAir \in [SapChannels -> SapAnnounces] /\ newCounts \in [SapChannels -> Nat] BY <3>1
    <3> QED BY <2>2, <3>2, <1>1
  <2> QED BY <2>1, <2>2
<1> HIDE DEF newAir, newCounts
<1>7. SapTypes'
  <2>1. sap_now + 1 \in 0..MaxSapNow /\ \A c \in SapChannels : changed[c] <= sap_now + 1
    BY <1>1, <1>2, SapNumbers DEF SapTypes
  <2> QED BY <1>1, <1>2, <1>6, <2>1 DEF SapTypes
<1>8. SapClock'
  <2>1. sap_now' = sap_now + 1 /\ polled_now' = FALSE BY <1>1
  <2>2. sap_now \in Nat /\ sap_interval \in Nat /\ sap_last_time_sent' \in Int BY <1>2, <1>3
  <2>3. /\ sap_now' <= 1 => sap_last_time_sent' = 0
        /\ sap_now' >= 2 => /\ sap_last_time_sent' >= 1 /\ sap_last_time_sent' <= sap_now' - 1
                            /\ sap_now' - sap_last_time_sent' <= sap_interval + 1
    BY <2>1, <2>2, <1>3, SapSecond
  <2> QED BY <2>1, <2>2, <2>3, <1>1 DEF SapClock
<1>9. SapBuilds' BY <1>1, <1>2, <1>4, SapNumbers DEF SapBuilds, SapPending
<1>10. SapFresh' BY <1>1, <1>2, <1>4, SapNumbers DEF SapFresh, SapPending
<1>11. SapAired'
  <2> SUFFICES ASSUME NEW c \in SapChannels, sap_ready[c], c \notin crossed, name[c] \notin TooLong,
                      sap_now + 1 >= 2, sap_last_time_sent' > changed[c]
               PROVE  on_air'[c].name = name[c]
    BY <1>1 DEF SapAired
  <2>1. CASE dueNow
    <3>1. ~sap_need_update[c] BY <2>1, <1>1, <1>2, <1>4
    <3>2. message[c].to_be_sent /\ message[c].name = name[c] BY <3>1, <1>1, <1>2, SapNumbers DEF SapFresh
    <3> QED BY <2>1, <3>2, <1>5
  <2>2. CASE ~dueNow BY <2>2, <1>1, <1>2, <1>3 DEF SapAired
  <2> QED BY <2>1, <2>2
<1>12. SapVersions'
  <2> SUFFICES ASSUME NEW c \in SapChannels
               PROVE  /\ message[c].version = (on_air'[c].version + rebuilt'[c]) % 16
                      /\ rebuilt'[c] = 0 /\ on_air'[c] # Sp!NoAnnounce => on_air'[c].name = message[c].name
    BY <1>1, SapNumbers DEF SapVersions
  <2>1. CASE dueNow /\ message[c].to_be_sent
    <3>1. \A v \in 0..15 : v = (v + 0) % 16 OBVIOUS
    <3> QED BY <2>1, <3>1, <1>5
  <2>2. CASE ~(dueNow /\ message[c].to_be_sent) BY <2>2, <1>2, <1>5 DEF SapVersions
  <2> QED BY <2>1, <2>2
<1> QED BY <1>7, <1>8, <1>9, <1>10, <1>11, <1>12 DEF SapInv

LEMMA SapStep == SapInv /\ (Sp!Next \/ UNCHANGED sapVars) => SapInv'
<1> SUFFICES ASSUME SapInv, Sp!Next \/ UNCHANGED sapVars PROVE SapInv' OBVIOUS
<1>1. ASSUME NEW c \in SapChannels, Sp!UpdateName(c) PROVE SapInv' BY <1>1, SapRenames
<1>2. ASSUME NEW c \in SapChannels, Sp!SetReady(c) PROVE SapInv' BY <1>2, SapReadies
<1>3. ASSUME UNCHANGED sapVars PROVE SapInv'
  BY <1>3 DEF sapVars, SapInv, SapTypes, SapClock, SapBuilds, SapPending, SapFresh, SapAired, SapVersions
<1> QED BY <1>1, <1>2, <1>3, SapPolls, SapUpdates, SapSends DEF Sp!Next

LEMMA SapGoals == SapInv => Sp!TypeOK /\ Sp!AnnouncedAsItIs /\ Sp!OneVersionOneMessage
<1> SUFFICES ASSUME SapInv PROVE Sp!TypeOK /\ Sp!AnnouncedAsItIs /\ Sp!OneVersionOneMessage OBVIOUS
<1>1. /\ SapTypes /\ SapClock /\ SapBuilds /\ SapFresh /\ SapAired /\ SapVersions
      /\ sap_now \in Nat /\ sap_interval \in Nat /\ sap_last_time_sent \in Int
  BY SapFacts
<1>2. sap_last_time_sent \in -(sap_interval + 1)..MaxSapNow BY <1>1, SapNumbers DEF SapClock, SapTypes
<1>3. Sp!TypeOK BY <1>1, <1>2, SapNumbers DEF Sp!TypeOK, SapTypes
<1>4. Sp!AnnouncedAsItIs
  <2> SUFFICES ASSUME NEW c \in SapChannels, sap_ready[c], sap_now > changed[c] + sap_interval + 1,
                      c \notin crossed, name[c] \notin TooLong
               PROVE  on_air[c].name = name[c]
    BY DEF Sp!AnnouncedAsItIs
  <2>1. changed[c] \in Nat BY <1>1 DEF SapTypes
  <2>2. sap_now >= 2 BY <2>1, <1>1
  <2>3. sap_last_time_sent > changed[c] BY <2>1, <2>2, <1>1 DEF SapClock
  <2> QED BY <2>2, <2>3, <1>1 DEF SapAired
<1>5. Sp!OneVersionOneMessage
  <2> SUFFICES ASSUME NEW c \in SapChannels, on_air[c] # Sp!NoAnnounce,
                      on_air[c].version = message[c].version, rebuilt[c] < 16
               PROVE  on_air[c].name = message[c].name
    BY DEF Sp!OneVersionOneMessage
  <2>1. on_air[c].version \in 0..15 /\ rebuilt[c] \in Nat BY <1>1 DEF SapTypes, SapAnnounces
  <2>2. on_air[c].version = (on_air[c].version + rebuilt[c]) % 16 BY <1>1 DEF SapVersions
  <2>3. rebuilt[c] = 0
    <3>1. ASSUME NEW v \in 0..15, NEW r \in 0..15, v = (v + r) % 16 PROVE r = 0 BY <3>1
    <3>2. rebuilt[c] \in 0..15 BY <2>1
    <3> QED BY <2>1, <2>2, <3>1, <3>2
  <2> QED BY <2>3, <1>1 DEF SapVersions
<1> QED BY <1>3, <1>4, <1>5

-----------------------------------------------------------------------------
(* NitPsip                                                                  *)

NitTypes ==
    /\ reader \in {"nit", "psip"} /\ nit_air \in NitVersions
    /\ nit_assembling \in N!NitSections \cup {N!NoNit}
    /\ nit_version \in NitVersions \cup {-1} /\ nit_seen \subseteq 0..NitLast
    /\ nit_all_sections_seen \in BOOLEAN /\ nit_need_update \in BOOLEAN /\ untimely \in BOOLEAN
    /\ listed \subseteq NitChannels /\ missed \subseteq NitChannels
    /\ value \in [NitChannels -> NitVersions \cup {-1}] /\ named \in [NitChannels -> NitVersions \cup {-1}]
    /\ sap_asked \subseteq NitChannels /\ unread \subseteq 0..NitLast

\* Once the table is read nothing asks for a packet of it again.
NitDone == nit_all_sections_seen => ~nit_need_update /\ nit_seen = 0..NitLast

\* A section that is counted, and was not counted before it applied, is in the channels listed
\* by then.
NitValues ==
    /\ unread \subseteq nit_seen
    /\ \A c \in listed \ missed : NitSectionOf(c) \in nit_seen \ unread => value[c] = nit_version

NitNamed ==
    nit_all_sections_seen => \A c \in listed \ missed : named[c] = value[c] /\ c \in sap_asked

\* A section that applies is of the version on the air, or of one before it.
NitTimely ==
    /\ nit_assembling # N!NoNit /\ nit_assembling.applicable => nit_assembling.version <= nit_air
    /\ ~untimely => nit_version <= nit_air

NitInv == NitTypes /\ NitDone /\ NitValues /\ NitNamed /\ NitTimely

LEMMA NitNumbers ==
  /\ NitVersions \subseteq Nat /\ 0 \in NitVersions /\ NitLast \in Nat
  /\ \A c \in NitChannels : NitSectionOf(c) \in -1..NitLast
  /\ N!NoNit = [version |-> -1, number |-> 0, applicable |-> FALSE, actual |-> FALSE]
  /\ N!Unknown = -1 /\ N!NoNit \notin N!NitSections
<1>1. N!NoNit = [version |-> -1, number |-> 0, applicable |-> FALSE, actual |-> FALSE] BY DEF N!NoNit
<1>2. NitVersions \subseteq Nat /\ N!Unknown = -1 BY NitNumbered DEF N!NitAssumption, N!Unknown
<1>3. N!NoNit \notin N!NitSections
  <2>1. N!NoNit.version = -1 BY <1>1
  <2>2. \A s \in N!NitSections : s.version \in NitVersions BY DEF N!NitSections
  <2> QED BY <2>1, <2>2, <1>2
<1> QED BY <1>1, <1>2, <1>3, NitNumbered DEF N!NitAssumption

\* The invariant in the form the steps need.
LEMMA NitFacts ==
  ASSUME NitInv
  PROVE  /\ NitTypes /\ NitDone /\ NitValues /\ NitNamed /\ NitTimely
         /\ nit_air \in Nat /\ nit_version \in Int
         /\ \A s \in N!NitSections :
               /\ s.version \in NitVersions /\ s.version \in Nat /\ s.number \in 0..NitLast
               /\ s.actual \in BOOLEAN /\ s.applicable \in BOOLEAN
<1>1. NitTypes /\ NitDone /\ NitValues /\ NitNamed /\ NitTimely BY DEF NitInv
<1>2. nit_air \in Nat /\ nit_version \in Int
  <2>1. NitVersions \subseteq Nat BY NitNumbers
  <2>2. nit_air \in NitVersions /\ nit_version \in NitVersions \cup {-1} BY <1>1 DEF NitTypes
  <2> QED BY <2>1, <2>2
<1>3. \A s \in N!NitSections :
         /\ s.version \in NitVersions /\ s.version \in Nat /\ s.number \in 0..NitLast
         /\ s.actual \in BOOLEAN /\ s.applicable \in BOOLEAN
  BY NitNumbers DEF N!NitSections
<1> QED BY <1>1, <1>2, <1>3

LEMMA NitInitial == N!Init => NitInv
<1> SUFFICES ASSUME N!Init PROVE NitInv OBVIOUS
<1>1. /\ reader \in {"nit", "psip"} /\ nit_air = 0 /\ nit_assembling = N!NoNit
      /\ nit_version = -1 /\ nit_seen = {} /\ nit_all_sections_seen = FALSE /\ nit_need_update = FALSE
      /\ listed = {} /\ value = [c \in NitChannels |-> -1]
      /\ named = [c \in NitChannels |-> -1] /\ sap_asked = {}
      /\ unread = {} /\ missed = {} /\ untimely = FALSE
  BY NitNumbers DEF N!Init
<1>2. NitTypes BY <1>1, NitNumbers DEF NitTypes
<1>3. NitDone /\ NitValues /\ NitNamed /\ NitTimely
  BY <1>1 DEF NitDone, NitValues, NitNamed, NitTimely
<1> QED BY <1>2, <1>3 DEF NitInv

\* What is on the air is a section.
LEMMA NitAir ==
  ASSUME NitInv, NEW s \in N!OnAir
  PROVE  s \in N!NitSections /\ (s.applicable => s.version <= nit_air)
<1>1. nit_air \in NitVersions /\ nit_air \in Nat /\ NitLast \in Nat BY NitNumbers DEF NitInv, NitTypes
<1>2. CASE s \in N!NitSections /\ (IF s.applicable THEN s.version = nit_air ELSE s.version = nit_air + 1)
  BY <1>1, <1>2
<1>3. CASE s = [version |-> nit_air, number |-> 0, applicable |-> TRUE, actual |-> FALSE]
  BY <1>1, <1>3 DEF N!NitSections
<1> QED BY <1>2, <1>3 DEF N!OnAir

\* The names are made of the values, and announced when all is read.
LEMMA NitNames ==
  ASSUME NitTypes, NEW values \in [NitChannels -> NitVersions \cup {-1}], NEW complete \in BOOLEAN,
         N!UpdateNames(listed, values, complete)
  PROVE  /\ named' \in [NitChannels -> NitVersions \cup {-1}] /\ sap_asked' \subseteq NitChannels
         /\ complete => \A c \in listed : named'[c] = values[c] /\ c \in sap_asked'
<1>1. /\ named' = [c \in NitChannels |-> IF c \in listed THEN values[c] ELSE named[c]]
      /\ sap_asked' = IF complete \/ reader = "psip" THEN sap_asked \cup listed ELSE sap_asked \ listed
  BY DEF N!UpdateNames
<1>2. listed \subseteq NitChannels /\ sap_asked \subseteq NitChannels
      /\ named \in [NitChannels -> NitVersions \cup {-1}]
  BY DEF NitTypes
<1>3. named' \in [NitChannels -> NitVersions \cup {-1}] BY <1>1, <1>2
<1>4. complete => \A c \in listed : named'[c] = values[c] BY <1>1, <1>2
<1> QED BY <1>1, <1>2, <1>3, <1>4

\* A section that is read before the table is complete.
LEMMA NitReads ==
  ASSUME NitInv, ~nit_all_sections_seen, NEW s \in N!NitSections, s.applicable => s.version <= nit_air,
         NEW parsed \in BOOLEAN, parsed => s.actual /\ ~N!Known(s), NEW ends \in BOOLEAN,
         s.actual /\ ~N!Known(s) /\ ~parsed => ~s.applicable,
         N!Reads(s, parsed, ends), UNCHANGED <<reader, nit_air, listed>>,
         nit_assembling' \in N!NitSections \cup {N!NoNit},
         nit_assembling' # N!NoNit /\ nit_assembling'.applicable => nit_assembling'.version <= nit_air
  PROVE  NitInv'
<1> DEFINE new == s.actual /\ ~N!Known(s)
           same == s.version = nit_version
           complete == parsed /\ N!Seen(s) = 0..NitLast
<1>1. /\ NitTypes /\ NitDone /\ NitValues /\ NitNamed /\ NitTimely
      /\ s.version \in NitVersions /\ s.version \in Nat /\ s.number \in 0..NitLast
      /\ nit_air \in Nat /\ nit_version \in Int
  BY NitFacts
<1>2. /\ IF new
         THEN /\ nit_version' = s.version /\ nit_seen' = N!Seen(s)
              /\ unread' = (IF same THEN unread ELSE {}) \cup (IF parsed THEN {} ELSE {s.number})
              /\ untimely' = (untimely \/ ~s.applicable)
         ELSE UNCHANGED <<nit_version, nit_seen, unread, untimely>>
      /\ IF parsed
         THEN value' = N!Described(s) /\ missed' = (missed \ N!About(s)) \cup (N!About(s) \ listed)
         ELSE UNCHANGED <<value, missed>>
      /\ nit_all_sections_seen' = complete /\ nit_need_update' = ~complete
      /\ IF complete \/ ends
         THEN N!UpdateNames(listed, value', complete)
         ELSE UNCHANGED <<named, sap_asked>>
  BY DEF N!Reads
<1>3. /\ N!Seen(s) = IF same THEN nit_seen \cup {s.number} ELSE {s.number}
      /\ N!Seen(s) \subseteq 0..NitLast
      /\ N!About(s) \subseteq NitChannels
      /\ \A c \in NitChannels : c \in N!About(s) <=> NitSectionOf(c) = s.number
  BY <1>1 DEF N!Seen, N!About, NitTypes
<1>4. /\ N!Described(s) \in [NitChannels -> NitVersions \cup {-1}]
      /\ \A c \in NitChannels :
            N!Described(s)[c] = IF c \in N!About(s) \cap listed THEN s.version ELSE value[c]
  BY <1>1 DEF N!Described, NitTypes
<1>5. complete \in BOOLEAN /\ (complete => new) /\ (parsed => new) /\ (new /\ ~parsed => ~s.applicable)
  OBVIOUS
<1>6. complete => nit_seen' = 0..NitLast BY <1>2
<1> HIDE DEF new, complete, same
<1>7. value' \in [NitChannels -> NitVersions \cup {-1}]
  BY <1>1, <1>2, <1>4 DEF NitTypes
<1>8. /\ named' \in [NitChannels -> NitVersions \cup {-1}] /\ sap_asked' \subseteq NitChannels
      /\ complete => \A c \in listed : named'[c] = value'[c] /\ c \in sap_asked'
  <2>1. CASE complete \/ ends BY <2>1, <1>1, <1>2, <1>5, <1>7, NitNames
  <2>2. CASE ~(complete \/ ends) BY <2>2, <1>1, <1>2 DEF NitTypes
  <2> QED BY <2>1, <2>2
<1>9. NitTypes'
  <2>1. /\ nit_version' \in NitVersions \cup {-1} /\ nit_seen' \subseteq 0..NitLast
        /\ unread' \subseteq 0..NitLast /\ untimely' \in BOOLEAN
    BY <1>1, <1>2, <1>3 DEF NitTypes
  <2>2. missed' \subseteq NitChannels /\ listed' \subseteq NitChannels
    BY <1>1, <1>2, <1>3 DEF NitTypes
  <2>3. nit_all_sections_seen' \in BOOLEAN /\ nit_need_update' \in BOOLEAN BY <1>2, <1>5
  <2>4. reader' \in {"nit", "psip"} /\ nit_air' \in NitVersions BY <1>1 DEF NitTypes
  <2> QED BY <2>1, <2>2, <2>3, <2>4, <1>7, <1>8 DEF NitTypes, N!NitSections, N!NoNit
<1>10. NitDone' BY <1>2, <1>6 DEF NitDone
<1>11. NitValues'
  <2>1. unread' \subseteq nit_seen'
    BY <1>1, <1>2, <1>3 DEF NitValues
  <2>2. ASSUME NEW c \in listed, c \notin missed', NitSectionOf(c) \in nit_seen', NitSectionOf(c) \notin unread'
        PROVE  value'[c] = nit_version'
    <3>1. c \in NitChannels BY <1>1 DEF NitTypes
    <3>2. CASE ~new
      <4>1. ~parsed BY <3>2, <1>5
      <4> QED BY <4>1, <3>2, <2>2, <1>1, <1>2 DEF NitValues
    <3>3. CASE new /\ parsed /\ c \in N!About(s) BY <3>1, <3>3, <1>2, <1>4
    <3>4. CASE new /\ parsed /\ c \notin N!About(s)
      <4>1. NitSectionOf(c) # s.number /\ c \notin missed /\ value'[c] = value[c]
        BY <2>2, <3>1, <3>4, <1>2, <1>3, <1>4
      <4>2. same /\ NitSectionOf(c) \in nit_seen BY <4>1, <2>2, <3>4, <1>2, <1>3
      <4>3. NitSectionOf(c) \notin unread BY <4>2, <2>2, <3>4, <1>2
      <4>4. value[c] = nit_version BY <4>1, <4>2, <4>3, <1>1 DEF NitValues
      <4> QED BY <4>1, <4>2, <4>4, <3>4, <1>2 DEF same
    <3>5. CASE new /\ ~parsed
      <4>1. NitSectionOf(c) # s.number /\ c \notin missed /\ value'[c] = value[c]
        BY <2>2, <3>5, <1>2
      <4>2. same /\ NitSectionOf(c) \in nit_seen BY <4>1, <2>2, <3>5, <1>2, <1>3
      <4>3. NitSectionOf(c) \notin unread BY <4>2, <2>2, <3>5, <1>2
      <4>4. value[c] = nit_version BY <4>1, <4>2, <4>3, <1>1 DEF NitValues
      <4> QED BY <4>1, <4>2, <4>4, <3>5, <1>2 DEF same
    <3> QED BY <3>2, <3>3, <3>4, <3>5
  <2>3. listed' = listed OBVIOUS
  <2> QED BY <2>1, <2>2, <2>3 DEF NitValues
<1>12. NitNamed' BY <1>2, <1>8 DEF NitNamed
<1>13. NitTimely'
  <2>1. ~untimely' => nit_version' <= nit_air BY <1>1, <1>2, <1>5 DEF NitTimely
  <2>2. nit_air' = nit_air OBVIOUS
  <2> QED BY <2>1, <2>2 DEF NitTimely, N!NoNit
<1> QED BY <1>9, <1>10, <1>11, <1>12, <1>13 DEF NitInv

\* A packet that is looked at comes before the table is complete.
LEMMA NitPackets ==
  ASSUME NitInv, NEW s \in N!OnAir \cup {N!NoNit}, NEW isGiven \in BOOLEAN, N!Packet(s, isGiven)
  PROVE  NitInv' \/ UNCHANGED N!nitVars
<1> DEFINE needs == nit_need_update \/ N!NeedUpdate(s)
           a == nit_assembling
           new == a.actual /\ ~N!Known(a)
<1>1. IF ~needs
      THEN UNCHANGED N!nitVars
      ELSE /\ nit_assembling' = IF s # N!NoNit THEN s ELSE IF isGiven THEN N!NoNit ELSE a
           /\ IF isGiven /\ a # N!NoNit
              THEN IF reader = "nit" THEN N!ReadNit(a) ELSE N!ReadPsip(a)
              ELSE /\ nit_need_update' = TRUE
                   /\ UNCHANGED <<nit_version, nit_seen, nit_all_sections_seen, value, named,
                                  sap_asked, unread, missed, untimely>>
           /\ UNCHANGED <<reader, nit_air, listed>>
  BY DEF N!Packet
<1>2. NitTypes /\ NitDone /\ NitValues /\ NitNamed /\ NitTimely BY DEF NitInv
<1>3. ASSUME needs PROVE NitInv'
  <2>1. ~nit_all_sections_seen
    BY <1>2, <1>3 DEF NitDone, N!NeedUpdate, N!NitNeedUpdate, N!PsipNeedUpdate
  <2> HIDE DEF needs
  <2>2. /\ s # N!NoNit => s \in N!NitSections /\ (s.applicable => s.version <= nit_air)
        /\ a \in N!NitSections \cup {N!NoNit} /\ (a # N!NoNit => a \in N!NitSections)
        /\ a # N!NoNit /\ a.applicable => a.version <= nit_air
    BY NitAir, <1>2 DEF NitTypes, NitTimely
  <2>3. /\ nit_assembling' \in N!NitSections \cup {N!NoNit}
        /\ nit_assembling' # N!NoNit /\ nit_assembling'.applicable => nit_assembling'.version <= nit_air
        /\ UNCHANGED <<reader, nit_air, listed>>
    BY <1>1, <1>3, <2>2
  <2>4. CASE isGiven /\ a # N!NoNit
    <3>1. a \in N!NitSections /\ (a.applicable => a.version <= nit_air) /\ a.actual \in BOOLEAN
          /\ a.applicable \in BOOLEAN
      BY <2>2, <2>4 DEF N!NitSections
    <3>2. CASE reader = "nit"
      <4>1. N!Reads(a, new /\ a.applicable, ~a.actual \/ (new /\ ~a.applicable))
        BY <1>1, <1>3, <2>4, <3>2 DEF N!ReadNit
      <4> QED BY <2>1, <2>3, <3>1, <4>1, NitReads
    <3>3. CASE reader # "nit"
      <4>1. N!Reads(a, new, FALSE)
        BY <1>1, <1>3, <2>4, <3>3 DEF N!ReadPsip
      <4> QED BY <2>1, <2>3, <3>1, <4>1, NitReads
    <3> QED BY <3>2, <3>3
  <2>5. CASE ~(isGiven /\ a # N!NoNit)
    <3>1. /\ nit_need_update' = TRUE
          /\ UNCHANGED <<nit_version, nit_seen, nit_all_sections_seen, value, named,
                         sap_asked, unread, missed, untimely>>
      BY <1>1, <1>3, <2>5
    <3> QED
      BY <1>2, <2>1, <2>3, <3>1
      DEF NitInv, NitTypes, NitDone, NitValues, NitNamed, NitTimely, N!NitSections, N!NoNit
  <2> QED BY <2>4, <2>5
<1>4. ASSUME ~needs PROVE UNCHANGED N!nitVars BY <1>1, <1>4
<1> QED BY <1>3, <1>4

LEMMA NitVersioned == ASSUME NitInv, N!NewVersion PROVE NitInv'
<1>1. /\ nit_air + 1 \in NitVersions /\ nit_air' = nit_air + 1
      /\ UNCHANGED <<reader, nit_assembling, nit_version, nit_seen, nit_all_sections_seen,
                     nit_need_update, listed, value, named, sap_asked, unread, missed, untimely>>
  BY DEF N!NewVersion
<1>2. /\ NitTypes /\ NitDone /\ NitValues /\ NitNamed /\ NitTimely
      /\ nit_air \in Nat /\ nit_version \in Int
      /\ nit_assembling # N!NoNit => nit_assembling.version \in Int
  <2>1. nit_assembling \in N!NitSections \cup {N!NoNit} BY NitFacts DEF NitTypes
  <2> QED BY <2>1, NitFacts
<1>3. NitTypes' BY <1>1, <1>2 DEF NitTypes, N!NitSections, N!NoNit
<1>4. NitDone' /\ NitValues' /\ NitNamed' BY <1>1, <1>2 DEF NitDone, NitValues, NitNamed
<1>5. NitTimely'
  <2>1. nit_assembling # N!NoNit /\ nit_assembling.applicable => nit_assembling.version <= nit_air + 1
    BY <1>2 DEF NitTimely
  <2>2. ~untimely => nit_version <= nit_air + 1 BY <1>2 DEF NitTimely
  <2>3. nit_air' = nit_air + 1 /\ nit_assembling' = nit_assembling /\ untimely' = untimely
        /\ nit_version' = nit_version
    BY <1>1
  <2> QED BY <2>1, <2>2, <2>3 DEF NitTimely, N!NoNit
<1> QED BY <1>3, <1>4, <1>5 DEF NitInv

LEMMA NitLists == ASSUME NitInv, NEW c \in NitChannels, N!List(c) PROVE NitInv'
<1>1. /\ c \notin listed /\ listed' = listed \cup {c}
      /\ missed' = IF NitSectionOf(c) \in nit_seen \/ nit_all_sections_seen
                   THEN missed \cup {c} ELSE missed
      /\ UNCHANGED <<reader, nit_air, nit_assembling, nit_version, nit_seen, nit_all_sections_seen,
                     nit_need_update, value, named, sap_asked, unread, untimely>>
  BY DEF N!List
<1>2. NitTypes /\ NitDone /\ NitValues /\ NitNamed /\ NitTimely BY DEF NitInv
<1>3. NitTypes' BY <1>1, <1>2 DEF NitTypes, N!NitSections, N!NoNit
<1>4. NitDone' /\ NitTimely' BY <1>1, <1>2 DEF NitDone, NitTimely, N!NoNit
<1>5. NitValues' /\ NitNamed' BY <1>1, <1>2 DEF NitValues, NitNamed
<1> QED BY <1>3, <1>4, <1>5 DEF NitInv

LEMMA NitRenames == ASSUME NitInv, N!Names PROVE NitInv'
<1>1. /\ N!UpdateNames(listed, value, nit_all_sections_seen)
      /\ UNCHANGED <<reader, nit_air, nit_assembling, nit_version, nit_seen, nit_all_sections_seen,
                     nit_need_update, listed, value, unread, missed, untimely>>
  BY DEF N!Names
<1>2. /\ NitTypes /\ NitDone /\ NitValues /\ NitNamed /\ NitTimely
      /\ value \in [NitChannels -> NitVersions \cup {-1}] /\ nit_all_sections_seen \in BOOLEAN
  BY DEF NitInv, NitTypes
<1>3. /\ named' \in [NitChannels -> NitVersions \cup {-1}] /\ sap_asked' \subseteq NitChannels
      /\ nit_all_sections_seen => \A c \in listed : named'[c] = value[c] /\ c \in sap_asked'
  BY <1>1, <1>2, NitNames
<1>4. NitTypes' BY <1>1, <1>2, <1>3 DEF NitTypes, N!NitSections, N!NoNit
<1>5. NitDone' /\ NitTimely' /\ NitValues' BY <1>1, <1>2 DEF NitDone, NitTimely, NitValues, N!NoNit
<1>6. NitNamed' BY <1>1, <1>3 DEF NitNamed
<1> QED BY <1>4, <1>5, <1>6 DEF NitInv

LEMMA NitStep == NitInv /\ (N!Next \/ UNCHANGED nitVars) => NitInv'
<1> SUFFICES ASSUME NitInv, N!Next \/ UNCHANGED nitVars PROVE NitInv' OBVIOUS
<1>1. ASSUME UNCHANGED nitVars PROVE NitInv'
  BY <1>1
  DEF nitVars, NitInv, NitTypes, NitDone, NitValues, NitNamed, NitTimely, N!NitSections, N!NoNit
<1>2. ASSUME NEW s \in N!OnAir \cup {N!NoNit}, NEW isGiven \in BOOLEAN, N!Packet(s, isGiven) PROVE NitInv'
  BY <1>1, <1>2, NitPackets DEF nitVars, N!nitVars
<1>3. ASSUME NEW c \in NitChannels, N!List(c) PROVE NitInv' BY <1>3, NitLists
<1> QED BY <1>1, <1>2, <1>3, NitVersioned, NitRenames DEF N!Next

LEMMA NitGoals == NitInv => N!TypeOK /\ N!NumbersRight
<1> SUFFICES ASSUME NitInv PROVE N!TypeOK /\ N!NumbersRight OBVIOUS
<1>1. NitTypes /\ NitDone /\ NitValues /\ NitNamed /\ NitTimely BY DEF NitInv
<1>2. N!TypeOK BY <1>1, NitNumbers DEF N!TypeOK, NitTypes
<1>3. N!NumbersRight
  <2> SUFFICES ASSUME nit_all_sections_seen, NEW c \in listed \ missed
               PROVE  /\ NitSectionOf(c) \in 0..NitLast \ unread => value[c] = nit_version
                      /\ named[c] = value[c] /\ c \in sap_asked
                      /\ ~untimely => nit_version <= nit_air
    BY DEF N!NumbersRight
  <2> QED BY <1>1 DEF NitDone, NitValues, NitNamed, NitTimely
<1> QED BY <1>2, <1>3

-----------------------------------------------------------------------------
(* The theorems                                                             *)

\* The monitor neither ends the program while a channel is received well nor lets it run for
\* ever without (monitor_func).
THEOREM MonitorIsHonest == Spec => []MonitorHonest
<1>1. Init => MonInv BY MonInit DEF Init
<1>2. MonInv /\ [Next]_vars => MonInv' BY EachAlone, MonStep
<1>3. MonInv => MonitorHonest BY MonHonest DEF MonitorHonest
<1> QED BY <1>1, <1>2, <1>3, PTL DEF Spec, vars

\* The program ends cleanly from whatever step of its start, and nothing is freed under a
\* thread that uses it but those the code exposes (main, mumudvb_close).
THEOREM EndsCleanly == Spec => []CleanEnd
<1>1. Init => LifeInv BY LifeInitial DEF Init
<1>2. LifeInv /\ [Next]_vars => LifeInv' BY EachAlone, LifeStep
<1>3. LifeInv => CleanEnd BY LifeClean DEF CleanEnd, LifeInv
<1> QED BY <1>1, <1>2, <1>3, PTL DEF Spec, vars

\* A packet is decrypted with the key of its period and no other when it came in time
\* (decsathread_func); a CAM is given up only after all its resets, each with its time, and is
\* asked again for a channel in trouble (camthread_func); the answer typed in its menu fits the
\* answer it expects (unicast_send_cam_action).
THEOREM DescramblingIsServed == Spec => []DescramblingServed
<1>1. Init => KeysInv /\ CamInv /\ MenuInv BY KeysInitial, CamInitial, MenuInitial DEF Init
<1>2. KeysInv /\ CamInv /\ MenuInv /\ [Next]_vars => (KeysInv /\ CamInv /\ MenuInv)'
  <2> SUFFICES ASSUME KeysInv /\ CamInv /\ MenuInv, [Next]_vars PROVE (KeysInv /\ CamInv /\ MenuInv)'
    OBVIOUS
  <2>1. KeysInv' BY EachAlone, KeysStep
  <2>2. CamInv' BY EachAlone, CamStep
  <2>3. MenuInv' BY EachAlone, MenuStep
  <2> QED BY <2>1, <2>2, <2>3
<1>3. KeysInv /\ CamInv /\ MenuInv => DescramblingServed
  BY CamAsks DEF DescramblingServed, KeysInv, KeysTypes, CamInv, MenuInv
<1> QED BY <1>1, <1>2, <1>3, PTL DEF Spec, vars

\* What ClientsAgree says of every behaviour: the table, the list of clients and the lists of the
\* channels name the same clients once each, and no event the poll reported is forgotten
\* (unicast_handle_fd_event, unicast_close_connection, unicast_del_client).
THEOREM ClientsDoAgree == Spec => []ClientsAgree
<1>1. Init => ClInv BY ClInitial DEF Init
<1>2. ClInv /\ [Next]_vars => ClInv' BY EachAlone, ClStep
<1>3. ClInv => ClientsAgree BY ClientsGoals DEF ClientsAgree
<1> QED BY <1>1, <1>2, <1>3, PTL DEF Spec, vars

\* What FilesAgree says of every behaviour: a file on disk has a channel that will remove it, a
\* playlist names files that exist, a chunk is closed in time, and nothing is left after
\* hls_stop (hls_worker_main, hls_periodic_task, hls_playlist_master, hls_stop).
THEOREM FilesDoAgree == Spec => []FilesAgree
<1>1. Init => HlsInv BY HlsInitial DEF Init
<1>2. HlsInv /\ [Next]_vars => HlsInv' BY EachAlone, HlsStep
<1>3. HlsInv => FilesAgree BY HlsGoals DEF FilesAgree
<1> QED BY <1>1, <1>2, <1>3, PTL DEF Spec, vars

\* What AnnouncedRight says of every behaviour: a channel ready for longer than the interval is
\* announced under its name, a version on the air names one message (sap_update, sap_poll); and a
\* channel has the number its section gave it once the table is read (autoconf_read_nit,
\* autoconf_read_psip).
THEOREM AnnouncesAreRight == Spec => []AnnouncedRight
<1>1. Init => SapInv /\ NitInv BY SapInitial, NitInitial DEF Init
<1>2. SapInv /\ NitInv /\ [Next]_vars => (SapInv /\ NitInv)'
  <2> SUFFICES ASSUME SapInv /\ NitInv, [Next]_vars PROVE (SapInv /\ NitInv)'
    OBVIOUS
  <2>1. SapInv' BY EachAlone, SapStep
  <2>2. NitInv' BY EachAlone, NitStep
  <2> QED BY <2>1, <2>2
<1>3. SapInv /\ NitInv => AnnouncedRight BY SapGoals, NitGoals DEF AnnouncedRight
<1> QED BY <1>1, <1>2, <1>3, PTL DEF Spec, vars

\* What RewrittenRight says of every behaviour: once a channel's rewrite found its section it sends
\* its own SDT, in the version read last; it sends EIT sections of its own service, of the version
\* on the air once one was stored twice; it sends its own PMT whole where nothing was lost
\* (sdt_rewrite_new_channel_packet, eit_rewrite_new_channel_packet, pmt_rewrite_new_channel_packet);
\* and its packets leave once each, in order, in datagrams that are short enough (buffer_func,
\* send_func).
THEOREM RewritesAreRight == Spec => []RewrittenRight
<1> DEFINE Inv == SdtInv /\ EitInv /\ PmtInv /\ DgInv
<1>1. Init => Inv BY SdtInitial, EitInitial, PmtInitial, DgInitial DEF Init
<1>2. Inv /\ [Next]_vars => Inv'
  <2> SUFFICES ASSUME Inv, [Next]_vars PROVE Inv' OBVIOUS
  <2>1. SdtInv' BY EachAlone, SdtStep
  <2>2. EitInv' BY EachAlone, EitStep
  <2>3. PmtInv' BY EachAlone, PmtStep
  <2>4. DgInv' BY EachAlone, DgStep
  <2> QED BY <2>1, <2>2, <2>3, <2>4
<1>3. Inv => RewrittenRight BY SdtGoals, EitGoals, PmtGoals, DgGoals DEF RewrittenRight
<1> QED BY <1>1, <1>2, <1>3, PTL DEF Spec, vars
=============================================================================
