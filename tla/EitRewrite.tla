----------------------------- MODULE EitRewrite -----------------------------
(* The sorted EIT (rewrite_eit.c): the sections of all services are stored  *)
(* in a list, by service and table, and each channel sends those of its     *)
(* service in turn, a section each time one starts in the stream.           *)
EXTENDS Integers, Sequences, SequencesExt, FiniteSets, FiniteSetsExt

CONSTANTS
    EitChannels,     \* the service ids
    Tables,          \* the table ids, in the order of eit_next_table_id
    Keys,            \* the services and tables that are broadcast
    EitVersions,     \* 0..n
    EitLast          \* last_section_number, by version

EitAssumption ==
    /\ Keys \subseteq Nat \X Nat /\ Tables \in Seq(Nat) /\ Tables # <<>>
    /\ EitVersions \subseteq Nat /\ 0 \in EitVersions /\ EitLast \in [EitVersions -> Nat]

VARIABLES
    eit_air,         \* EXTERNAL the version of each service and table that is broadcast
    eit_assembling,  \* full_eit->data_partial: the section started last, or NoEit
    eit_needs_update,
    eit_packets,     \* the list
    table_to_send, section_to_send,   \* per channel
    eit_sent,        \* what each channel sent last, or NoEit
    given_twice      \* HISTORY how often a section of the version on air was stored, up to 2

eitVars == <<eit_air, eit_assembling, eit_needs_update, eit_packets, table_to_send,
             section_to_send, eit_sent, given_twice>>

NoEit == [key |-> <<>>, version |-> 0, section |-> 0]
Eit(k, v, n) == [key |-> k, version |-> v, section |-> n]
Eits == UNION {{Eit(k, v, n) : n \in 0..EitLast[v]} : k \in Keys, v \in EitVersions}

TypeOK ==
    /\ eit_air \in [Keys -> EitVersions] /\ eit_assembling \in Eits \cup {NoEit}
    /\ eit_needs_update \in BOOLEAN
    /\ \A i \in 1..Len(eit_packets) :
         LET p == eit_packets[i]
         IN  p.key \in Keys /\ p.version \in EitVersions /\ p.stored \subseteq 0..EitLast[p.version]
    /\ table_to_send \in [EitChannels -> ToSet(Tables)]
    /\ section_to_send \in [EitChannels -> Nat] /\ eit_sent \in [EitChannels -> Eits \cup {NoEit}]
    /\ given_twice \in [Keys -> 0..2]

Init ==
    /\ eit_air = [k \in Keys |-> 0] /\ eit_assembling = NoEit /\ eit_needs_update = FALSE
    /\ eit_packets = <<>> /\ table_to_send = [c \in EitChannels |-> Tables[1]]
    /\ section_to_send = [c \in EitChannels |-> 0] /\ eit_sent = [c \in EitChannels |-> NoEit]
    /\ given_twice = [k \in Keys |-> 0]

-----------------------------------------------------------------------------
(* The list.                                                                *)

PlacesOf(list, k) == {i \in 1..Len(list) : list[i].key = k}

\* eit_find_by_tsid
Find(list, k) == IF PlacesOf(list, k) = {} THEN 0 ELSE Min(PlacesOf(list, k))

\* eit_need_update
NeedUpdate(list, e) ==
    /\ e # NoEit
    /\ LET i == Find(list, e.key)
       IN  i = 0 \/ list[i].version # e.version \/ e.section \notin list[i].stored

\* Slip of PlaceFor: the search never finds the element.
AlwaysAppended(list, k) == Len(list) + 1

\* eit_new_packet: the search stops before the last element of the list.
PlaceFor(list, k) ==
    LET before == PlacesOf(list, k) \ {Len(list)}
    IN  IF before = {} THEN Len(list) + 1 ELSE Min(before)

\* A section of a new version clears those stored before.
Stored(list, e) ==
    LET i == PlaceFor(list, e.key)
        old == IF i <= Len(list) /\ list[i].version = e.version THEN list[i].stored ELSE {}
        new == [key |-> e.key, version |-> e.version, last |-> EitLast[e.version],
                stored |-> old \cup {e.section}]
    IN  IF i <= Len(list) THEN [list EXCEPT ![i] = new] ELSE Append(list, new)

-----------------------------------------------------------------------------
(* eit_rewrite_new_channel_packet.                                          *)

IndexOfTable(t) == CHOOSE i \in 1..Len(Tables) : Tables[i] = t
NextTable(t) == Tables[(IndexOfTable(t) % Len(Tables)) + 1]

\* The first table, from t on, that the service has.
TableFrom(list, c, t) ==
    LET at(j) == Tables[((IndexOfTable(t) - 1 + j) % Len(Tables)) + 1]
        stored == {j \in 0..Len(Tables) - 1 : Find(list, <<c, at(j)>>) # 0}
    IN  IF stored = {} THEN t ELSE at(Min(stored))

\* What the channel sends, and where it goes on.
Turn(list, c) ==
    LET t == TableFrom(list, c, table_to_send[c])
        i == Find(list, <<c, t>>)
        p == list[i]
        start == section_to_send[c] % (p.last + 1)
        n == (start + Min({j \in 0..p.last : (start + j) % (p.last + 1) \in p.stored})) % (p.last + 1)
        next == (n + 1) % (p.last + 1)
    IN  IF i = 0 THEN [table |-> t, section |-> section_to_send[c], sent |-> eit_sent[c]]
        ELSE [table |-> IF next = 0 THEN NextTable(t) ELSE t, section |-> next,
              sent |-> Eit(p.key, p.version, n)]

\* A packet of PID 18 that starts section s, or none, with which get_ts_packet may give the
\* section started before.
Packet(s, given) ==
    LET wanted == eit_needs_update \/ NeedUpdate(eit_packets, s)
        stores == wanted /\ given /\ NeedUpdate(eit_packets, eit_assembling)
        list == IF stores THEN Stored(eit_packets, eit_assembling) ELSE eit_packets
        turns == [c \in EitChannels |-> Turn(list, c)]
    IN  /\ eit_packets' = list
        /\ eit_needs_update' = (wanted /\ ~stores)
        /\ eit_assembling' = IF ~wanted THEN NoEit ELSE IF s # NoEit THEN s
                             ELSE IF given THEN NoEit ELSE eit_assembling
        /\ given_twice' = IF stores /\ eit_assembling.version = eit_air[eit_assembling.key]
                          THEN [given_twice EXCEPT ![eit_assembling.key] = Min({2, @ + 1})]
                          ELSE given_twice
        /\ IF s # NoEit
           THEN /\ table_to_send' = [c \in EitChannels |-> turns[c].table]
                /\ section_to_send' = [c \in EitChannels |-> turns[c].section]
                /\ eit_sent' = [c \in EitChannels |-> turns[c].sent]
           ELSE UNCHANGED <<table_to_send, section_to_send, eit_sent>>
    /\ UNCHANGED eit_air

NewEvents(k) ==
    /\ eit_air[k] + 1 \in EitVersions /\ eit_air' = [eit_air EXCEPT ![k] = @ + 1]
    /\ given_twice' = [given_twice EXCEPT ![k] = 0]
    /\ UNCHANGED <<eit_assembling, eit_needs_update, eit_packets, table_to_send,
                   section_to_send, eit_sent>>

Next ==
    \/ \E k \in Keys : NewEvents(k)
    \/ \E given \in BOOLEAN : Packet(NoEit, given)
    \/ \E k \in Keys : \E n \in 0..EitLast[eit_air[k]], given \in BOOLEAN :
         Packet(Eit(k, eit_air[k], n), given)

Spec == Init /\ [][Next]_eitVars

-----------------------------------------------------------------------------

\* A service and table is in the list once, or twice since the search misses the last
\* element; a channel sends the sections of its service, and those of the version on air once
\* a section of it was stored twice.
OwnEit ==
    /\ \A k \in Keys :
         /\ Cardinality(PlacesOf(eit_packets, k)) <= 2
         /\ given_twice[k] = 2 => eit_packets[Find(eit_packets, k)].version = eit_air[k]
    /\ \A c \in EitChannels :
         eit_sent[c] # NoEit => eit_sent[c].key[1] = c /\ eit_sent[c].section <= EitLast[eit_sent[c].version]
=============================================================================
