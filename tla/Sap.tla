-------------------------------- MODULE Sap ---------------------------------
(* The SAP announces (sap.c), sent by the monitor thread under the lock of  *)
(* the channels, while the main thread changes the names of the channels    *)
(* without that lock (autoconf_update_chan_name).  A name is a number; an   *)
(* announce is what the message in the buffer says of its channel.          *)
EXTENDS Integers

CONSTANTS
    SapChannels,
    sap_interval,
    TooLong,       \* names whose message exceeds 1024 bytes
    MaxName,       \* bound on the names
    MaxSapNow      \* bound on the time

SapAssumption ==
    /\ "none" \notin SapChannels /\ sap_interval \in Nat /\ MaxName \in Nat \ {0} /\ MaxSapNow \in Nat

VARIABLES
    sap_now,
    polled_now,    \* sap_poll ran in this second
    name,
    sap_ready,     \* channel_ready >= READY
    sap_need_update,
    message,       \* per channel: version, to_be_sent and the name in the message
    sap_last_time_sent,
    building,      \* the channel sap_update is at, or "none", with the name it has read
    on_air,        \* the last announce sent of each channel
    changed,       \* HISTORY when the channel last changed name or became ready
    crossed,       \* HISTORY the name changed while the message was built
    rebuilt        \* HISTORY the messages built since the announce on the air

sapVars == <<sap_now, polled_now, name, sap_ready, sap_need_update, message,
             sap_last_time_sent, building, on_air, changed, crossed, rebuilt>>

NoChannel == "none"
NoAnnounce == [version |-> 0, name |-> 0]

TypeOK ==
    /\ sap_now \in 0..MaxSapNow /\ polled_now \in BOOLEAN
    /\ name \in [SapChannels -> 1..MaxName] /\ sap_ready \in [SapChannels -> BOOLEAN]
    /\ sap_need_update \in [SapChannels -> BOOLEAN]
    /\ message \in [SapChannels -> [version : 0..15, to_be_sent : BOOLEAN, name : 0..MaxName]]
    /\ sap_last_time_sent \in -(sap_interval + 1)..MaxSapNow
    /\ building.channel \in SapChannels \cup {NoChannel}
    /\ crossed \subseteq SapChannels

Init ==
    /\ sap_now = 0 /\ polled_now = FALSE
    /\ name = [c \in SapChannels |-> 1] /\ sap_ready = [c \in SapChannels |-> FALSE]
    /\ sap_need_update = [c \in SapChannels |-> FALSE]
    /\ message = [c \in SapChannels |-> [version |-> 0, to_be_sent |-> FALSE, name |-> 0]]
    /\ sap_last_time_sent = 0
    /\ building = [channel |-> NoChannel, name |-> 0, left |-> {}]
    /\ on_air = [c \in SapChannels |-> NoAnnounce]
    /\ changed = [c \in SapChannels |-> 0] /\ crossed = {} /\ rebuilt = [c \in SapChannels |-> 0]

-----------------------------------------------------------------------------
(* The main thread.                                                         *)

\* The name is written, and the flag after it.
UpdateName(c) ==
    /\ name[c] < MaxName
    /\ name' = [name EXCEPT ![c] = @ + 1]
    /\ sap_need_update' = [sap_need_update EXCEPT ![c] = TRUE]
    /\ changed' = [changed EXCEPT ![c] = sap_now]
    /\ crossed' = IF building.channel = c THEN crossed \cup {c} ELSE crossed \ {c}
    /\ UNCHANGED <<sap_now, polled_now, sap_ready, message, sap_last_time_sent, building, on_air,
                   rebuilt>>

\* A channel gets ready after its name was set, or is removed; both take the lock.
SetReady(c) ==
    /\ building.channel = NoChannel
    /\ sap_ready' = [sap_ready EXCEPT ![c] = ~@]
    /\ sap_need_update' = [sap_need_update EXCEPT ![c] = @ \/ ~sap_ready[c]]
    /\ changed' = [changed EXCEPT ![c] = IF sap_ready[c] THEN @ ELSE sap_now]
    /\ UNCHANGED <<sap_now, polled_now, name, message, sap_last_time_sent, building, on_air,
                   crossed, rebuilt>>

-----------------------------------------------------------------------------
(* The monitor thread: sap_poll.                                            *)

\* The first time, which is also each time the last one was second 0, every channel is updated.
PollBegins ==
    /\ building.channel = NoChannel /\ ~polled_now
    /\ LET first == sap_last_time_sent = 0
           due == {c \in SapChannels : sap_ready[c] /\ (first \/ sap_need_update[c])}
       IN  /\ sap_last_time_sent' = IF first THEN sap_now - sap_interval - 1 ELSE sap_last_time_sent
           /\ IF due = {}
              THEN UNCHANGED building
              ELSE \E c \in due : building' = [channel |-> c, name |-> name[c], left |-> due \ {c}]
    /\ polled_now' = TRUE
    /\ UNCHANGED <<sap_now, name, sap_ready, sap_need_update, message, on_air, changed, crossed,
                   rebuilt>>

\* sap_add_program: a message that is too long, or of a channel that is not ready, is not sent.
AddProgram(c, n) ==
    LET written == sap_ready[c] /\ n \notin TooLong
    IN  [to_be_sent |-> written, name |-> IF written THEN n ELSE 0]

\* sap_update: the message gets its next version, whether it will be sent or not.
Updated ==
    /\ building.channel # NoChannel
    /\ LET c == building.channel
           program == AddProgram(c, building.name)
       IN  /\ message' = [message EXCEPT ![c] =
                              [version |-> (@.version + 1) % 16,
                               to_be_sent |-> program.to_be_sent, name |-> program.name]]
           /\ sap_need_update' = [sap_need_update EXCEPT ![c] = FALSE]
           /\ rebuilt' = [rebuilt EXCEPT ![c] = @ + 1]
    /\ IF building.left = {}
       THEN building' = [channel |-> NoChannel, name |-> 0, left |-> {}]
       ELSE \E c \in building.left :
                building' = [channel |-> c, name |-> name[c], left |-> building.left \ {c}]
    /\ UNCHANGED <<sap_now, polled_now, name, sap_ready, sap_last_time_sent, on_air, changed,
                   crossed>>

\* sap_send: what is to be sent, whether its channel is still ready or not.  Then the thread sleeps.
SendAndSleep ==
    /\ polled_now /\ building.channel = NoChannel /\ sap_now < MaxSapNow
    /\ IF sap_now - sap_last_time_sent >= sap_interval
       THEN /\ on_air' = [c \in SapChannels |->
                             IF message[c].to_be_sent
                             THEN [version |-> message[c].version, name |-> message[c].name]
                             ELSE on_air[c]]
            /\ rebuilt' = [c \in SapChannels |-> IF message[c].to_be_sent THEN 0 ELSE rebuilt[c]]
            /\ sap_last_time_sent' = sap_now
       ELSE UNCHANGED <<on_air, rebuilt, sap_last_time_sent>>
    /\ sap_now' = sap_now + 1 /\ polled_now' = FALSE
    /\ UNCHANGED <<name, sap_ready, sap_need_update, message, building, changed, crossed>>

Next ==
    \/ \E c \in SapChannels : UpdateName(c) \/ SetReady(c)
    \/ PollBegins \/ Updated \/ SendAndSleep

Spec == Init /\ [][Next]_sapVars

-----------------------------------------------------------------------------
\* A channel that has been ready with the same name for longer than the interval is announced
\* under that name, unless the name changed in the very moment its message was built.
AnnouncedAsItIs ==
    \A c \in SapChannels :
        sap_ready[c] /\ sap_now > changed[c] + sap_interval + 1 /\ c \notin crossed
            /\ name[c] \notin TooLong
        => on_air[c].name = name[c]

\* A listener can tell a new announce from an old one: the version on the air names one message,
\* until it comes again after 16 messages none of which was sent.
OneVersionOneMessage ==
    \A c \in SapChannels :
        on_air[c] # NoAnnounce /\ on_air[c].version = message[c].version /\ rebuilt[c] < 16
        => on_air[c].name = message[c].name
=============================================================================
