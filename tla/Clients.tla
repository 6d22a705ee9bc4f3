------------------------------ MODULE Clients ------------------------------
(* The HTTP clients (unicast_http.c, unicast_clients.c): the table of polled *)
(* descriptors, which unicast_handle_fd_event walks while connections are   *)
(* accepted and closed, the list of clients and the clients of each channel.*)
(* What a client sends is chosen when it is received, and a reply is modelled *)
(* by whether it closes the connection.                                     *)
EXTENDS Integers, Sequences, SequencesExt, FiniteSets

CONSTANTS
    ClientIds,       \* sockets that may be open at once
    ClientChannels,
    ChannelPorts,    \* the channels with a listening socket of their own
    max_clients

\* Ports belong to channels, and 0 is no channel.
ClientsAssumption ==
    /\ ChannelPorts \subseteq ClientChannels /\ 0 \notin ClientChannels
    /\ IsFiniteSet(ChannelPorts) /\ max_clients \in Int

VARIABLES
    pfds,            \* the table: what each descriptor is, and its revents
    clients,         \* unicast_vars->clients
    client_number,
    chan_ptr,        \* the channel of a client, or NoChan
    askedChannel,    \* the channel of the port the client came through, or NoChan
    kept,            \* the buffer holds a request that was answered and not freed
    chan_clients,    \* channel->clients
    num_clients,     \* channel->num_clients
    actual_fd,       \* where unicast_handle_fd_event is, or 0
    due,             \* HISTORY the descriptors the poll reported and the walk has not seen
    zeroed           \* HISTORY update_chan_net reset num_clients of these channels

clVars == <<pfds, clients, client_number, chan_ptr, askedChannel, kept, chan_clients,
            num_clients, actual_fd, due, zeroed>>

NoChan == 0
Master == [type |-> "UNICAST_MASTER", of |-> NoChan]
Listen(c) == [type |-> "UNICAST_LISTEN_CHANNEL", of |-> c]
Client(x) == [type |-> "UNICAST_CLIENT", of |-> x]
Listeners == {Master} \cup {Listen(c) : c \in ChannelPorts}

IsClient(d) == d.type = "UNICAST_CLIENT"
Descriptors == {pfds[i].fd : i \in 1..Len(pfds)}

TypeOK ==
    /\ \A i \in 1..Len(pfds) :
           /\ pfds[i].fd \in Listeners \cup {Client(x) : x \in ClientIds}
           /\ pfds[i].revents \in {"none", "IN", "HUP"}
    /\ clients \in Seq(ClientIds) /\ client_number \in Nat
    /\ chan_ptr \in [ClientIds -> ClientChannels \cup {NoChan}]
    /\ askedChannel \in [ClientIds -> ClientChannels \cup {NoChan}]
    /\ kept \in [ClientIds -> BOOLEAN]
    /\ chan_clients \in [ClientChannels -> Seq(ClientIds)]
    /\ num_clients \in [ClientChannels -> Int]
    /\ actual_fd \in 0..Len(pfds) + 2

\* The listening sockets were opened before the loop.
Init ==
    /\ pfds = [i \in 1..Cardinality(Listeners) |->
                  [fd |-> SetToSeq(Listeners)[i], revents |-> "none"]]
    /\ clients = <<>> /\ client_number = 0
    /\ chan_ptr = [x \in ClientIds |-> NoChan] /\ askedChannel = [x \in ClientIds |-> NoChan]
    /\ kept = [x \in ClientIds |-> FALSE]
    /\ chan_clients = [c \in ClientChannels |-> <<>>]
    /\ num_clients = [c \in ClientChannels |-> 0]
    /\ actual_fd = 0 /\ due = {} /\ zeroed = {}

-----------------------------------------------------------------------------
(* poll.  Connections come, clients send or go away, in any combination.    *)

Poll ==
    /\ actual_fd = 0
    /\ \E input \in SUBSET Descriptors, gone \in SUBSET {d \in Descriptors : IsClient(d)} :
         LET revents(d) == IF d \in gone THEN "HUP" ELSE IF d \in input THEN "IN" ELSE "none"
         IN  /\ input \cap gone = {} /\ input \cup gone # {}
             /\ pfds' = [i \in 1..Len(pfds) |-> [pfds[i] EXCEPT !.revents = revents(pfds[i].fd)]]
             /\ due' = input \cup gone
    /\ actual_fd' = 1
    /\ UNCHANGED <<clients, client_number, chan_ptr, askedChannel, kept, chan_clients,
                   num_clients, zeroed>>

-----------------------------------------------------------------------------
(* unicast_close_connection and unicast_del_client.                         *)

\* The last descriptor takes the place of the one closed.
Removed(i) == IF i = Len(pfds) THEN Front(pfds) ELSE Front([pfds EXCEPT ![i] = Last(pfds)])

\* The node of x is taken out of a list.
Unlinked(list, x) == RemoveAt(list, CHOOSE i \in 1..Len(list) : list[i] = x)

CloseClient(x) ==
    LET c == chan_ptr[x]
    IN  /\ clients' = Unlinked(clients, x)
        /\ client_number' = client_number - 1
        /\ chan_clients' = IF c = NoChan THEN chan_clients
                           ELSE [chan_clients EXCEPT ![c] = Unlinked(@, x)]
        /\ num_clients' = IF c = NoChan THEN num_clients ELSE [num_clients EXCEPT ![c] = @ - 1]
        /\ chan_ptr' = [chan_ptr EXCEPT ![x] = NoChan]
        /\ askedChannel' = [askedChannel EXCEPT ![x] = NoChan]
        /\ kept' = [kept EXCEPT ![x] = FALSE]

\* Slip of CloseHere: the walk always goes on with the next descriptor.
CloseAndGoOn(i, x, back) ==
    /\ CloseClient(x)
    /\ pfds' = Removed(i)
    /\ actual_fd' = i + 1
    /\ due' = due \ {Client(x)}
    /\ UNCHANGED zeroed

\* The walk closes the descriptor it is at.  What took its place may have an event too: the
\* walk then goes on from "back", or else past it.
CloseHere(i, x, back) ==
    /\ CloseClient(x)
    /\ pfds' = Removed(i)
    /\ actual_fd' = IF i <= Len(pfds') /\ pfds'[i].revents # "none" THEN back ELSE i + 1
    /\ due' = due \ {Client(x)}
    /\ UNCHANGED zeroed

-----------------------------------------------------------------------------
(* The walk of unicast_handle_fd_event, one descriptor a step.              *)

At(i, event) == actual_fd = i /\ i <= Len(pfds) /\ pfds[i].revents = event

Skips(i) ==
    /\ At(i, "none")
    /\ actual_fd' = i + 1
    /\ UNCHANGED <<pfds, clients, client_number, chan_ptr, askedChannel, kept, chan_clients,
                   num_clients, due, zeroed>>

\* The old events are forgotten here; in the code the next poll overwrites them.
WalkEnds ==
    /\ actual_fd > Len(pfds)
    /\ actual_fd' = 0
    /\ pfds' = [i \in 1..Len(pfds) |-> [pfds[i] EXCEPT !.revents = "none"]]
    /\ UNCHANGED <<clients, client_number, chan_ptr, askedChannel, kept, chan_clients,
                   num_clients, due, zeroed>>

\* A client is gone.  The loop steps back before the test for input and not at its end, so
\* the descriptor before is looked at again, with the event it had.
HangUp(i) == At(i, "HUP") /\ CloseHere(i, pfds[i].fd.of, i - 1)

\* unicast_add_client: the client is the last of the list, and has no channel yet.
AddClient(x) ==
    /\ clients' = Append(clients, x)
    /\ client_number' = client_number + 1

\* A new connection, or none any more.  Beyond max_clients it gets an error and is closed.
Accept(i) ==
    /\ At(i, "IN") /\ ~IsClient(pfds[i].fd)
    /\ LET d == pfds[i].fd
           free == {x \in ClientIds : Client(x) \notin Descriptors}
       IN  /\ due' = due \ {d}
           /\ \/ UNCHANGED <<pfds, clients, client_number, askedChannel>>
              \/ /\ max_clients > 0 => client_number < max_clients
                 /\ \E x \in free :
                      /\ pfds' = Append(pfds, [fd |-> Client(x), revents |-> "none"])
                      /\ AddClient(x)
                      /\ askedChannel' = [askedChannel EXCEPT ![x] = d.of]
    /\ actual_fd' = i + 1
    /\ UNCHANGED <<chan_ptr, kept, chan_clients, num_clients, zeroed>>

-----------------------------------------------------------------------------
(* unicast_handle_message.                                                  *)

Readable(i, x) == At(i, "IN") /\ pfds[i].fd = Client(x)

\* A complete GET for a channel is answered: the channel of the port the client came through,
\* or the one it names.  channel_add_unicast_client.
AddToChannel(i, x) ==
    /\ Readable(i, x) /\ ~kept[x]
    /\ \E c \in ClientChannels :
         /\ askedChannel[x] = c \/ (askedChannel[x] = NoChan /\ chan_ptr[x] = NoChan)
         /\ chan_clients' = [chan_clients EXCEPT ![c] = Append(@, x)]
         /\ num_clients' = [num_clients EXCEPT ![c] = @ + 1]
         /\ chan_ptr' = [chan_ptr EXCEPT ![x] = c]
    /\ askedChannel' = [askedChannel EXCEPT ![x] = NoChan]
    /\ due' = due \ {Client(x)} /\ actual_fd' = i + 1
    /\ UNCHANGED <<pfds, clients, client_number, kept, zeroed>>

\* A method that is not implemented is refused, but a client that is streamed to stays, with
\* the request in its buffer: whatever it sends later is taken for that request again.
KeepOther(i, x) ==
    /\ Readable(i, x) /\ chan_ptr[x] # NoChan
    /\ kept' = [kept EXCEPT ![x] = TRUE]
    /\ due' = due \ {Client(x)} /\ actual_fd' = i + 1
    /\ UNCHANGED <<pfds, clients, client_number, chan_ptr, askedChannel, chan_clients,
                   num_clients, zeroed>>

\* The client closed, the answer ends the connection, or it could not be written.
AnswerAndClose(i, x) == Readable(i, x) /\ CloseHere(i, x, i)

\* recv fails, or gets a part of a request.
NotYet(i, x) ==
    /\ Readable(i, x)
    /\ due' = due \ {Client(x)} /\ actual_fd' = i + 1
    /\ UNCHANGED <<pfds, clients, client_number, chan_ptr, askedChannel, kept, chan_clients,
                   num_clients, zeroed>>

Walk ==
    \/ \E i \in 1..Len(pfds) :
         \/ Skips(i) \/ HangUp(i) \/ Accept(i)
         \/ \E x \in ClientIds : AddToChannel(i, x) \/ KeepOther(i, x) \/ AnswerAndClose(i, x) \/ NotYet(i, x)
    \/ WalkEnds

-----------------------------------------------------------------------------
(* Between two walks.                                                       *)

\* unicast_data_send disconnects a client it cannot send to.
SendFails(x) ==
    /\ actual_fd = 0 /\ chan_ptr[x] # NoChan
    /\ CloseClient(x)
    /\ \E i \in 1..Len(pfds) : pfds[i].fd = Client(x) /\ pfds' = Removed(i)
    /\ UNCHANGED <<actual_fd, due, zeroed>>

\* update_chan_net, after a new SDT.
UpdateChanNet(c) ==
    /\ actual_fd = 0 /\ c \notin zeroed
    /\ num_clients' = [num_clients EXCEPT ![c] = 0]
    /\ zeroed' = zeroed \cup {c}
    /\ UNCHANGED <<pfds, clients, client_number, chan_ptr, askedChannel, kept, chan_clients,
                   actual_fd, due>>

Next ==
    \/ Poll \/ Walk
    \/ (\E x \in ClientIds : SendFails(x)) \/ (\E c \in ClientChannels : UpdateChanNet(c))

Spec == Init /\ [][Next]_clVars

-----------------------------------------------------------------------------

\* The table, the list of clients and the lists of the channels name the same clients, each
\* once; a channel's count is the length of its list until update_chan_net resets it.
ClientsAgree ==
    /\ {d.of : d \in {e \in Descriptors : IsClient(e)}} = ToSet(clients)
    /\ Listeners \subseteq Descriptors
    /\ Len(pfds) = Cardinality(Listeners) + Len(clients) /\ IsInjective(clients)
    /\ client_number = Len(clients)
    /\ max_clients > 0 => client_number <= max_clients
    /\ \A c \in ClientChannels :
         /\ IsInjective(chan_clients[c])
         /\ ToSet(chan_clients[c]) = {x \in ToSet(clients) : chan_ptr[x] = c}
         /\ c \notin zeroed => num_clients[c] = Len(chan_clients[c])

\* A walk looks at every descriptor the poll reported, whatever it closes on the way.
NoneForgotten == actual_fd = 0 => due = {}
=============================================================================
