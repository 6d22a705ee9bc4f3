----------------------------- MODULE Datagrams ------------------------------
(* The datagrams of a channel that the program does not descramble: the     *)
(* main thread collects its packets (buffer_func) and, when no other packet *)
(* fits, sends them with the RTP header or without (send_func, rtp.c).      *)
(* A packet is its number in the order of arrival; the timestamps of RTP,   *)
(* the statistics and what the unicast clients make of it are left out.     *)
EXTENDS Integers, Sequences

CONSTANTS
    MaxPackets,          \* bound on the packets that come
    TS_PACKET_SIZE, RTP_HEADER_LEN, MAX_UDP_SIZE,
    SequenceNumbers      \* how many RTP has: 2^16

\* A packet and the RTP header fit in a datagram: 188, 12 and 1350 bytes.
SizesAssumption ==
    /\ MaxPackets \in Nat /\ SequenceNumbers \in Nat \ {0}
    /\ TS_PACKET_SIZE \in Nat \ {0} /\ RTP_HEADER_LEN \in Nat /\ MAX_UDP_SIZE \in Nat
    /\ RTP_HEADER_LEN + TS_PACKET_SIZE <= MAX_UDP_SIZE

VARIABLES
    net_options,         \* multicast, rtp_header and dont_send_scrambled
    dg_ready,            \* the channel is READY
    rtp,                 \* channel->rtp
    socketOut,           \* a multicast socket of the channel is open
    nb_bytes,            \* of the buffer
    buffer,              \* the packets in it
    rtp_packet_num,
    came,                \* HISTORY how many packets of the channel came
    taken,               \* HISTORY those that are to be sent
    out,                 \* HISTORY those that were sent, to whoever listens
    datagrams            \* HISTORY what left by the multicast socket

dgVars == <<net_options, dg_ready, rtp, socketOut, nb_bytes, buffer, rtp_packet_num, came,
            taken, out, datagrams>>

NoNumber == -1

TypeOK ==
    /\ net_options \in [multicast : BOOLEAN, rtp_header : BOOLEAN, dont_send_scrambled : BOOLEAN]
    /\ dg_ready \in BOOLEAN /\ rtp \in BOOLEAN /\ socketOut \in BOOLEAN
    /\ nb_bytes \in Nat /\ buffer \in Seq(Nat)
    /\ rtp_packet_num \in 0..SequenceNumbers - 1
    /\ came \in Nat /\ taken \in Seq(Nat) /\ out \in Seq(Nat)
    /\ datagrams \in Seq([number : Int, size : Nat])

\* The channel is allocated cleared.
Init ==
    /\ net_options \in [multicast : BOOLEAN, rtp_header : BOOLEAN, dont_send_scrambled : BOOLEAN]
    /\ dg_ready = FALSE /\ rtp = FALSE /\ socketOut = FALSE
    /\ nb_bytes = 0 /\ buffer = <<>> /\ rtp_packet_num = 0
    /\ came = 0 /\ taken = <<>> /\ out = <<>> /\ datagrams = <<>>

\* update_chan_net: a channel gets its socket when it is READY the first time, and keeps it.
UpdateChanNet ==
    /\ ~dg_ready /\ dg_ready' = TRUE
    /\ rtp' = IF net_options.multicast THEN net_options.rtp_header ELSE rtp
    /\ socketOut' = (socketOut \/ net_options.multicast)
    /\ UNCHANGED <<net_options, nb_bytes, buffer, rtp_packet_num, came, taken, out, datagrams>>

\* The autoconfiguration removes the channel: what is in its buffer stays there.
Remove ==
    /\ dg_ready /\ dg_ready' = FALSE
    /\ UNCHANGED <<net_options, rtp, socketOut, nb_bytes, buffer, rtp_packet_num, came, taken,
                   out, datagrams>>

-----------------------------------------------------------------------------
(* send_func, of the packets b that are n bytes long.                       *)

NextNumber == (rtp_packet_num + 1) % SequenceNumbers

\* rtp_update_sequence_number: the header gets the number, and the next one is prepared.
SendRtp(n) ==
    /\ datagrams' = Append(datagrams, [number |-> rtp_packet_num, size |-> n + RTP_HEADER_LEN])
    /\ rtp_packet_num' = NextNumber

SendPlain(n) ==
    /\ datagrams' = Append(datagrams, [number |-> NoNumber, size |-> n])
    /\ UNCHANGED rtp_packet_num

Send(b, n) ==
    /\ \/ socketOut /\ rtp /\ SendRtp(n)
       \/ socketOut /\ ~rtp /\ SendPlain(n)
       \/ ~socketOut /\ UNCHANGED <<datagrams, rtp_packet_num>>
    /\ out' = out \o b
    /\ buffer' = <<>> /\ nb_bytes' = 0

-----------------------------------------------------------------------------
(* buffer_func.                                                             *)

Header == IF rtp THEN RTP_HEADER_LEN ELSE 0
Full(n) == n + Header + TS_PACKET_SIZE > MAX_UDP_SIZE

Store(b, n) ==
    IF Full(n) THEN Send(b, n)
    ELSE /\ buffer' = b /\ nb_bytes' = n
         /\ UNCHANGED <<out, datagrams, rtp_packet_num>>

\* A scrambled packet may be left out.
Packet(scrambled) ==
    /\ dg_ready /\ came < MaxPackets
    /\ came' = came + 1
    /\ IF net_options.dont_send_scrambled /\ scrambled
       THEN /\ Store(buffer, nb_bytes)
            /\ UNCHANGED taken
       ELSE /\ Store(Append(buffer, came), nb_bytes + TS_PACKET_SIZE)
            /\ taken' = Append(taken, came)
    /\ UNCHANGED <<net_options, dg_ready, rtp, socketOut>>

Next ==
    \/ UpdateChanNet \/ Remove
    \/ \E scrambled \in BOOLEAN : Packet(scrambled)

Spec == Init /\ [][Next]_dgVars

-----------------------------------------------------------------------------
\* The buffer is never written past its end, and a datagram, with its header, is not longer
\* than MAX_UDP_SIZE, whichever packets are left out and however often the channel leaves.
NeverTooLong ==
    /\ nb_bytes + Header + TS_PACKET_SIZE <= MAX_UDP_SIZE
    /\ \A k \in 1..Len(datagrams) : datagrams[k].size <= MAX_UDP_SIZE

\* What was sent and what is in the buffer are the packets that were to be sent, in order.
NothingLost == out \o buffer = taken

\* A receiver of RTP sees the numbers follow each other, so that it finds nothing lost.
Numbered ==
    rtp => \A k \in 2..Len(datagrams) :
               datagrams[k].number = (datagrams[k - 1].number + 1) % SequenceNumbers
=============================================================================
