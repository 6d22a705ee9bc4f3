------------------------ MODULE UnicastQueue_proofs ------------------------
(***************************************************************************)
(* What unicast_data_send and its queues guarantee, for any number of      *)
(* clients, any size of the datagrams and of the queues and any timeout,   *)
(* whatever each send() takes.                                             *)
(***************************************************************************)
EXTENDS UnicastQueue, SequenceTheorems, WellFoundedInduction, TLAPS

-----------------------------------------------------------------------------
(* Induction on a set of naturals, from the least one that is not in it.   *)

LEMMA Induction ==
  ASSUME NEW S, 0 \in S, \A n \in Nat : n \in S => n + 1 \in S
  PROVE  Nat \subseteq S
<1> DEFINE T == Nat \ S
           R == OpToRel(<, Nat)
<1> SUFFICES ASSUME T # {} PROVE FALSE OBVIOUS
<1>1. IsWellFoundedOn(R, Nat) BY NatLessThanWellFounded
<1>2. T \subseteq Nat OBVIOUS
<1>3. \E x \in T : \A y \in T : <<y, x>> \notin R
  <2> HIDE DEF T, R
  <2> QED BY <1>1, <1>2, WFMin
<1>4. PICK x \in T : \A y \in T : <<y, x>> \notin R BY <1>3
<1>5. x \in Nat /\ x # 0 OBVIOUS
<1>6. x - 1 \in Nat /\ x - 1 < x /\ (x - 1) + 1 = x BY <1>5
<1>7. <<x - 1, x>> \in R BY <1>5, <1>6 DEF OpToRel
<1>8. x - 1 \in S BY <1>4, <1>6, <1>7
<1> QED BY <1>6, <1>8

-----------------------------------------------------------------------------
(* The bytes of a queue *)

Pieces == [from : Int, len : Int]

LEMMA PieceInts ==
  /\ \A p \in Pieces : p.from \in Int /\ p.len \in Int /\ End(p) \in Int
  /\ \A from, len \in Int : Piece(from, len) \in Pieces
BY DEF Pieces, Piece, End

\* f holds the sums of the first n packets
IsSum(f, pkts, n) == f[0] = 0 /\ \A i \in 1 .. n : f[i] = f[i - 1] + pkts[i].len

LEMMA SumExists ==
  ASSUME NEW pkts \in Seq(Pieces)
  PROVE  \E f \in [0 .. Len(pkts) -> Int] : IsSum(f, pkts, Len(pkts))
<1> DEFINE S == {n \in Nat : n =< Len(pkts) => \E f \in [0 .. n -> Int] : IsSum(f, pkts, n)}
<1>0. Len(pkts) \in Nat /\ \A i \in 1 .. Len(pkts) : pkts[i].len \in Int
  <2>1. Len(pkts) \in Nat /\ \A i \in 1 .. Len(pkts) : pkts[i] \in Pieces
    BY LenProperties, ElementOfSeq
  <2> QED BY <2>1, PieceInts
<1>1. 0 \in S
  <2>1. [i \in 0 .. 0 |-> 0] \in [0 .. 0 -> Int] /\ IsSum([i \in 0 .. 0 |-> 0], pkts, 0)
    BY DEF IsSum
  <2> QED BY <2>1
<1>2. ASSUME NEW n \in Nat, n \in S PROVE n + 1 \in S
  <2> SUFFICES ASSUME n + 1 =< Len(pkts)
               PROVE  \E f \in [0 .. n + 1 -> Int] : IsSum(f, pkts, n + 1)
    OBVIOUS
  <2>1. PICK f \in [0 .. n -> Int] : IsSum(f, pkts, n) BY <1>0, <1>2
  <2> DEFINE g == [i \in 0 .. n + 1 |-> IF i = n + 1 THEN f[n] + pkts[n + 1].len ELSE f[i]]
  <2>2. f[n] \in Int /\ pkts[n + 1].len \in Int BY <1>0
  <2>3. g \in [0 .. n + 1 -> Int] BY <2>2
  <2>4. g[0] = 0 BY <2>1 DEF IsSum
  <2>5. ASSUME NEW i \in 1 .. n + 1 PROVE g[i] = g[i - 1] + pkts[i].len
    <3>1. i - 1 \in 0 .. n /\ g[i - 1] = f[i - 1] OBVIOUS
    <3>2. CASE i = n + 1
      <4>1. g[i] = f[n] + pkts[n + 1].len /\ i - 1 = n BY <3>2
      <4> QED BY <3>1, <3>2, <4>1
    <3>3. CASE i # n + 1
      <4>1. i \in 1 .. n /\ g[i] = f[i] BY <3>3
      <4> QED BY <2>1, <3>1, <4>1 DEF IsSum
    <3> QED BY <3>2, <3>3
  <2> QED BY <2>3, <2>4, <2>5 DEF IsSum
<1>3. Nat \subseteq S
  <2> HIDE DEF S
  <2> QED BY <1>1, <1>2, Induction
<1> QED BY <1>0, <1>3

LEMMA SumUnique ==
  ASSUME NEW pkts, NEW m \in Nat, NEW f, NEW g, IsSum(f, pkts, m), IsSum(g, pkts, m)
  PROVE  f[m] = g[m]
<1> DEFINE S == {n \in Nat : n =< m => f[n] = g[n]}
<1>1. 0 \in S BY DEF IsSum
<1>2. ASSUME NEW n \in Nat, n \in S PROVE n + 1 \in S
  <2> SUFFICES ASSUME n + 1 =< m PROVE f[n + 1] = g[n + 1] OBVIOUS
  <2>1. f[n] = g[n] /\ n + 1 \in 1 .. m /\ (n + 1) - 1 = n BY <1>2
  <2> QED BY <2>1 DEF IsSum
<1>3. Nat \subseteq S
  <2> HIDE DEF S
  <2> QED BY <1>1, <1>2, Induction
<1> QED BY <1>3

\* BytesUpTo is what its definition says, and any other sum agrees with Bytes.
LEMMA BytesIsSum ==
  ASSUME NEW pkts \in Seq(Pieces)
  PROVE  /\ IsSum(BytesUpTo(pkts), pkts, Len(pkts)) /\ Bytes(pkts) \in Int
         /\ \A i \in 0 .. Len(pkts) : BytesUpTo(pkts)[i] \in Int
         /\ \A f : IsSum(f, pkts, Len(pkts)) => Bytes(pkts) = f[Len(pkts)]
<1>1. Len(pkts) \in Nat BY LenProperties
<1>2. PICK f \in [0 .. Len(pkts) -> Int] : IsSum(f, pkts, Len(pkts)) BY SumExists
<1>3. f = [i \in 0 .. Len(pkts) |-> IF i = 0 THEN 0 ELSE f[i - 1] + pkts[i].len]
  BY <1>1, <1>2 DEF IsSum
<1>4. BytesUpTo(pkts) = [i \in 0 .. Len(pkts) |->
                           IF i = 0 THEN 0 ELSE BytesUpTo(pkts)[i - 1] + pkts[i].len]
  BY <1>3 DEF BytesUpTo
<1>5. IsSum(BytesUpTo(pkts), pkts, Len(pkts))
  <2> HIDE DEF BytesUpTo
  <2> DEFINE b == BytesUpTo(pkts)
  <2> HIDE DEF b
  <2>1. b = [i \in 0 .. Len(pkts) |-> IF i = 0 THEN 0 ELSE b[i - 1] + pkts[i].len]
    BY <1>4 DEF b
  <2>2. IsSum(b, pkts, Len(pkts)) BY <1>1, <2>1 DEF IsSum
  <2> QED BY <2>2 DEF b
<1>6. \A g : IsSum(g, pkts, Len(pkts)) => Bytes(pkts) = g[Len(pkts)]
  BY <1>1, <1>5, SumUnique DEF Bytes
<1>7. Bytes(pkts) \in Int BY <1>1, <1>2, <1>6
<1>8. ASSUME NEW i \in 0 .. Len(pkts) PROVE BytesUpTo(pkts)[i] \in Int
  <2>1. i \in Nat /\ IsSum(f, pkts, i) /\ IsSum(BytesUpTo(pkts), pkts, i)
    BY <1>1, <1>2, <1>5 DEF IsSum
  <2>2. BytesUpTo(pkts)[i] = f[i] BY <2>1, SumUnique
  <2> QED BY <2>2
<1> QED BY <1>5, <1>6, <1>7, <1>8

LEMMA BytesEmpty == Bytes(<<>>) = 0
<1>1. <<>> \in Seq(Pieces) /\ Len(<<>>) = 0 BY EmptySeq
<1>2. IsSum([i \in {0} |-> 0], <<>>, 0) BY DEF IsSum
<1> QED BY <1>1, <1>2, BytesIsSum

LEMMA BytesAppend ==
  ASSUME NEW pkts \in Seq(Pieces), NEW p \in Pieces
  PROVE  Bytes(Append(pkts, p)) = Bytes(pkts) + p.len
<1> DEFINE n == Len(pkts)
           b == BytesUpTo(pkts)
           new == Append(pkts, p)
           f == [i \in 0 .. n + 1 |-> IF i = n + 1 THEN b[n] + p.len ELSE b[i]]
<1>1. n \in Nat BY LenProperties
<1>2. /\ new \in Seq(Pieces) /\ Len(new) = n + 1 /\ new[n + 1] = p
      /\ \A i \in 1 .. n : new[i] = pkts[i]
  BY AppendProperties
<1>3. IsSum(b, pkts, n) BY BytesIsSum
<1> HIDE DEF n, b, new
<1>4. f[0] = 0 BY <1>1, <1>3 DEF IsSum
<1>5. ASSUME NEW i \in 1 .. n + 1 PROVE f[i] = f[i - 1] + new[i].len
  BY <1>1, <1>2, <1>3 DEF IsSum
<1>6. IsSum(f, new, n + 1) BY <1>4, <1>5 DEF IsSum
<1>7. Bytes(new) = f[n + 1] BY <1>2, <1>6, BytesIsSum
<1>8. f[n + 1] = b[n] + p.len BY <1>1
<1>9. Bytes(pkts) = b[n] BY DEF Bytes, b, n
<1> QED BY <1>7, <1>8, <1>9 DEF new

LEMMA BytesTail ==
  ASSUME NEW pkts \in Seq(Pieces), pkts # <<>>
  PROVE  Bytes(Tail(pkts)) = Bytes(pkts) - Head(pkts).len
<1> DEFINE n == Len(pkts)
           b == BytesUpTo(pkts)
           new == Tail(pkts)
           f == [i \in 0 .. n - 1 |-> b[i + 1] - pkts[1].len]
<1>1. n \in Nat /\ n # 0 BY EmptySeq
<1>2. /\ new \in Seq(Pieces) /\ Len(new) = n - 1 /\ pkts[1] = Head(pkts)
      /\ \A i \in 1 .. n - 1 : new[i] = pkts[i + 1]
  BY HeadTailProperties
<1>3. IsSum(b, pkts, n) BY BytesIsSum
<1>4. Head(pkts).len \in Int BY HeadTailProperties, PieceInts
<1> HIDE DEF n, b, new
<1>5. b[0] = 0 /\ b[1] = pkts[1].len BY <1>1, <1>2, <1>3, <1>4 DEF IsSum
<1>6. f[0] = 0 BY <1>1, <1>2, <1>4, <1>5
<1>7. ASSUME NEW i \in 1 .. n - 1 PROVE f[i] = f[i - 1] + new[i].len
  <2>1. i + 1 \in 1 .. n /\ b[i + 1] = b[(i + 1) - 1] + pkts[i + 1].len BY <1>1, <1>3 DEF IsSum
  <2>2. b[i] \in Int /\ pkts[i + 1].len \in Int
    <3>1. b[i] \in Int BY <1>1, BytesIsSum DEF b, n
    <3>2. pkts[i + 1] \in Pieces BY <1>1, ElementOfSeq DEF n
    <3> QED BY <3>1, <3>2, PieceInts
  <2>3. f[i] = b[i + 1] - pkts[1].len /\ f[i - 1] = b[i] - pkts[1].len BY <1>1
  <2>4. new[i].len = pkts[i + 1].len /\ (i + 1) - 1 = i BY <1>2
  <2> QED BY <1>2, <1>4, <2>1, <2>2, <2>3, <2>4
<1>8. IsSum(f, new, n - 1) BY <1>6, <1>7 DEF IsSum
<1>9. Bytes(new) = f[n - 1] BY <1>2, <1>8, BytesIsSum
<1>10. f[n - 1] = b[n] - pkts[1].len BY <1>1
<1>11. Bytes(pkts) = b[n] BY DEF Bytes, b, n
<1> QED BY <1>2, <1>9, <1>10, <1>11 DEF new

\* A sequence whose first element is replaced
LEMMA Replaced ==
  ASSUME NEW S, NEW s \in Seq(S), s # <<>>, NEW e \in S
  PROVE  /\ <<e>> \o Tail(s) \in Seq(S) /\ Len(<<e>> \o Tail(s)) = Len(s)
         /\ <<e>> \o Tail(s) # <<>>
         /\ (<<e>> \o Tail(s))[1] = e /\ Head(<<e>> \o Tail(s)) = e
         /\ Tail(<<e>> \o Tail(s)) = Tail(s)
         /\ \A i \in 2 .. Len(s) : (<<e>> \o Tail(s))[i] = s[i]
<1> DEFINE r == <<e>> \o Tail(s)
<1>1. Len(s) \in Nat \ {0} BY EmptySeq
<1>2. /\ Tail(s) \in Seq(S) /\ Len(Tail(s)) = Len(s) - 1
      /\ \A i \in 1 .. Len(s) - 1 : Tail(s)[i] = s[i + 1]
  BY HeadTailProperties
<1>3. <<e>> \in Seq(S) /\ Len(<<e>>) = 1 /\ <<e>>[1] = e OBVIOUS
<1>4. /\ r \in Seq(S) /\ Len(r) = Len(s)
      /\ \A i \in 1 .. Len(s) : r[i] = IF i =< 1 THEN <<e>>[i] ELSE Tail(s)[i - 1]
  BY <1>1, <1>2, <1>3, ConcatProperties
<1> HIDE DEF r
<1>5. r # <<>> BY <1>1, <1>4, EmptySeq
<1>6. r[1] = e BY <1>1, <1>3, <1>4
<1>7. \A i \in 2 .. Len(s) : r[i] = s[i]
  <2> SUFFICES ASSUME NEW i \in 2 .. Len(s) PROVE r[i] = s[i] OBVIOUS
  <2>1. r[i] = Tail(s)[i - 1] BY <1>1, <1>4
  <2>2. i - 1 \in 1 .. Len(s) - 1 /\ (i - 1) + 1 = i BY <1>1
  <2> QED BY <1>2, <2>1, <2>2
<1>8. Head(r) = e BY <1>4, <1>5, <1>6, HeadTailProperties
<1>9. Tail(r) = Tail(s)
  <2>1. /\ Tail(r) \in Seq(S) /\ Len(Tail(r)) = Len(r) - 1
        /\ \A i \in 1 .. Len(r) - 1 : Tail(r)[i] = r[i + 1]
    BY <1>4, <1>5, HeadTailProperties
  <2>2. \A i \in 1 .. Len(s) - 1 : Tail(r)[i] = Tail(s)[i] BY <1>1, <1>2, <1>4, <1>7, <2>1
  <2> QED BY <1>2, <1>4, <2>1, <2>2, SeqEqual
<1> QED BY <1>4, <1>5, <1>6, <1>7, <1>8, <1>9 DEF r

LEMMA BytesReplaced ==
  ASSUME NEW pkts \in Seq(Pieces), pkts # <<>>, NEW p \in Pieces
  PROVE  Bytes(<<p>> \o Tail(pkts)) = Bytes(pkts) - Head(pkts).len + p.len
<1> DEFINE r == <<p>> \o Tail(pkts)
<1>1. r \in Seq(Pieces) /\ r # <<>> /\ Head(r) = p /\ Tail(r) = Tail(pkts) BY Replaced
<1> HIDE DEF r
<1>2. /\ Bytes(Tail(r)) = Bytes(r) - p.len
      /\ Bytes(Tail(pkts)) = Bytes(pkts) - Head(pkts).len
  BY <1>1, BytesTail
<1>3. Bytes(r) \in Int /\ Bytes(pkts) \in Int BY <1>1, BytesIsSum
<1>4. p.len \in Int /\ Head(pkts).len \in Int
  <2>1. Head(pkts) \in Pieces BY HeadTailProperties
  <2> QED BY <2>1, PieceInts
<1>5. Bytes(r) = Bytes(pkts) - Head(pkts).len + p.len
  <2>1. Bytes(r) - p.len = Bytes(pkts) - Head(pkts).len BY <1>1, <1>2
  <2> QED BY <1>3, <1>4, <2>1
<1> QED BY <1>5 DEF r

-----------------------------------------------------------------------------
(* THE INVARIANT *)

Queues == [pkts : Seq(Pieces), data_bytes_in_queue : Int, full : BOOLEAN]

\* A queue counts its bytes, and none of its packets is empty.
Counted(q) ==
    /\ q \in Queues
    /\ q.data_bytes_in_queue = Bytes(q.pkts)
    /\ q.pkts # <<>> => q.data_bytes_in_queue < queue_max_size
    /\ \A i \in 1 .. Len(q.pkts) : q.pkts[i].len > 0

Types ==
    /\ flush_on_eagain \in BOOLEAN
    /\ now \in Nat /\ produced \in Nat
    /\ clients \in Seq(Clients)
    /\ queue \in [Clients -> Queues]
    /\ consecutive_errors \in [Clients -> BOOLEAN]
    /\ first_error_time \in [Clients -> Nat]
    /\ last_write_error \in [Clients -> Errors \cup {"none"}]
    /\ pc \in {"idle", "client", "send"}
    /\ actual_client \in Clients \cup {NoClient}
    /\ buffer \in Pieces /\ data_from_queue \in BOOLEAN /\ packets_left \in 0 .. MultipleSend
    /\ got \in [Clients -> Int]
    /\ lost \in [Clients -> SUBSET {"full", "flushed", "requeued", "skipped"}]
    /\ last_whole \in [Clients -> Nat]
    /\ served \in SUBSET Clients /\ backlog \in Nat

AllCounted == \A c \in Clients : Counted(queue[c])

\* A client in error has failed since it last took all it was sent.
ErrorsDated ==
    \A c \in Clients :
        /\ last_whole[c] =< now
        /\ consecutive_errors[c] => first_error_time[c] >= last_whole[c]
        /\ last_write_error[c] # "none" => consecutive_errors[c]

\* The k-th client of the channel is being served: the ones before it have been, but for
\* the one that was skipped, and the ones after it have not.
ServingAt(k) ==
    /\ k \in 1 .. Len(clients) /\ clients[k] = actual_client
    /\ \A j \in 1 .. k - 1 : clients[j] \in served \/ lost[clients[j]] # {}
    /\ \A j \in k + 1 .. Len(clients) : clients[j] \notin served
    /\ (pc = "send") <=> (actual_client \in served)

Loop ==
    /\ \A i, j \in 1 .. Len(clients) : clients[i] = clients[j] => i = j
    /\ \E n \in Nat : produced = n * DatagramSize
    /\ pc # "idle" => produced >= DatagramSize /\ \E k \in 1 .. Len(clients) : ServingAt(k)

\* What send() is given, and how much of the backlog is left to this call
Sending ==
    LET q == queue[actual_client] IN
    pc = "send" =>
        /\ ~ data_from_queue => q.pkts = <<>> /\ buffer = Fresh /\ packets_left = 1
        /\ data_from_queue =>
              /\ q.pkts # <<>> /\ buffer = Head(q.pkts) /\ packets_left >= 1
              /\ Len(q.pkts) =< backlog + 1 - (MultipleSend - packets_left)

\* The last byte of what a client got, or was queued for it, when nothing is missing
Top(c) ==
    IF \/ pc = "idle"
       \/ c \in served /\ ~ (pc = "send" /\ c = actual_client /\ ~ data_from_queue)
    THEN produced ELSE produced - DatagramSize

\* The last byte before the (i+1)-th packet
Before(b, pkts, i) == IF i = 0 THEN b ELSE End(pkts[i])

\* After the byte b, the packets come in order, up to top.
Chain(b, pkts, top) ==
    /\ \A i \in 1 .. Len(pkts) : pkts[i].from > Before(b, pkts, i - 1)
    /\ \A i \in 0 .. Len(pkts) : Before(b, pkts, i) =< top

\* They do without a hole.
Whole(b, pkts, top) ==
    /\ \A i \in 1 .. Len(pkts) : pkts[i].from = Before(b, pkts, i - 1) + 1
    /\ Before(b, pkts, Len(pkts)) = top

\* A client that was refused everything, and has an empty queue, has lost a byte.
Stream(c) ==
    LET pkts == queue[c].pkts IN
    /\ Chain(got[c], pkts, Top(c))
    /\ lost[c] = {} => Whole(got[c], pkts, Top(c))
    /\ pkts = <<>> /\ last_write_error[c] # "none" => got[c] < Top(c)

\* Two datagrams fit in a queue, and it is not flushed.
Roomy == ~ flush_on_eagain /\ 2 * DatagramSize < queue_max_size

InDatagram(piece) ==
    piece.len =< DatagramSize /\ DatagramOf(piece.from) = DatagramOf(End(piece))

\* Then the same error never comes twice with an empty queue.
Aligned(c) ==
    Roomy =>
        /\ \A i \in 1 .. Len(queue[c].pkts) : InDatagram(queue[c].pkts[i])
        /\ queue[c].pkts = <<>> => last_write_error[c] = "none"
        /\ pc = "send" /\ c = actual_client /\ data_from_queue =>
              IF packets_left = MultipleSend THEN Len(queue[c].pkts) >= 2
              ELSE last_write_error[c] = "none"

Streams == \A c \in Connected : Stream(c) /\ Aligned(c)

IInv == Types /\ AllCounted /\ ErrorsDated /\ Loop /\ Sending /\ Streams

-----------------------------------------------------------------------------
(* The operations on a queue keep it counted.                              *)

LEMMA QueueFields ==
  ASSUME NEW q \in Queues
  PROVE  /\ q.pkts \in Seq(Pieces) /\ q.data_bytes_in_queue \in Int /\ q.full \in BOOLEAN
         /\ Len(q.pkts) \in Nat /\ (q.pkts # <<>> <=> Len(q.pkts) >= 1)
         /\ \A i \in 1 .. Len(q.pkts) : q.pkts[i] \in Pieces
<1>1. q.pkts \in Seq(Pieces) /\ q.data_bytes_in_queue \in Int /\ q.full \in BOOLEAN
  BY DEF Queues
<1>2. Len(q.pkts) \in Nat /\ (q.pkts # <<>> <=> Len(q.pkts) >= 1) BY <1>1, EmptySeq
<1> QED BY <1>1, <1>2, ElementOfSeq

LEMMA QueueExcept ==
  ASSUME NEW q \in Queues, NEW pkts \in Seq(Pieces), NEW n \in Int
  PROVE  [q EXCEPT !.pkts = pkts, !.data_bytes_in_queue = n] \in Queues
BY DEF Queues

LEMMA AddedCounted ==
  ASSUME NEW q, Counted(q), NEW p \in Pieces, p.len > 0, HasRoom(q, p.len)
  PROVE  /\ Counted(Added(q, p)) /\ Added(q, p).pkts = Append(q.pkts, p)
         /\ Added(q, p).pkts # <<>>
<1>1. q \in Queues /\ q.data_bytes_in_queue = Bytes(q.pkts) /\ p.len \in Int
  BY PieceInts DEF Counted
<1>2. q.pkts \in Seq(Pieces) /\ q.data_bytes_in_queue \in Int BY <1>1, QueueFields
<1>3. /\ Added(q, p).pkts = Append(q.pkts, p)
      /\ Added(q, p).data_bytes_in_queue = q.data_bytes_in_queue + p.len
      /\ Added(q, p).full = q.full
  BY <1>1 DEF Added, Queues
<1>4. /\ Append(q.pkts, p) \in Seq(Pieces) /\ Append(q.pkts, p) # <<>>
      /\ Len(Append(q.pkts, p)) = Len(q.pkts) + 1
      /\ \A i \in 1 .. Len(q.pkts) : Append(q.pkts, p)[i] = q.pkts[i]
      /\ Append(q.pkts, p)[Len(q.pkts) + 1] = p /\ Len(q.pkts) \in Nat
  BY <1>2, AppendProperties, LenProperties
<1>5. Added(q, p) \in Queues
  <2>1. q.data_bytes_in_queue + p.len \in Int BY <1>1, <1>2
  <2>2. [q EXCEPT !.pkts = Append(q.pkts, p),
                  !.data_bytes_in_queue = q.data_bytes_in_queue + p.len] \in Queues
    BY <1>1, <1>4, <2>1, QueueExcept
  <2> QED BY <2>2 DEF Added
<1>6. Added(q, p).data_bytes_in_queue < queue_max_size BY <1>3 DEF HasRoom
<1>7. Bytes(Append(q.pkts, p)) = Bytes(q.pkts) + p.len BY <1>2, BytesAppend
<1>8. \A i \in 1 .. Len(Append(q.pkts, p)) : Append(q.pkts, p)[i].len > 0
  BY <1>4 DEF Counted
<1> QED BY <1>1, <1>3, <1>4, <1>5, <1>6, <1>7, <1>8 DEF Counted

LEMMA RemovedCounted ==
  ASSUME NEW q, Counted(q), q.pkts # <<>>
  PROVE  /\ Counted(Removed(q)) /\ Removed(q).pkts = Tail(q.pkts)
         /\ Removed(q).data_bytes_in_queue = q.data_bytes_in_queue - Head(q.pkts).len
<1>1. q \in Queues /\ q.data_bytes_in_queue = Bytes(q.pkts) BY DEF Counted
<1>2. q.pkts \in Seq(Pieces) /\ q.data_bytes_in_queue \in Int /\ Len(q.pkts) \in Nat
      /\ Len(q.pkts) >= 1
  BY <1>1, QueueFields
<1>3. /\ Removed(q).pkts = Tail(q.pkts) /\ Removed(q).full = FALSE
      /\ Removed(q).data_bytes_in_queue = q.data_bytes_in_queue - Head(q.pkts).len
  BY DEF Removed
<1>4. /\ Head(q.pkts) \in Pieces /\ Head(q.pkts) = q.pkts[1] /\ Tail(q.pkts) \in Seq(Pieces)
      /\ Len(Tail(q.pkts)) = Len(q.pkts) - 1
      /\ \A i \in 1 .. Len(Tail(q.pkts)) : Tail(q.pkts)[i] = q.pkts[i + 1]
  BY <1>2, HeadTailProperties
<1>5. Head(q.pkts).len \in Int /\ Head(q.pkts).len > 0
  <2>1. 1 \in 1 .. Len(q.pkts) BY <1>2
  <2> QED BY <1>4, <2>1, PieceInts DEF Counted
<1>6. Removed(q) \in Queues BY <1>2, <1>4, <1>5 DEF Removed, Queues
<1>7. Removed(q).data_bytes_in_queue < queue_max_size
  <2>1. q.data_bytes_in_queue < queue_max_size BY DEF Counted
  <2> QED BY <1>2, <1>3, <1>5, <2>1, QueueAssumption
<1>8. Bytes(Tail(q.pkts)) = Bytes(q.pkts) - Head(q.pkts).len BY <1>2, BytesTail
<1>9. \A i \in 1 .. Len(Tail(q.pkts)) : Tail(q.pkts)[i].len > 0
  BY <1>2, <1>4 DEF Counted
<1> QED BY <1>1, <1>3, <1>6, <1>7, <1>8, <1>9 DEF Counted

LEMMA RequeuedCounted ==
  ASSUME NEW q, Counted(q), q.pkts # <<>>,
         NEW p \in Pieces, p.len > 0, q.data_bytes_in_queue + p.len < queue_max_size
  PROVE  Counted(Requeued(q, p)) /\ Requeued(q, p).pkts = <<p>> \o Tail(q.pkts)
<1> DEFINE r == <<p>> \o Tail(q.pkts)
<1>1. q \in Queues /\ q.data_bytes_in_queue = Bytes(q.pkts) /\ p.len \in Int
  BY PieceInts DEF Counted
<1>2. q.pkts \in Seq(Pieces) /\ q.data_bytes_in_queue \in Int /\ Len(q.pkts) \in Nat
      /\ Len(q.pkts) >= 1
  BY <1>1, QueueFields
<1>3. /\ r \in Seq(Pieces) /\ Len(r) = Len(q.pkts) /\ r[1] = p
      /\ \A i \in 2 .. Len(q.pkts) : r[i] = q.pkts[i]
  BY <1>2, Replaced
<1>4. Bytes(r) = Bytes(q.pkts) - Head(q.pkts).len + p.len BY <1>2, BytesReplaced
<1>5. /\ Requeued(q, p).pkts = r /\ Requeued(q, p).full = q.full
      /\ Requeued(q, p).data_bytes_in_queue = q.data_bytes_in_queue - Head(q.pkts).len + p.len
  BY <1>1 DEF Requeued, Queues
<1> HIDE DEF r
<1>6. Head(q.pkts).len \in Int /\ Head(q.pkts).len > 0
  <2>1. Head(q.pkts) = q.pkts[1] /\ Head(q.pkts) \in Pieces BY <1>2, HeadTailProperties
  <2>2. 1 \in 1 .. Len(q.pkts) BY <1>2
  <2> QED BY <2>1, <2>2, PieceInts DEF Counted
<1>7. Requeued(q, p) \in Queues
  <2>1. q.data_bytes_in_queue - Head(q.pkts).len + p.len \in Int BY <1>1, <1>2, <1>6
  <2> QED BY <1>1, <1>3, <2>1 DEF Requeued, Queues, r
<1>8. Requeued(q, p).data_bytes_in_queue < queue_max_size
  BY <1>1, <1>2, <1>5, <1>6, QueueAssumption
<1>9. \A i \in 1 .. Len(r) : r[i].len > 0
  <2> SUFFICES ASSUME NEW i \in 1 .. Len(r) PROVE r[i].len > 0 OBVIOUS
  <2>1. CASE i = 1 BY <1>3, <2>1
  <2>2. CASE i # 1
    <3>1. i \in 2 .. Len(q.pkts) /\ r[i] = q.pkts[i] BY <1>2, <1>3, <2>2
    <3> QED BY <3>1 DEF Counted
  <2> QED BY <2>1, <2>2
<1> QED BY <1>1, <1>4, <1>5, <1>7, <1>8, <1>9 DEF Counted, r

LEMMA EmptyCounted ==
  \A q : q.pkts = <<>> /\ q.full \in BOOLEAN /\ q.data_bytes_in_queue = 0 /\ q \in Queues
         => Counted(q)
<1>1. \A i \in 1 .. Len(<<>>) : FALSE BY EmptySeq
<1> QED BY <1>1, BytesEmpty DEF Counted

LEMMA ClearedCounted ==
  ASSUME NEW q, Counted(q)
  PROVE  Counted(Cleared(q)) /\ Cleared(q).pkts = <<>>
<1>1. CASE q.pkts = <<>> BY <1>1 DEF Cleared
<1>2. CASE q.pkts # <<>>
  <2>1. q.data_bytes_in_queue - Bytes(q.pkts) = 0
    <3>1. q.data_bytes_in_queue = Bytes(q.pkts) /\ q.data_bytes_in_queue \in Int
      BY QueueFields DEF Counted
    <3> QED BY <3>1
  <2>2. Cleared(q) = [pkts |-> <<>>, full |-> FALSE, data_bytes_in_queue |-> 0]
    BY <1>2, <2>1 DEF Cleared
  <2>3. Cleared(q) \in Queues BY <2>2, EmptySeq DEF Queues
  <2>4. Cleared(q).pkts = <<>> /\ Cleared(q).full = FALSE /\ Cleared(q).data_bytes_in_queue = 0
    BY <2>2
  <2> QED BY <2>3, <2>4, EmptyCounted
<1> QED BY <1>1, <1>2

-----------------------------------------------------------------------------
(* The operations on a queue keep its packets in order.                    *)

LEMMA EmptyChain ==
  ASSUME NEW b \in Int, NEW top \in Int
  PROVE  /\ b =< top => Chain(b, <<>>, top)
         /\ b = top => Whole(b, <<>>, top)
         /\ Chain(b, <<>>, top) => b =< top
         /\ Whole(b, <<>>, top) => b = top
<1>1. Len(<<>>) = 0 BY EmptySeq
<1> QED BY <1>1 DEF Chain, Whole, Before

LEMMA AppendChain ==
  ASSUME NEW b \in Int, NEW s \in Seq(Pieces), NEW p \in Pieces, p.len > 0,
         NEW top \in Int, NEW t \in Int, Chain(b, s, top), top =< t, p.from > top, End(p) =< t
  PROVE  /\ Chain(b, Append(s, p), t)
         /\ Whole(b, s, top) /\ p.from = top + 1 /\ End(p) = t => Whole(b, Append(s, p), t)
<1> DEFINE r == Append(s, p)
           n == Len(s)
<1>1. /\ n \in Nat /\ Len(r) = n + 1 /\ r[n + 1] = p
      /\ \A i \in 1 .. n : r[i] = s[i] /\ s[i] \in Pieces
  BY LenProperties, AppendProperties, ElementOfSeq
<1>2. p.from \in Int /\ End(p) \in Int /\ \A i \in 1 .. n : s[i].from \in Int /\ End(s[i]) \in Int
  BY <1>1, PieceInts
<1> HIDE DEF r, n
<1>3. \A i \in 0 .. n : Before(b, r, i) = Before(b, s, i) /\ Before(b, s, i) \in Int
  BY <1>1, <1>2 DEF Before
<1>4. Before(b, r, n + 1) = End(p) BY <1>1 DEF Before
<1>5. ASSUME NEW i \in 1 .. n + 1 PROVE r[i].from > Before(b, r, i - 1)
  <2>1. CASE i = n + 1 BY <1>1, <1>2, <1>3, <2>1 DEF Chain, n
  <2>2. CASE i # n + 1
    <3>1. i \in 1 .. n /\ i - 1 \in 0 .. n BY <1>1, <2>2
    <3> QED BY <1>1, <1>3, <3>1 DEF Chain, n
  <2> QED BY <2>1, <2>2
<1>6. ASSUME NEW i \in 0 .. n + 1 PROVE Before(b, r, i) =< t
  <2>1. CASE i = n + 1 BY <1>4, <2>1
  <2>2. CASE i # n + 1
    <3>1. i \in 0 .. n BY <1>1, <2>2
    <3>2. Before(b, s, i) =< top BY <3>1 DEF Chain, n
    <3> QED BY <1>3, <3>1, <3>2
  <2> QED BY <2>1, <2>2
<1>7. Chain(b, r, t) BY <1>1, <1>5, <1>6 DEF Chain
<1>8. ASSUME Whole(b, s, top), p.from = top + 1, End(p) = t PROVE Whole(b, r, t)
  <2>1. ASSUME NEW i \in 1 .. n + 1 PROVE r[i].from = Before(b, r, i - 1) + 1
    <3>1. CASE i = n + 1 BY <1>1, <1>3, <1>8, <3>1 DEF Whole, n
    <3>2. CASE i # n + 1
      <4>1. i \in 1 .. n /\ i - 1 \in 0 .. n BY <1>1, <3>2
      <4> QED BY <1>1, <1>3, <1>8, <4>1 DEF Whole, n
    <3> QED BY <3>1, <3>2
  <2> QED BY <1>1, <1>4, <1>8, <2>1 DEF Whole
<1> QED BY <1>7, <1>8 DEF r

LEMMA TailChain ==
  ASSUME NEW b \in Int, NEW s \in Seq(Pieces), s # <<>>, NEW top \in Int, Chain(b, s, top)
  PROVE  /\ Chain(End(Head(s)), Tail(s), top)
         /\ Whole(b, s, top) => Whole(End(Head(s)), Tail(s), top)
<1> DEFINE r == Tail(s)
           n == Len(s)
           h == End(Head(s))
<1>1. /\ n \in Nat /\ n >= 1 /\ Len(r) = n - 1 /\ Head(s) = s[1]
      /\ \A i \in 1 .. n - 1 : r[i] = s[i + 1]
  BY EmptySeq, HeadTailProperties
<1> HIDE DEF r, n
<1>2. ASSUME NEW i \in 0 .. n - 1 PROVE Before(h, r, i) = Before(b, s, i + 1)
  BY <1>1 DEF Before, n
<1> HIDE DEF h
<1>3. ASSUME NEW i \in 1 .. n - 1 PROVE r[i].from > Before(h, r, i - 1)
  <2>1. i + 1 \in 1 .. n /\ i - 1 \in 0 .. n - 1 /\ (i - 1) + 1 = (i + 1) - 1 BY <1>1
  <2>2. s[i + 1].from > Before(b, s, (i + 1) - 1) BY <2>1 DEF Chain, n
  <2> QED BY <1>1, <1>2, <2>1, <2>2
<1>4. ASSUME NEW i \in 0 .. n - 1 PROVE Before(h, r, i) =< top
  <2>1. i + 1 \in 0 .. n BY <1>1
  <2> QED BY <1>2, <2>1 DEF Chain, n
<1>5. Chain(h, r, top) BY <1>1, <1>3, <1>4 DEF Chain
<1>6. ASSUME Whole(b, s, top) PROVE Whole(h, r, top)
  <2>1. ASSUME NEW i \in 1 .. n - 1 PROVE r[i].from = Before(h, r, i - 1) + 1
    <3>1. i + 1 \in 1 .. n /\ i - 1 \in 0 .. n - 1 /\ (i - 1) + 1 = (i + 1) - 1 BY <1>1
    <3>2. s[i + 1].from = Before(b, s, (i + 1) - 1) + 1 BY <1>6, <3>1 DEF Whole, n
    <3> QED BY <1>1, <1>2, <3>1, <3>2
  <2>2. n - 1 \in 0 .. n - 1 /\ (n - 1) + 1 = n BY <1>1
  <2>3. Before(h, r, n - 1) = top BY <1>2, <1>6, <2>2 DEF Whole, n
  <2> QED BY <1>1, <2>1, <2>3 DEF Whole
<1> QED BY <1>5, <1>6 DEF r, h

\* unicast_queue_requeue: the rest of the packet before s takes the place of the first of s.
LEMMA ReplacedChain ==
  ASSUME NEW b \in Int, NEW s \in Seq(Pieces), s # <<>>, NEW p \in Pieces, NEW top \in Int,
         Chain(b, s, top), End(p) = b, p.len > 0, s[1].len > 0
  PROVE  Chain(p.from - 1, <<p>> \o Tail(s), top)
<1> DEFINE r == <<p>> \o Tail(s)
           n == Len(s)
           c == p.from - 1
<1>1. /\ n \in Nat /\ n >= 1 /\ Len(r) = n /\ r[1] = p
      /\ \A i \in 2 .. n : r[i] = s[i]
      /\ \A i \in 1 .. n : s[i] \in Pieces
  BY EmptySeq, Replaced, ElementOfSeq
<1>2. /\ p.from \in Int /\ p.len \in Int /\ c < End(p) /\ c < p.from
  <2>1. p.from \in Int /\ p.len \in Int BY PieceInts
  <2> QED BY <2>1 DEF End
<1>3. \A i \in 1 .. n : s[i].from \in Int /\ s[i].len \in Int /\ End(s[i]) \in Int
  BY <1>1, PieceInts
<1> HIDE DEF r, n, c
<1>4. s[1].from > b /\ End(s[1]) > b
  <2>1. s[1].from > Before(b, s, 1 - 1) BY <1>1 DEF Chain, n
  <2>2. s[1].from > b BY <2>1 DEF Before
  <2>3. s[1].from \in Int /\ s[1].len \in Int BY <1>1, <1>3
  <2> QED BY <2>2, <2>3 DEF End
<1>5. ASSUME NEW i \in 1 .. n PROVE r[i].from > Before(c, r, i - 1)
  <2>1. CASE i = 1 BY <1>1, <1>2, <2>1 DEF Before
  <2>2. CASE i = 2
    <3>1. s[2].from > End(s[1]) BY <2>2 DEF Chain, Before, n
    <3>2. s[2].from > End(p) BY <1>1, <1>3, <1>4, <2>2, <3>1
    <3> QED BY <1>1, <2>2, <3>2 DEF Before
  <2>3. CASE i > 2
    <3>1. i \in 2 .. n /\ i - 1 \in 2 .. n /\ i - 1 # 0 BY <1>1, <2>3
    <3> QED BY <1>1, <3>1 DEF Chain, Before, n
  <2> QED BY <1>1, <2>1, <2>2, <2>3
<1>6. ASSUME NEW i \in 0 .. n PROVE Before(c, r, i) =< top
  <2>1. b =< top BY <1>1 DEF Chain, Before, n
  <2>2. c \in Int BY <1>2 DEF c
  <2>3. CASE i = 0
    <3>1. End(p) \in Int BY PieceInts
    <3>2. c =< top BY <1>2, <2>1, <2>2, <3>1
    <3> QED BY <2>3, <3>2 DEF Before
  <2>4. CASE i = 1 BY <1>1, <2>1, <2>4 DEF Before
  <2>5. CASE i > 1
    <3>1. i \in 2 .. n /\ i # 0 BY <1>1, <2>5
    <3> QED BY <1>1, <3>1 DEF Chain, Before, n
  <2> QED BY <1>1, <2>3, <2>4, <2>5
<1>7. Chain(c, r, top) BY <1>1, <1>5, <1>6 DEF Chain
<1> QED BY <1>7 DEF r, c

LEMMA LaterChain ==
  ASSUME NEW b \in Int, NEW s \in Seq(Pieces), NEW top \in Int, NEW t \in Int,
         Chain(b, s, top), top =< t
  PROVE  Chain(b, s, t)
<1>1. Len(s) \in Nat /\ \A i \in 1 .. Len(s) : s[i] \in Pieces BY LenProperties, ElementOfSeq
<1>2. ASSUME NEW i \in 0 .. Len(s) PROVE Before(b, s, i) =< t
  <2>1. Before(b, s, i) =< top BY DEF Chain
  <2>2. Before(b, s, i) \in Int
    <3>1. CASE i = 0 BY <3>1 DEF Before
    <3>2. CASE i # 0
      <4>1. s[i] \in Pieces BY <1>1, <3>2
      <4> QED BY <3>2, <4>1, PieceInts DEF Before
    <3> QED BY <3>1, <3>2
  <2> QED BY <2>1, <2>2
<1> QED BY <1>2 DEF Chain

-----------------------------------------------------------------------------
(* The list of the channel's clients, and the loop on it                   *)

Distinct == \A i, j \in 1 .. Len(clients) : clients[i] = clients[j] => i = j

LEMMA ListRemoved ==
  ASSUME NEW S, NEW s \in Seq(S), NEW k \in 1 .. Len(s)
  PROVE  /\ RemoveAt(s, k) \in Seq(S) /\ Len(RemoveAt(s, k)) = Len(s) - 1
         /\ \A j \in 1 .. Len(s) - 1 : RemoveAt(s, k)[j] = IF j < k THEN s[j] ELSE s[j + 1]
<1> DEFINE a == SubSeq(s, 1, k - 1)
           b == SubSeq(s, k + 1, Len(s))
<1>1. Len(s) \in Nat /\ \A i \in 1 .. Len(s) : s[i] \in S BY LenProperties, ElementOfSeq
<1>2. /\ a \in Seq(S) /\ Len(a) = k - 1
      /\ \A i \in 1 .. k - 1 : a[i] = s[i]
  <2>1. \A i \in 1 .. k - 1 : s[i] \in S BY <1>1
  <2>2. k - 1 \in Int /\ 1 \in Int BY <1>1
  <2> QED BY <2>1, <2>2, SubSeqProperties
<1>3. /\ b \in Seq(S) /\ Len(b) = Len(s) - k
      /\ \A i \in 1 .. Len(s) - k : b[i] = s[k + i]
  <2>1. \A i \in k + 1 .. Len(s) : s[i] \in S BY <1>1
  <2>2. k + 1 \in Int /\ Len(s) \in Int BY <1>1
  <2>3. /\ b \in Seq(S) /\ Len(b) = IF k + 1 =< Len(s) THEN Len(s) - (k + 1) + 1 ELSE 0
        /\ \A i \in 1 .. Len(s) - (k + 1) + 1 : b[i] = s[(k + 1) + i - 1]
    BY <2>1, <2>2, SubSeqProperties
  <2>4. \A i \in 1 .. Len(s) - k : b[i] = s[k + i]
    <3> SUFFICES ASSUME NEW i \in 1 .. Len(s) - k PROVE b[i] = s[k + i] OBVIOUS
    <3>1. i \in 1 .. Len(s) - (k + 1) + 1 /\ (k + 1) + i - 1 = k + i BY <1>1
    <3> QED BY <2>3, <3>1
  <2> QED BY <1>1, <2>3, <2>4
<1> DEFINE r == a \o b
<1> HIDE DEF a, b
<1>4. /\ r \in Seq(S) /\ Len(r) = Len(s) - 1
      /\ \A i \in 1 .. Len(s) - 1 : r[i] = IF i =< k - 1 THEN a[i] ELSE b[i - (k - 1)]
  BY <1>1, <1>2, <1>3, ConcatProperties
<1> HIDE DEF r
<1>5. ASSUME NEW j \in 1 .. Len(s) - 1 PROVE r[j] = IF j < k THEN s[j] ELSE s[j + 1]
  <2>1. CASE j < k BY <1>1, <1>2, <1>4, <2>1
  <2>2. CASE ~ (j < k)
    <3>1. j - (k - 1) \in 1 .. Len(s) - k /\ k + (j - (k - 1)) = j + 1 BY <1>1, <2>2
    <3>2. r[j] = b[j - (k - 1)] BY <1>1, <1>4, <2>2
    <3> QED BY <1>3, <2>2, <3>1, <3>2
  <2> QED BY <2>1, <2>2
<1>6. RemoveAt(s, k) = r BY DEF RemoveAt, r, a, b
<1> QED BY <1>4, <1>5, <1>6

LEMMA ListProperties ==
  ASSUME NEW list \in Seq(Clients)
  PROVE  /\ Len(list) \in Nat /\ DOMAIN list = 1 .. Len(list)
         /\ \A i \in 1 .. Len(list) : list[i] \in Clients /\ list[i] # NoClient
         /\ \A c : c \in ToSet(list) <=> \E i \in 1 .. Len(list) : list[i] = c
<1>1. Len(list) \in Nat /\ DOMAIN list = 1 .. Len(list) BY LenProperties
<1>2. \A i \in 1 .. Len(list) : list[i] \in Clients BY ElementOfSeq
<1>3. ToSet(list) = {list[i] : i \in 1 .. Len(list)} BY <1>1 DEF ToSet
<1>4. \A c : c \in ToSet(list) <=> \E i \in 1 .. Len(list) : list[i] = c BY <1>3
<1> QED BY <1>1, <1>2, <1>4, QueueAssumption

LEMMA PositionIs ==
  ASSUME clients \in Seq(Clients), Distinct, NEW k \in 1 .. Len(clients)
  PROVE  /\ Position(clients[k]) = k
         /\ ChanNext(clients[k]) = IF k = Len(clients) THEN NoClient ELSE clients[k + 1]
<1>1. DOMAIN clients = 1 .. Len(clients) BY LenProperties
<1>2. Position(clients[k]) \in 1 .. Len(clients) /\ clients[Position(clients[k])] = clients[k]
  BY <1>1 DEF Position
<1>3. Position(clients[k]) = k BY <1>2 DEF Distinct
<1> QED BY <1>3 DEF ChanNext

(* The loop goes on with the m-th client of the list as it is now, or ends *)
(* when there is none.                                                     *)
Reached(m) ==
    /\ \A j \in 1 .. m - 1 : clients'[j] \in served' \/ lost'[clients'[j]] # {}
    /\ \A j \in m .. Len(clients') : clients'[j] \notin served'
    /\ GoOn(IF m = Len(clients') + 1 THEN NoClient ELSE clients'[m])

LEMMA LoopAfter ==
  ASSUME Types', Distinct', NEW n \in Nat, produced' = n * DatagramSize,
         produced' >= DatagramSize, NEW m \in 1 .. Len(clients') + 1, Reached(m)
  PROVE  /\ Loop' /\ Sending' /\ pc' \in {"idle", "client"}
         /\ \A c : Top(c)' = IF pc' = "idle" \/ c \in served' THEN produced'
                             ELSE produced' - DatagramSize
<1>1. (clients \in Seq(Clients))' BY DEF Types
<1>2. /\ Len(clients') \in Nat
      /\ \A i \in 1 .. Len(clients') : clients'[i] \in Clients /\ clients'[i] # NoClient
  BY <1>1, ListProperties
<1>3. pc' = IF m = Len(clients') + 1 THEN "idle" ELSE "client"
  BY <1>2 DEF Reached, GoOn
<1>4. ASSUME pc' # "idle" PROVE (\E k \in 1 .. Len(clients) : ServingAt(k))'
  <2>1. m \in 1 .. Len(clients') /\ actual_client' = clients'[m] BY <1>2, <1>3, <1>4 DEF Reached, GoOn
  <2>2. actual_client' \notin served' BY <2>1 DEF Reached
  <2>3. \A j \in m + 1 .. Len(clients') : clients'[j] \notin served'
    BY <1>2, <2>1 DEF Reached
  <2>4. ServingAt(m)' BY <1>3, <2>1, <2>2, <2>3 DEF Reached, ServingAt
  <2> QED BY <2>1, <2>4
<1>5. Loop' BY <1>4 DEF Loop, Distinct
<1>6. pc' \in {"idle", "client"} BY <1>3
<1>7. Sending' BY <1>6 DEF Sending
<1> QED BY <1>5, <1>6, <1>7 DEF Top

\* The clients that are not being served have got, or were queued, no less than they had.
LEMMA TopAfter ==
  ASSUME Types, Types', Loop, pc # "idle",
         produced' = produced, served' = served, Distinct',
         NEW m \in 1 .. Len(clients') + 1, Reached(m),
         NEW c \in Clients, c # actual_client, (c \in Connected)'
  PROVE  /\ Top(c) =< Top(c)' /\ Top(c) \in Int /\ Top(c)' \in Int
         /\ lost'[c] = {} => Top(c)' = Top(c)
<1>1. PICK n \in Nat : produced = n * DatagramSize BY DEF Loop
<1>2. produced >= DatagramSize BY DEF Loop
<1>3. /\ pc' \in {"idle", "client"}
      /\ Top(c)' = IF pc' = "idle" \/ c \in served' THEN produced'
                   ELSE produced' - DatagramSize
  BY <1>1, <1>2, LoopAfter
<1>4. Top(c) = IF c \in served THEN produced ELSE produced - DatagramSize
  BY DEF Top
<1>5. produced \in Nat /\ DatagramSize \in Nat BY QueueAssumption DEF Types
<1>6. ASSUME lost'[c] = {}, pc' = "idle" PROVE c \in served
  <2>1. (clients \in Seq(Clients))' BY DEF Types
  <2>2. /\ Len(clients') \in Nat
        /\ \A i \in 1 .. Len(clients') : clients'[i] # NoClient
    BY <2>1, ListProperties
  <2>3. PICK i \in 1 .. Len(clients') : clients'[i] = c BY <2>1, ListProperties DEF Connected
  <2>4. m = Len(clients') + 1 BY <1>6, <2>2 DEF Reached, GoOn
  <2>5. i \in 1 .. m - 1 BY <2>2, <2>4
  <2> QED BY <1>6, <2>3, <2>5 DEF Reached
<1> QED BY <1>3, <1>4, <1>5, <1>6

-----------------------------------------------------------------------------
(* A client that nothing happens to, although a byte may be counted lost   *)

LEMMA QueueOf ==
  ASSUME AllCounted, NEW c \in Clients
  PROVE  /\ Counted(queue[c]) /\ queue[c] \in Queues /\ queue[c].pkts \in Seq(Pieces)
         /\ queue[c].data_bytes_in_queue \in Int
         /\ Len(queue[c].pkts) \in Nat /\ (queue[c].pkts # <<>> <=> Len(queue[c].pkts) >= 1)
<1>1. Counted(queue[c]) BY DEF AllCounted
<1>2. queue[c] \in Queues BY <1>1 DEF Counted
<1> QED BY <1>1, <1>2, QueueFields

LEMMA TopInt ==
  ASSUME Types, NEW c
  PROVE  Top(c) \in Int /\ Top(c) =< produced
<1>1. produced \in Nat /\ DatagramSize \in Nat BY QueueAssumption DEF Types
<1> QED BY <1>1 DEF Top

LEMMA OtherStream ==
  ASSUME Types, AllCounted, NEW c \in Clients, Stream(c), Aligned(c),
         UNCHANGED <<flush_on_eagain, queue[c], got[c], last_write_error[c]>>,
         lost[c] \subseteq lost'[c], pc' # "send" \/ c # actual_client',
         Top(c) =< Top(c)', Top(c)' \in Int, lost'[c] = {} => Top(c)' = Top(c)
  PROVE  Stream(c)' /\ Aligned(c)'
<1>1. got[c] \in Int /\ queue[c].pkts \in Seq(Pieces) /\ Top(c) \in Int
  BY QueueOf, TopInt DEF Types
<1>2. Chain(got[c], queue[c].pkts, Top(c)') BY <1>1, LaterChain DEF Stream
<1>3. Stream(c)'
  <2>1. queue'[c] = queue[c] /\ got'[c] = got[c] /\ last_write_error'[c] = last_write_error[c]
    OBVIOUS
  <2>2. Chain(got'[c], queue'[c].pkts, Top(c)') BY <1>2, <2>1
  <2>3. lost'[c] = {} => Whole(got'[c], queue'[c].pkts, Top(c)')
    BY <2>1 DEF Stream
  <2>4. queue'[c].pkts = <<>> /\ last_write_error'[c] # "none" => got'[c] < Top(c)'
    BY <1>1, <2>1 DEF Stream
  <2> QED BY <2>2, <2>3, <2>4 DEF Stream
<1>4. Aligned(c)' BY DEF Aligned, Roomy
<1> QED BY <1>3, <1>4

-----------------------------------------------------------------------------
(* THE STEPS *)

LEMMA InitIInv == Init => IInv
<1> SUFFICES ASSUME Init PROVE IInv OBVIOUS
<1>1. EmptyQueue \in Queues /\ EmptyQueue.pkts = <<>> /\ Counted(EmptyQueue)
  <2>1. EmptyQueue \in Queues BY EmptySeq DEF EmptyQueue, Queues
  <2> QED BY <2>1, EmptyCounted DEF EmptyQueue
<1>2. clients = <<>> /\ clients \in Seq(Clients) /\ Len(clients) = 0 BY EmptySeq DEF Init
<1>3. Types
  <2>1. buffer \in Pieces BY PieceInts DEF Init
  <2>0. flush_on_eagain \in BOOLEAN BY QueueAssumption DEF Init
  <2>2. /\ now \in Nat /\ produced \in Nat
        /\ pc = "idle" /\ actual_client \in Clients \cup {NoClient}
        /\ data_from_queue \in BOOLEAN /\ packets_left = 0 /\ served = {} /\ backlog \in Nat
    BY DEF Init
  <2>3. queue \in [Clients -> Queues] BY <1>1 DEF Init
  <2>4. /\ consecutive_errors \in [Clients -> BOOLEAN]
        /\ first_error_time \in [Clients -> Nat]
        /\ last_write_error \in [Clients -> Errors \cup {"none"}]
        /\ got \in [Clients -> Int] /\ last_whole \in [Clients -> Nat]
        /\ lost \in [Clients -> SUBSET {"full", "flushed", "requeued", "skipped"}]
    BY DEF Init
  <2> QED BY <1>2, <2>0, <2>1, <2>2, <2>3, <2>4, QueueAssumption DEF Types
<1>4. AllCounted BY <1>1 DEF AllCounted, Init
<1>5. ErrorsDated BY DEF ErrorsDated, Init
<1>6. Loop
  <2>1. produced = 0 * DatagramSize BY QueueAssumption DEF Init
  <2> QED BY <1>2, <2>1 DEF Loop, Init
<1>7. Sending BY DEF Sending, Init
<1>8. Streams
  <2>1. \A c : c \in Connected <=> \E i \in 1 .. Len(clients) : clients[i] = c
    BY <1>2, ListProperties DEF Connected
  <2>2. \A c : c \notin Connected BY <1>2, <2>1
  <2> QED BY <2>2 DEF Streams
<1> QED BY <1>3, <1>4, <1>5, <1>6, <1>7, <1>8 DEF IInv

LEMMA TickIInv == IInv /\ Tick => IInv'
<1> SUFFICES ASSUME IInv, Tick PROVE IInv' OBVIOUS
<1>1. /\ now \in Nat /\ now' = now + 1
      /\ UNCHANGED <<flush_on_eagain, produced, clients, queue, consecutive_errors,
                     first_error_time, last_write_error, pc, actual_client, buffer,
                     data_from_queue, packets_left, got, lost, last_whole, served, backlog>>
  BY DEF Tick, errVars, callVars, histVars, IInv, Types
<1>2. Types' BY <1>1 DEF IInv, Types
<1>3. AllCounted' BY <1>1 DEF IInv, AllCounted
<1>4. ErrorsDated' BY <1>1 DEF IInv, ErrorsDated, Types
<1>5. Loop' BY <1>1 DEF IInv, Loop, ServingAt
<1>6. Sending' BY <1>1 DEF IInv, Sending, Fresh
<1>7. Streams' BY <1>1 DEF IInv, Streams, Stream, Aligned, Roomy, Top, Connected
<1> QED BY <1>2, <1>3, <1>4, <1>5, <1>6, <1>7 DEF IInv

LEMMA ConnectIInv == ASSUME NEW c \in Clients, IInv, Connect(c) PROVE IInv'
<1>1. /\ pc = "idle" /\ ~ Contains(clients, c) /\ clients' = Append(clients, c)
      /\ UNCHANGED <<flush_on_eagain, now, produced, pc, actual_client, buffer,
                     data_from_queue, packets_left, served, backlog>>
  BY DEF Connect, callVars
<1>2. /\ queue' = [queue EXCEPT ![c] = EmptyQueue]
      /\ consecutive_errors' = [consecutive_errors EXCEPT ![c] = FALSE]
      /\ first_error_time' = [first_error_time EXCEPT ![c] = 0]
      /\ last_write_error' = [last_write_error EXCEPT ![c] = "none"]
      /\ got' = [got EXCEPT ![c] = produced]
      /\ lost' = [lost EXCEPT ![c] = {}]
      /\ last_whole' = [last_whole EXCEPT ![c] = now]
  BY DEF Connect
<1>3. EmptyQueue \in Queues /\ EmptyQueue.pkts = <<>> /\ Counted(EmptyQueue)
  <2>1. EmptyQueue \in Queues BY EmptySeq DEF EmptyQueue, Queues
  <2> QED BY <2>1, EmptyCounted DEF EmptyQueue
<1>4. /\ clients \in Seq(Clients) /\ clients' \in Seq(Clients) /\ Len(clients) \in Nat
      /\ Len(clients') = Len(clients) + 1 /\ clients'[Len(clients) + 1] = c
      /\ \A i \in 1 .. Len(clients) : clients'[i] = clients[i]
  BY <1>1, AppendProperties, LenProperties DEF IInv, Types
<1>5. \A i \in 1 .. Len(clients) : clients[i] # c BY <1>1 DEF Contains
<1>6. Types'
  <2>1. queue' \in [Clients -> Queues] BY <1>2, <1>3 DEF IInv, Types
  <2>2. /\ consecutive_errors' \in [Clients -> BOOLEAN]
        /\ first_error_time' \in [Clients -> Nat]
        /\ last_write_error' \in [Clients -> Errors \cup {"none"}]
        /\ got' \in [Clients -> Int] /\ last_whole' \in [Clients -> Nat]
        /\ lost' \in [Clients -> SUBSET {"full", "flushed", "requeued", "skipped"}]
    BY <1>2 DEF IInv, Types
  <2> QED BY <1>1, <1>4, <2>1, <2>2 DEF IInv, Types
<1>7. AllCounted' BY <1>2, <1>3 DEF IInv, AllCounted, Types
<1>8. ErrorsDated' BY <1>1, <1>2 DEF IInv, ErrorsDated, Types
<1>9. Distinct' BY <1>4, <1>5 DEF IInv, Loop, Distinct
<1>10. Loop' BY <1>1, <1>9 DEF IInv, Loop, Distinct
<1>11. Sending' BY <1>1 DEF Sending
<1>12. \A d : Top(d) = produced /\ Top(d)' = produced BY <1>1 DEF Top
<1>13. ASSUME NEW d \in Connected' PROVE Stream(d)' /\ Aligned(d)'
  <2>1. PICK i \in 1 .. Len(clients') : clients'[i] = d BY <1>4, ListProperties DEF Connected
  <2>2. CASE d = c
    <3>1. /\ queue'[c].pkts = <<>> /\ got'[c] = produced /\ last_write_error'[c] = "none"
          /\ produced \in Int
      BY <1>2, <1>3 DEF IInv, Types
    <3>2. Chain(produced, <<>>, produced) /\ Whole(produced, <<>>, produced)
      BY <3>1, EmptyChain
    <3>3. Stream(c)' BY <1>12, <3>1, <3>2 DEF Stream
    <3>4. \A j \in 1 .. Len(queue'[c].pkts) : FALSE BY <3>1, EmptySeq
    <3>5. Aligned(c)' BY <1>1, <3>1, <3>4 DEF Aligned
    <3> QED BY <2>2, <3>3, <3>5
  <2>3. CASE d # c
    <3>1. i \in 1 .. Len(clients) /\ clients[i] = d BY <1>4, <2>1, <2>3
    <3>2. d \in Connected /\ d \in Clients BY <1>4, <3>1, ListProperties DEF Connected
    <3>3. Stream(d) /\ Aligned(d) BY <3>2 DEF IInv, Streams
    <3>4. UNCHANGED <<flush_on_eagain, queue[d], got[d], last_write_error[d], lost[d]>>
      BY <1>1, <1>2, <2>3, <3>2 DEF IInv, Types
    <3>5. produced \in Int BY DEF IInv, Types
    <3> QED BY <1>1, <1>12, <3>2, <3>3, <3>4, <3>5, OtherStream DEF IInv
  <2> QED BY <2>2, <2>3
<1>14. Streams' BY <1>13 DEF Streams
<1> QED BY <1>6, <1>7, <1>8, <1>10, <1>11, <1>14 DEF IInv

\* unicast_del_client: the others stay in their order.
LEMMA WithoutOne ==
  ASSUME clients \in Seq(Clients), Distinct, NEW k \in 1 .. Len(clients),
         clients' = Unlinked(clients[k])
  PROVE  /\ clients' \in Seq(Clients) /\ Len(clients') = Len(clients) - 1 /\ Distinct'
         /\ \A j \in 1 .. Len(clients) - 1 :
               clients'[j] = IF j < k THEN clients[j] ELSE clients[j + 1]
         /\ \A d : d \in Connected' => d \in Connected /\ d # clients[k]
<1>1. clients' = RemoveAt(clients, k) BY PositionIs DEF Unlinked
<1>2. /\ clients' \in Seq(Clients) /\ Len(clients') = Len(clients) - 1
      /\ \A j \in 1 .. Len(clients) - 1 :
            clients'[j] = IF j < k THEN clients[j] ELSE clients[j + 1]
  BY <1>1, ListRemoved
<1>3. Len(clients) \in Nat BY ListProperties
<1>4. Distinct'
  <2> SUFFICES ASSUME NEW i \in 1 .. Len(clients'), NEW j \in 1 .. Len(clients'),
                      clients'[i] = clients'[j]
               PROVE  i = j
    BY DEF Distinct
  <2> DEFINE a == IF i < k THEN i ELSE i + 1
             b == IF j < k THEN j ELSE j + 1
  <2>1. a \in 1 .. Len(clients) /\ b \in 1 .. Len(clients) BY <1>2, <1>3
  <2>2. clients[a] = clients[b] BY <1>2
  <2>3. a = b BY <2>1, <2>2 DEF Distinct
  <2> QED BY <2>3
<1>5. ASSUME NEW d, d \in Connected' PROVE d \in Connected /\ d # clients[k]
  <2>1. PICK i \in 1 .. Len(clients') : clients'[i] = d
    BY <1>2, <1>5, ListProperties DEF Connected
  <2> DEFINE a == IF i < k THEN i ELSE i + 1
  <2>2. a \in 1 .. Len(clients) /\ a # k /\ clients[a] = d BY <1>2, <1>3, <2>1
  <2>3. d \in Connected BY <2>2, ListProperties DEF Connected
  <2> QED BY <2>2, <2>3 DEF Distinct
<1> QED BY <1>2, <1>4, <1>5

LEMMA LeaveIInv == ASSUME NEW c \in Clients, IInv, Leave(c) PROVE IInv'
<1>1. /\ pc = "idle" /\ clients' = Unlinked(c)
      /\ queue' = [queue EXCEPT ![c] = Cleared(queue[c])]
      /\ UNCHANGED <<flush_on_eagain, now, produced, consecutive_errors, first_error_time,
                     last_write_error, pc, actual_client, buffer, data_from_queue,
                     packets_left, got, lost, last_whole, served, backlog>>
  BY DEF Leave, errVars, callVars, histVars
<1>2. clients \in Seq(Clients) /\ Distinct BY DEF IInv, Types, Loop, Distinct
<1>3. PICK k \in 1 .. Len(clients) : clients[k] = c BY DEF Leave, Contains
<1>4. /\ clients' \in Seq(Clients) /\ Distinct'
      /\ \A d : d \in Connected' => d \in Connected /\ d # c
  BY <1>1, <1>2, <1>3, WithoutOne
<1>5. Counted(Cleared(queue[c])) /\ Cleared(queue[c]) \in Queues
  BY ClearedCounted DEF IInv, AllCounted, Counted
<1>6. Types'
  <2>1. queue' \in [Clients -> Queues] BY <1>1, <1>5 DEF IInv, Types
  <2> QED BY <1>1, <1>4, <2>1 DEF IInv, Types
<1>7. AllCounted' BY <1>1, <1>5 DEF IInv, AllCounted, Types
<1>8. ErrorsDated' BY <1>1 DEF IInv, ErrorsDated
<1>9. Loop' BY <1>1, <1>4 DEF IInv, Loop, Distinct
<1>10. Sending' BY <1>1 DEF Sending
<1>11. \A d : Top(d) = produced /\ Top(d)' = produced BY <1>1 DEF Top
<1>12. ASSUME NEW d \in Connected' PROVE Stream(d)' /\ Aligned(d)'
  <2>1. d \in Connected /\ d # c /\ d \in Clients BY <1>2, <1>4, ListProperties DEF Connected
  <2>2. Stream(d) /\ Aligned(d) BY <2>1 DEF IInv, Streams
  <2>3. UNCHANGED <<flush_on_eagain, queue[d], got[d], last_write_error[d], lost[d]>>
    BY <1>1, <2>1 DEF IInv, Types
  <2>4. produced \in Int BY DEF IInv, Types
  <2> QED BY <1>1, <1>11, <2>1, <2>2, <2>3, <2>4, OtherStream DEF IInv
<1>13. Streams' BY <1>12 DEF Streams
<1> QED BY <1>6, <1>7, <1>8, <1>9, <1>10, <1>13 DEF IInv

LEMMA DatagramIInv == IInv /\ Datagram => IInv'
<1> SUFFICES ASSUME IInv, Datagram PROVE IInv' OBVIOUS
<1>1. /\ pc = "idle" /\ produced' = produced + DatagramSize /\ served' = {}
      /\ GoOn(IF clients = <<>> THEN NoClient ELSE Head(clients))
      /\ UNCHANGED <<flush_on_eagain, now, clients, queue, consecutive_errors,
                     first_error_time, last_write_error, got, lost, last_whole, backlog>>
  BY DEF Datagram, errVars
<1>2. /\ clients \in Seq(Clients) /\ Len(clients) \in Nat
      /\ \A i \in 1 .. Len(clients) : clients[i] \in Clients /\ clients[i] # NoClient
      /\ clients = <<>> => Len(clients) = 0
      /\ clients # <<>> => Len(clients) >= 1 /\ Head(clients) = clients[1]
  BY ListProperties, EmptySeq, HeadTailProperties DEF IInv, Types
<1>3. Reached(1)
  <2>1. GoOn(IF 1 = Len(clients) + 1 THEN NoClient ELSE clients[1]) BY <1>1, <1>2
  <2> QED BY <1>1, <2>1 DEF Reached
<1>4. Types'
  <2>1. buffer' \in Pieces BY <1>1, PieceInts DEF GoOn
  <2>2. /\ data_from_queue' = FALSE /\ packets_left' = 0
        /\ pc' \in {"idle", "client"} /\ actual_client' \in Clients \cup {NoClient}
    BY <1>1, <1>2 DEF GoOn
  <2>3. produced' \in Nat /\ 0 \in 0 .. MultipleSend BY <1>1, QueueAssumption DEF IInv, Types
  <2> QED BY <1>1, <2>1, <2>2, <2>3 DEF IInv, Types
<1>5. AllCounted' BY <1>1 DEF IInv, AllCounted
<1>6. ErrorsDated' BY <1>1 DEF IInv, ErrorsDated
<1>7. PICK n \in Nat : produced = n * DatagramSize BY DEF IInv, Loop
<1>8. produced' = (n + 1) * DatagramSize /\ produced' >= DatagramSize
  BY <1>1, <1>7, QueueAssumption DEF IInv, Types
<1>9. Distinct' BY <1>1 DEF IInv, Loop, Distinct
<1>10. /\ Loop' /\ Sending' /\ pc' \in {"idle", "client"}
       /\ \A c : Top(c)' = IF pc' = "idle" \/ c \in served' THEN produced'
                           ELSE produced' - DatagramSize
  BY <1>1, <1>2, <1>3, <1>4, <1>8, <1>9, LoopAfter
<1>11. ASSUME NEW d \in Connected' PROVE Stream(d)' /\ Aligned(d)'
  <2>1. d \in Connected /\ d \in Clients BY <1>1, <1>2, ListProperties DEF Connected
  <2>2. PICK i \in 1 .. Len(clients) : clients[i] = d BY <1>2, <2>1, ListProperties DEF Connected
  <2>3. pc' = "client" BY <1>1, <1>2, <2>2, EmptySeq DEF GoOn
  <2>4. Top(d) = produced /\ Top(d)' = produced /\ produced \in Int
    <3>1. produced \in Nat /\ DatagramSize \in Nat BY QueueAssumption DEF IInv, Types
    <3>2. Top(d) = produced BY <1>1 DEF Top
    <3>3. Top(d)' = produced' - DatagramSize BY <1>1, <1>10, <2>3
    <3> QED BY <1>1, <3>1, <3>2, <3>3
  <2>5. Stream(d) /\ Aligned(d) BY <2>1 DEF IInv, Streams
  <2> QED BY <1>1, <2>1, <2>3, <2>4, <2>5, OtherStream DEF IInv
<1>12. Streams' BY <1>11 DEF Streams
<1> QED BY <1>4, <1>5, <1>6, <1>10, <1>12 DEF IInv

-----------------------------------------------------------------------------
(* Datagrams *)

LEMMA DivIs ==
  ASSUME NEW D \in Nat \ {0}, NEW k \in Int, NEW x \in Int, k * D =< x, x < (k + 1) * D
  PROVE  x \div D = k
BY SMTT(30)

LEMMA DivBetween ==
  ASSUME NEW D \in Nat \ {0}, NEW x \in Int, NEW y \in Int, NEW z \in Int,
         x =< y, y =< z, x \div D = z \div D
  PROVE  y \div D = z \div D
BY SMTT(30)

LEMMA FreshInDatagram ==
  ASSUME produced \in Nat, NEW n \in Nat, produced = n * DatagramSize
  PROVE  /\ Fresh \in Pieces /\ Fresh.len = DatagramSize /\ Fresh.len > 0 /\ InDatagram(Fresh)
         /\ Fresh.from = produced - DatagramSize + 1 /\ End(Fresh) = produced
<1>1. DatagramSize \in Nat \ {0} BY QueueAssumption
<1>2. produced - DatagramSize + 1 \in Int BY <1>1
<1>3. /\ Fresh \in Pieces /\ Fresh.len = DatagramSize
      /\ Fresh.from = produced - DatagramSize + 1
  BY <1>1, <1>2, PieceInts DEF Fresh, Piece
<1>4. End(Fresh) = produced BY <1>1, <1>2, <1>3 DEF End
<1>5. (produced - DatagramSize) \div DatagramSize = n - 1
  <2>1. (n - 1) * DatagramSize = produced - DatagramSize BY <1>1
  <2>2. ((n - 1) + 1) * DatagramSize = produced BY <1>1
  <2> QED BY <1>1, <2>1, <2>2, DivIs
<1>6. (produced - 1) \div DatagramSize = n - 1
  <2>1. (n - 1) * DatagramSize =< produced - 1 BY <1>1
  <2>2. produced - 1 < ((n - 1) + 1) * DatagramSize BY <1>1
  <2> QED BY <1>1, <2>1, <2>2, DivIs
<1>7. DatagramOf(Fresh.from) = n - 1 /\ DatagramOf(End(Fresh)) = n - 1
  <2>1. (produced - DatagramSize + 1) - 1 = produced - DatagramSize BY <1>1
  <2> QED BY <1>3, <1>4, <1>5, <1>6, <2>1 DEF DatagramOf
<1> QED BY <1>1, <1>3, <1>4, <1>7 DEF InDatagram

\* What is left of a packet is in the same datagram.
LEMMA RestInDatagram ==
  ASSUME NEW p \in Pieces, NEW w \in Nat, w < p.len, InDatagram(p)
  PROVE  LET rest == Piece(p.from + w, p.len - w) IN
         InDatagram(rest) /\ End(rest) = End(p)
<1> DEFINE rest == Piece(p.from + w, p.len - w)
<1>1. DatagramSize \in Nat \ {0} BY QueueAssumption
<1>2. p.from \in Int /\ p.len \in Int BY PieceInts
<1>3. rest.from = p.from + w /\ rest.len = p.len - w BY DEF Piece
<1>4. End(rest) = p.from + p.len - 1 /\ End(p) = p.from + p.len - 1
  BY <1>2, <1>3 DEF End
<1>5. (p.from - 1) \div DatagramSize = (End(p) - 1) \div DatagramSize
  BY DEF InDatagram, DatagramOf
<1>6. (rest.from - 1) \div DatagramSize = (End(p) - 1) \div DatagramSize
  <2>1. /\ p.from - 1 \in Int /\ rest.from - 1 \in Int /\ End(p) - 1 \in Int
        /\ p.from - 1 =< rest.from - 1 /\ rest.from - 1 =< End(p) - 1
    BY <1>2, <1>3, <1>4
  <2> QED BY <1>1, <1>5, <2>1, DivBetween
<1>7. rest.len =< DatagramSize BY <1>1, <1>2, <1>3 DEF InDatagram
<1> QED BY <1>4, <1>3, <1>6, <1>7 DEF InDatagram, DatagramOf

LEMMA BytesOne == ASSUME NEW p \in Pieces PROVE Bytes(<<p>>) = p.len
<1>1. <<>> \in Seq(Pieces) /\ Append(<<>>, p) = <<p>> BY EmptySeq
<1>2. Bytes(Append(<<>>, p)) = Bytes(<<>>) + p.len BY <1>1, BytesAppend
<1>3. p.len \in Int BY PieceInts
<1> QED BY <1>1, <1>2, <1>3, BytesEmpty

-----------------------------------------------------------------------------
(* Choose *)

\* What IInv says of the client being served
LEMMA Serving ==
  ASSUME IInv, pc # "idle"
  PROVE  /\ clients \in Seq(Clients) /\ Len(clients) \in Nat /\ Distinct
         /\ \E k \in 1 .. Len(clients) : ServingAt(k)
         /\ actual_client \in Clients /\ actual_client \in Connected
         /\ Stream(actual_client) /\ Aligned(actual_client)
         /\ produced \in Nat /\ produced >= DatagramSize
         /\ \E n \in Nat : produced = n * DatagramSize
<1>1. clients \in Seq(Clients) /\ Distinct /\ produced \in Nat /\ produced >= DatagramSize
  BY DEF IInv, Types, Loop, Distinct
<1>2. PICK k \in 1 .. Len(clients) : ServingAt(k) BY DEF IInv, Loop
<1>3. clients[k] = actual_client BY <1>2 DEF ServingAt
<1>4. Len(clients) \in Nat /\ actual_client \in Clients /\ actual_client \in Connected
  BY <1>1, <1>3, ListProperties DEF Connected
<1>5. Stream(actual_client) /\ Aligned(actual_client) BY <1>4 DEF IInv, Streams
<1> QED BY <1>1, <1>2, <1>4, <1>5 DEF IInv, Loop

LEMMA FullCounted ==
  ASSUME NEW q, Counted(q)
  PROVE  /\ Counted([q EXCEPT !.full = TRUE]) /\ [q EXCEPT !.full = TRUE].pkts = q.pkts
<1>1. q \in Queues BY DEF Counted
<1>2. /\ [q EXCEPT !.full = TRUE] \in Queues /\ [q EXCEPT !.full = TRUE].pkts = q.pkts
      /\ [q EXCEPT !.full = TRUE].data_bytes_in_queue = q.data_bytes_in_queue
  BY <1>1 DEF Queues
<1> QED BY <1>2 DEF Counted

\* When two datagrams fit, a queue of one packet has room for one more.
LEMMA OneHasRoom ==
  ASSUME NEW q, Counted(q), Len(q.pkts) = 1, q.pkts[1].len =< DatagramSize,
         2 * DatagramSize < queue_max_size
  PROVE  HasRoom(q, DatagramSize)
<1>1. q \in Queues /\ q.data_bytes_in_queue = Bytes(q.pkts) BY DEF Counted
<1>2. q.pkts \in Seq(Pieces) /\ 1 \in 1 .. Len(q.pkts) /\ q.pkts[1] \in Pieces
  BY <1>1, QueueFields
<1>3. q.pkts = <<q.pkts[1]>>
  <2>1. <<q.pkts[1]>> \in Seq(Pieces) /\ Len(<<q.pkts[1]>>) = 1 BY <1>2
  <2>2. \A i \in 1 .. Len(q.pkts) : q.pkts[i] = <<q.pkts[1]>>[i] OBVIOUS
  <2> QED BY <1>2, <2>1, <2>2, SeqEqual
<1>4. Bytes(q.pkts) = q.pkts[1].len
  <2>1. Bytes(<<q.pkts[1]>>) = q.pkts[1].len BY <1>2, BytesOne
  <2> QED BY <1>3, <2>1
<1>5. q.pkts[1].len \in Int /\ DatagramSize \in Nat /\ queue_max_size \in Nat
  BY <1>2, PieceInts, QueueAssumption
<1> QED BY <1>1, <1>4, <1>5 DEF HasRoom

LEMMA ChooseStream ==
  ASSUME IInv, Choose, NEW c \in Clients, c = actual_client
  PROVE  /\ Stream(c)' /\ Aligned(c)' /\ Counted(queue'[c]) /\ Sending'
         /\ buffer' \in Pieces /\ data_from_queue' \in BOOLEAN
         /\ packets_left' \in 0 .. MultipleSend
<1> DEFINE q == queue[c]
           top == produced - DatagramSize
<1>1. /\ pc = "client" /\ pc' = "send" /\ served' = served \cup {c} /\ actual_client' = c
      /\ backlog' = Len(q.pkts)
      /\ UNCHANGED <<flush_on_eagain, produced, got, last_write_error>>
  BY DEF Choose, errVars
<1>2. /\ Stream(c) /\ Aligned(c) /\ produced \in Nat /\ produced >= DatagramSize
      /\ \E n \in Nat : produced = n * DatagramSize
  BY <1>1, Serving
<1>3. c \notin served /\ Top(c) = top BY <1>1 DEF IInv, Loop, ServingAt, Top
<1>4. /\ Fresh \in Pieces /\ Fresh.len = DatagramSize /\ Fresh.len > 0 /\ InDatagram(Fresh)
      /\ Fresh.from = top + 1 /\ End(Fresh) = produced
  BY <1>2, FreshInDatagram
<1>5. /\ Counted(q) /\ q \in Queues /\ q.pkts \in Seq(Pieces) /\ Len(q.pkts) \in Nat
      /\ q.pkts # <<>> <=> Len(q.pkts) >= 1
  BY QueueOf DEF IInv
<1>6. /\ got[c] \in Int /\ queue \in [Clients -> Queues] /\ top \in Int /\ top =< produced
      /\ produced \in Int
  BY <1>2, QueueAssumption DEF IInv, Types
<1>7. MultipleSend \in Nat /\ MultipleSend >= 2 BY QueueAssumption
<1>8. Fresh' = Fresh BY <1>1 DEF Fresh
<1>9. Chain(got[c], q.pkts, top) /\ (lost[c] = {} => Whole(got[c], q.pkts, top))
  BY <1>2, <1>3 DEF Stream
<1> HIDE DEF top
<1>10. CASE q.pkts = <<>>
  <2>1. /\ buffer' = Fresh /\ data_from_queue' = FALSE /\ packets_left' = 1
        /\ queue' = queue /\ lost' = lost
    BY <1>10 DEF Choose
  <2>2. Top(c)' = top BY <1>1, <2>1 DEF Top, top
  <2>3. Stream(c)' BY <1>1, <1>2, <1>3, <2>1, <2>2 DEF Stream
  <2>4. Aligned(c)' BY <1>1, <1>2, <2>1 DEF Aligned, Roomy
  <2>5. Sending' BY <1>1, <1>8, <1>10, <2>1 DEF Sending
  <2>6. Counted(queue'[c]) BY <1>5, <2>1
  <2>7. packets_left' \in 0 .. MultipleSend BY <1>7, <2>1
  <2> QED BY <1>4, <2>1, <2>3, <2>4, <2>5, <2>6, <2>7
<1>11. CASE q.pkts # <<>> /\ HasRoom(q, DatagramSize)
  <2> DEFINE a == Added(q, Fresh)
  <2>1. /\ Counted(a) /\ a.pkts = Append(q.pkts, Fresh) /\ a.pkts # <<>>
    BY <1>4, <1>5, <1>11, AddedCounted
  <2>2. /\ buffer' = Head(a.pkts) /\ data_from_queue' = TRUE /\ packets_left' = MultipleSend
        /\ queue' = [queue EXCEPT ![c] = a] /\ lost[c] \subseteq lost'[c]
    BY <1>11 DEF Choose, IInv, Types
  <2> HIDE DEF a
  <2>3. queue'[c] = a BY <1>6, <2>2
  <2>4. Top(c)' = produced BY <1>1, <2>2 DEF Top
  <2>5. /\ Chain(got[c], a.pkts, produced)
        /\ Whole(got[c], q.pkts, top) => Whole(got[c], a.pkts, produced)
    BY <1>4, <1>5, <1>6, <1>9, <2>1, AppendChain
  <2>6. Stream(c)' BY <1>1, <1>9, <2>1, <2>2, <2>3, <2>4, <2>5 DEF Stream
  <2>7. /\ Len(a.pkts) = Len(q.pkts) + 1 /\ a.pkts[Len(q.pkts) + 1] = Fresh
        /\ \A i \in 1 .. Len(q.pkts) : a.pkts[i] = q.pkts[i]
    BY <1>4, <1>5, <2>1, AppendProperties
  <2>8. Aligned(c)'
    <3> SUFFICES ASSUME Roomy
                 PROVE  /\ \A i \in 1 .. Len(a.pkts) : InDatagram(a.pkts[i])
                        /\ Len(a.pkts) >= 2
      BY <1>1, <2>1, <2>2, <2>3 DEF Aligned, Roomy
    <3>1. \A i \in 1 .. Len(q.pkts) : InDatagram(q.pkts[i]) BY <1>2 DEF Aligned
    <3>2. ASSUME NEW i \in 1 .. Len(a.pkts) PROVE InDatagram(a.pkts[i])
      <4>1. CASE i = Len(q.pkts) + 1 BY <1>4, <2>7, <4>1
      <4>2. CASE i # Len(q.pkts) + 1
        <5>1. i \in 1 .. Len(q.pkts) BY <1>5, <2>7, <4>2
        <5> QED BY <2>7, <3>1, <5>1
      <4> QED BY <4>1, <4>2
    <3>3. Len(a.pkts) >= 2 BY <1>5, <1>11, <2>7
    <3> QED BY <3>2, <3>3
  <2>9. Sending'
    <3>1. Len(a.pkts) =< backlog' + 1 - (MultipleSend - packets_left')
      BY <1>1, <1>5, <1>7, <2>2, <2>7
    <3> QED BY <1>1, <1>7, <2>1, <2>2, <2>3, <3>1 DEF Sending
  <2>10. buffer' \in Pieces
    <3>1. a.pkts \in Seq(Pieces) BY <1>4, <1>5, <2>1, AppendProperties
    <3> QED BY <2>1, <2>2, <3>1, HeadTailProperties
  <2> QED BY <1>7, <2>1, <2>2, <2>3, <2>6, <2>8, <2>9, <2>10
<1>12. CASE q.pkts # <<>> /\ ~ HasRoom(q, DatagramSize)
  <2> DEFINE a == [q EXCEPT !.full = TRUE]
  <2>1. Counted(a) /\ a.pkts = q.pkts BY <1>5, FullCounted
  <2>2. /\ buffer' = Head(q.pkts) /\ data_from_queue' = TRUE /\ packets_left' = MultipleSend
        /\ queue' = [queue EXCEPT ![c] = a] /\ "full" \in lost'[c]
    BY <1>12, <2>1 DEF Choose, IInv, Types
  <2> HIDE DEF a
  <2>3. queue'[c] = a BY <1>6, <2>2
  <2>4. Top(c)' = produced BY <1>1, <2>2 DEF Top
  <2>5. Chain(got[c], q.pkts, produced) BY <1>5, <1>6, <1>9, LaterChain
  <2>6. Stream(c)' BY <1>1, <1>12, <2>1, <2>2, <2>3, <2>4, <2>5 DEF Stream
  <2>7. Aligned(c)'
    <3> SUFFICES ASSUME Roomy
                 PROVE  /\ \A i \in 1 .. Len(q.pkts) : InDatagram(q.pkts[i])
                        /\ Len(q.pkts) >= 2
      BY <1>1, <1>12, <2>1, <2>2, <2>3 DEF Aligned, Roomy
    <3>1. \A i \in 1 .. Len(q.pkts) : InDatagram(q.pkts[i]) BY <1>2 DEF Aligned
    <3>2. Len(q.pkts) # 1
      <4> SUFFICES ASSUME Len(q.pkts) = 1 PROVE FALSE OBVIOUS
      <4>1. q.pkts[1].len =< DatagramSize BY <3>1 DEF InDatagram
      <4>2. HasRoom(q, DatagramSize) BY <1>5, <4>1, OneHasRoom DEF Roomy
      <4> QED BY <1>12, <4>2
    <3>3. Len(q.pkts) \in Nat /\ Len(q.pkts) >= 1 BY <1>5, <1>12
    <3>4. \A n \in Nat : n >= 1 /\ n # 1 => n >= 2 OBVIOUS
    <3> QED BY <3>1, <3>2, <3>3, <3>4
  <2>8. Sending'
    <3>1. Len(q.pkts) =< backlog' + 1 - (MultipleSend - packets_left')
      BY <1>1, <1>5, <1>7, <2>2
    <3> QED BY <1>1, <1>7, <1>12, <2>1, <2>2, <2>3, <3>1 DEF Sending
  <2>9. buffer' \in Pieces BY <1>5, <1>12, <2>2, HeadTailProperties
  <2> QED BY <1>7, <2>1, <2>2, <2>3, <2>6, <2>7, <2>8, <2>9
<1> QED BY <1>10, <1>11, <1>12

LEMMA ChooseIInv == IInv /\ Choose => IInv'
<1> SUFFICES ASSUME IInv, Choose PROVE IInv' OBVIOUS
<1>1. /\ pc = "client" /\ pc' = "send" /\ served' = served \cup {actual_client}
      /\ UNCHANGED <<flush_on_eagain, now, produced, clients, consecutive_errors,
                     first_error_time, last_write_error, actual_client, got, last_whole>>
      /\ backlog' = Len(queue[actual_client].pkts)
  BY DEF Choose, errVars
<1>2. /\ clients \in Seq(Clients) /\ actual_client \in Clients /\ actual_client \in Connected
      /\ \E k \in 1 .. Len(clients) : ServingAt(k)
  BY <1>1, Serving
<1>3. PICK c \in Clients : c = actual_client BY <1>2
<1>4. /\ Stream(c)' /\ Aligned(c)' /\ Counted(queue'[c]) /\ Sending'
      /\ buffer' \in Pieces /\ data_from_queue' \in BOOLEAN /\ packets_left' \in 0 .. MultipleSend
  BY <1>3, ChooseStream
<1>5. /\ DOMAIN queue' = Clients /\ queue' = [queue EXCEPT ![c] = queue'[c]]
      /\ lost' \in [Clients -> SUBSET {"full", "flushed", "requeued", "skipped"}]
      /\ \A d \in Clients : lost[d] \subseteq lost'[d] /\ (d # c => lost'[d] = lost[d])
  <2>1. /\ queue \in [Clients -> Queues]
        /\ lost \in [Clients -> SUBSET {"full", "flushed", "requeued", "skipped"}]
    BY DEF IInv, Types
  <2>2. \/ UNCHANGED <<queue, lost>>
        \/ /\ \E a : queue' = [queue EXCEPT ![c] = a]
           /\ \E r \in {{}, {"full"}} : lost' = [lost EXCEPT ![c] = lost[c] \cup r]
    BY <1>3 DEF Choose
  <2> QED BY <2>1, <2>2
<1>6. backlog' \in Nat
  <2>1. Len(queue[c].pkts) \in Nat BY QueueOf DEF IInv
  <2> QED BY <1>1, <1>3, <2>1
<1>7. Types'
  <2>1. queue' \in [Clients -> Queues] BY <1>4, <1>5 DEF IInv, Types, Counted
  <2> QED BY <1>1, <1>2, <1>4, <1>5, <1>6, <2>1 DEF IInv, Types
<1>8. AllCounted' BY <1>4, <1>5 DEF IInv, AllCounted, Types
<1>9. ErrorsDated' BY <1>1 DEF IInv, ErrorsDated
<1>10. Loop'
  <2>1. PICK k \in 1 .. Len(clients) : ServingAt(k) BY <1>2
  <2>2. \A i \in 1 .. Len(clients) : clients[i] \in Clients BY <1>2, ListProperties
  <2>3. ServingAt(k)' BY <1>1, <1>5, <2>1, <2>2 DEF ServingAt, IInv, Loop
  <2> QED BY <1>1, <2>3 DEF IInv, Loop
<1>11. ASSUME NEW d \in Connected' PROVE Stream(d)' /\ Aligned(d)'
  <2>1. CASE d = c BY <1>4, <2>1
  <2>2. CASE d # c
    <3>1. d \in Connected /\ d \in Clients BY <1>1, <1>2, ListProperties DEF Connected
    <3>2. Top(d)' = Top(d) BY <1>1, <1>3, <2>2 DEF Top
    <3>3. Top(d) \in Int BY TopInt DEF IInv
    <3>4. Stream(d) /\ Aligned(d) BY <3>1 DEF IInv, Streams
    <3>5. UNCHANGED <<flush_on_eagain, queue[d], got[d], last_write_error[d], lost[d]>>
      BY <1>1, <1>5, <2>2, <3>1 DEF IInv, Types
    <3> QED BY <1>1, <1>3, <2>2, <3>1, <3>2, <3>3, <3>4, <3>5, OtherStream DEF IInv
  <2> QED BY <2>1, <2>2
<1>12. Streams' BY <1>11 DEF Streams
<1> QED BY <1>4, <1>7, <1>8, <1>9, <1>10, <1>12 DEF IInv

-----------------------------------------------------------------------------
(* send() took it all. *)

LEMMA ReachedNext ==
  ASSUME IInv, pc = "send", NEW k \in 1 .. Len(clients), ServingAt(k),
         clients' = clients, served' = served, GoOn(ChanNext(actual_client)),
         \A d \in Clients : lost[d] \subseteq lost'[d]
  PROVE  k + 1 \in 1 .. Len(clients') + 1 /\ Reached(k + 1)
<1>1. /\ clients \in Seq(Clients) /\ Len(clients) \in Nat /\ Distinct
      /\ \A i \in 1 .. Len(clients) : clients[i] \in Clients
  BY Serving, ListProperties
<1>2. clients[k] = actual_client /\ actual_client \in served BY DEF ServingAt
<1>3. ChanNext(actual_client) = IF k = Len(clients) THEN NoClient ELSE clients[k + 1]
  BY <1>1, <1>2, PositionIs
<1>4. GoOn(IF k + 1 = Len(clients') + 1 THEN NoClient ELSE clients'[k + 1])
  BY <1>1, <1>3
<1>5. ASSUME NEW j \in 1 .. (k + 1) - 1 PROVE clients'[j] \in served' \/ lost'[clients'[j]] # {}
  <2>1. CASE j = k BY <1>2, <2>1
  <2>2. CASE j # k
    <3>1. j \in 1 .. k - 1 /\ j \in 1 .. Len(clients) BY <1>1, <2>2
    <3>2. clients[j] \in served \/ lost[clients[j]] # {} BY <3>1 DEF ServingAt
    <3>3. lost[clients[j]] \subseteq lost'[clients[j]] BY <1>1, <3>1
    <3> QED BY <3>2, <3>3
  <2> QED BY <2>1, <2>2
<1>6. \A j \in k + 1 .. Len(clients') : clients'[j] \notin served' BY DEF ServingAt
<1> QED BY <1>1, <1>4, <1>5, <1>6 DEF Reached

\* The new state of the client that was sent buffer, whether the loop goes on or not
LEMMA SendWholeStream ==
  ASSUME IInv, SendWhole, NEW c \in Clients, c = actual_client,
         Top(c)' = produced, pc' = "send" => packets_left' < MultipleSend
  PROVE  Stream(c)' /\ Aligned(c)' /\ Counted(queue'[c])
<1>1. /\ pc = "send" /\ UNCHANGED <<flush_on_eagain, produced, lost, served>>
      /\ queue' = [queue EXCEPT ![c] = IF data_from_queue THEN Removed(queue[c]) ELSE queue[c]]
      /\ last_write_error' =
           [last_write_error EXCEPT ![c] = IF consecutive_errors[c] THEN "none" ELSE @]
      /\ got' = [got EXCEPT ![c] = End(buffer)]
  BY DEF SendWhole
<1>2. /\ Stream(c) /\ Aligned(c) /\ produced \in Nat /\ produced >= DatagramSize
      /\ \E n \in Nat : produced = n * DatagramSize
  BY <1>1, Serving
<1>3. /\ Counted(queue[c]) /\ queue[c].pkts \in Seq(Pieces) /\ Len(queue[c].pkts) \in Nat
      /\ got[c] \in Int /\ c \in DOMAIN queue /\ c \in DOMAIN got /\ c \in DOMAIN last_write_error
  BY QueueOf DEF IInv, Types
<1>4. last_write_error'[c] = "none" BY <1>1, <1>3 DEF IInv, ErrorsDated
<1>5. got'[c] = End(buffer) /\ lost'[c] = lost[c] BY <1>1, <1>3
<1>6. CASE ~ data_from_queue
  <2>1. queue'[c] = queue[c] BY <1>1, <1>3, <1>6
  <2>2. queue[c].pkts = <<>> /\ buffer = Fresh BY <1>1, <1>6 DEF IInv, Sending
  <2>3. End(buffer) = produced BY <1>2, <2>2, FreshInDatagram
  <2>4. Chain(produced, <<>>, produced) /\ Whole(produced, <<>>, produced)
    BY <1>2, EmptyChain
  <2>5. Stream(c)' BY <1>4, <1>5, <2>1, <2>2, <2>3, <2>4 DEF Stream
  <2>6. \A i \in 1 .. Len(<<>>) : FALSE BY EmptySeq
  <2>7. packets_left' < MultipleSend => packets_left' # MultipleSend BY QueueAssumption
  <2>8. Aligned(c)' BY <1>4, <2>1, <2>2, <2>6, <2>7 DEF Aligned
  <2> QED BY <1>3, <2>1, <2>5, <2>8
<1>7. CASE data_from_queue
  <2>1. queue[c].pkts # <<>> /\ buffer = Head(queue[c].pkts)
    BY <1>1, <1>7 DEF IInv, Sending
  <2>2. /\ queue'[c] = Removed(queue[c])
        /\ Counted(queue'[c]) /\ queue'[c].pkts = Tail(queue[c].pkts)
    BY <1>1, <1>3, <1>7, <2>1, RemovedCounted
  <2>3. Top(c) = produced
    <3>1. c \in served BY <1>1 DEF IInv, Loop, ServingAt
    <3> QED BY <1>7, <3>1 DEF Top
  <2>4. Chain(got[c], queue[c].pkts, produced) BY <1>2, <2>3 DEF Stream
  <2>5. /\ Chain(End(buffer), Tail(queue[c].pkts), produced)
        /\ Whole(got[c], queue[c].pkts, produced)
           => Whole(End(buffer), Tail(queue[c].pkts), produced)
    BY <1>2, <1>3, <2>1, <2>4, TailChain
  <2>6. Stream(c)' BY <1>2, <1>4, <1>5, <2>2, <2>3, <2>5 DEF Stream
  <2>7. Aligned(c)'
    <3>1. /\ Len(Tail(queue[c].pkts)) = Len(queue[c].pkts) - 1
          /\ \A i \in 1 .. Len(Tail(queue[c].pkts)) : Tail(queue[c].pkts)[i] = queue[c].pkts[i + 1]
      BY <1>3, <2>1, HeadTailProperties
    <3>2. ASSUME Roomy PROVE \A i \in 1 .. Len(queue'[c].pkts) : InDatagram(queue'[c].pkts[i])
      <4>1. \A i \in 1 .. Len(queue[c].pkts) : InDatagram(queue[c].pkts[i])
        BY <1>2, <3>2 DEF Aligned
      <4>2. \A i \in 1 .. Len(Tail(queue[c].pkts)) : InDatagram(Tail(queue[c].pkts)[i])
        BY <1>3, <3>1, <4>1
      <4> QED BY <2>2, <4>2
    <3>3. packets_left' < MultipleSend => packets_left' # MultipleSend
      BY QueueAssumption
    <3> QED BY <1>1, <1>4, <3>2, <3>3 DEF Aligned, Roomy
  <2> QED BY <2>2, <2>6, <2>7
<1> QED BY <1>6, <1>7 DEF IInv, Types

LEMMA SendWholeIInv == IInv /\ SendWhole => IInv'
<1> SUFFICES ASSUME IInv, SendWhole PROVE IInv' OBVIOUS
<1>1. /\ pc = "send"
      /\ UNCHANGED <<flush_on_eagain, now, produced, clients, first_error_time, lost,
                     served, backlog>>
  BY DEF SendWhole
<1>2. /\ clients \in Seq(Clients) /\ Len(clients) \in Nat /\ actual_client \in Clients
      /\ produced \in Nat /\ produced >= DatagramSize /\ Distinct
      /\ \E n \in Nat : produced = n * DatagramSize
  BY <1>1, Serving
<1>3. PICK c \in Clients : c = actual_client BY <1>2
<1>4. PICK k \in 1 .. Len(clients) : ServingAt(k) BY <1>1, Serving
<1>5. c \in served BY <1>1, <1>3, <1>4 DEF ServingAt
<1> DEFINE q == IF data_from_queue THEN Removed(queue[c]) ELSE queue[c]
<1>6. /\ queue' = [queue EXCEPT ![c] = q]
      /\ consecutive_errors' = [consecutive_errors EXCEPT ![c] = FALSE]
      /\ last_write_error' =
           [last_write_error EXCEPT ![c] = IF consecutive_errors[c] THEN "none" ELSE @]
      /\ got' = [got EXCEPT ![c] = End(buffer)]
      /\ last_whole' = [last_whole EXCEPT ![c] = now]
      /\ IF OneMore(q)
         THEN /\ buffer' = Head(q.pkts) /\ packets_left' = packets_left - 1
              /\ UNCHANGED <<pc, actual_client, data_from_queue>>
         ELSE GoOn(ChanNext(c))
  BY <1>3 DEF SendWhole, ErrorsOver
<1>7. /\ Counted(q) /\ q \in Queues /\ q.pkts \in Seq(Pieces)
      /\ data_from_queue => /\ queue[c].pkts # <<>> /\ q.pkts = Tail(queue[c].pkts)
                            /\ Len(q.pkts) = Len(queue[c].pkts) - 1
      /\ ~ data_from_queue => q.pkts = <<>>
  <2>1. Counted(queue[c]) /\ queue[c].pkts \in Seq(Pieces) BY QueueOf DEF IInv
  <2>2. CASE data_from_queue
    <3>1. queue[c].pkts # <<>> BY <1>1, <1>3, <2>2 DEF IInv, Sending
    <3>2. Counted(q) /\ q.pkts = Tail(queue[c].pkts) BY <2>1, <2>2, <3>1, RemovedCounted
    <3>3. /\ Tail(queue[c].pkts) \in Seq(Pieces)
          /\ Len(Tail(queue[c].pkts)) = Len(queue[c].pkts) - 1
      BY <2>1, <3>1, HeadTailProperties
    <3> QED BY <2>2, <3>1, <3>2, <3>3 DEF Counted
  <2>3. CASE ~ data_from_queue BY <1>1, <1>3, <2>1, <2>3 DEF IInv, Sending, Counted
  <2> QED BY <2>2, <2>3 DEF IInv, Types
<1> HIDE DEF q
<1>8. queue'[c] = q /\ queue' \in [Clients -> Queues] BY <1>6, <1>7 DEF IInv, Types
<1>9. /\ consecutive_errors' \in [Clients -> BOOLEAN] /\ last_whole' \in [Clients -> Nat]
      /\ last_write_error' \in [Clients -> Errors \cup {"none"}]
      /\ got' \in [Clients -> Int]
  <2>1. End(buffer) \in Int BY PieceInts DEF IInv, Types
  <2> QED BY <1>6, <2>1 DEF IInv, Types
<1>10. AllCounted' BY <1>6, <1>7, <1>8 DEF IInv, AllCounted, Types
<1>11. ErrorsDated' BY <1>1, <1>6 DEF IInv, ErrorsDated, Types
<1>12. MultipleSend \in Nat /\ MultipleSend >= 2 /\ DatagramSize \in Nat BY QueueAssumption
<1>13. \A d \in Clients : d # c => /\ queue'[d] = queue[d] /\ got'[d] = got[d]
                                   /\ last_write_error'[d] = last_write_error[d]
  BY <1>6 DEF IInv, Types
<1>14. CASE OneMore(q)
  <2>1. /\ q.pkts # <<>> /\ packets_left > 1 /\ data_from_queue = TRUE
        /\ buffer' = Head(q.pkts) /\ packets_left' = packets_left - 1
        /\ UNCHANGED <<pc, actual_client, data_from_queue>>
    BY <1>6, <1>7, <1>14 DEF OneMore, IInv, Types
  <2>2. packets_left \in 0 .. MultipleSend BY DEF IInv, Types
  <2>3. packets_left' \in 1 .. MultipleSend - 1 BY <1>12, <2>1, <2>2
  <2>4. Types'
    <3>1. buffer' \in Pieces BY <1>7, <2>1, HeadTailProperties
    <3>2. packets_left' \in 0 .. MultipleSend BY <1>12, <2>3
    <3> QED BY <1>1, <1>8, <1>9, <2>1, <3>1, <3>2 DEF IInv, Types
  <2>5. Loop'
    <3>1. ServingAt(k)' BY <1>1, <1>4, <2>1 DEF ServingAt
    <3> QED BY <1>1, <2>1, <3>1 DEF IInv, Loop
  <2>6. Sending'
    <3>1. Len(queue[c].pkts) =< backlog + 1 - (MultipleSend - packets_left)
      BY <1>1, <1>3, <2>1 DEF IInv, Sending
    <3>2. Len(queue[c].pkts) \in Nat /\ backlog \in Nat BY QueueOf DEF IInv, Types
    <3>3. Len(q.pkts) =< backlog + 1 - (MultipleSend - packets_left')
      BY <1>7, <1>12, <2>1, <2>2, <3>1, <3>2
    <3>4. packets_left' >= 1 BY <2>3
    <3> QED BY <1>1, <1>3, <1>8, <2>1, <3>3, <3>4 DEF Sending
  <2>7. \A d : Top(d)' = Top(d) BY <1>1, <2>1 DEF Top
  <2>8. ASSUME NEW d \in Connected' PROVE Stream(d)' /\ Aligned(d)'
    <3>1. d \in Connected /\ d \in Clients BY <1>1, <1>2, ListProperties DEF Connected
    <3>2. CASE d = c
      <4>1. Top(c)' = produced BY <1>5, <2>1, <2>7 DEF Top
      <4>2. packets_left' < MultipleSend BY <1>12, <2>3
      <4> QED BY <1>3, <3>2, <4>1, <4>2, SendWholeStream
    <3>3. CASE d # c
      <4>1. Top(d) \in Int BY TopInt DEF IInv
      <4>2. Stream(d) /\ Aligned(d) BY <3>1 DEF IInv, Streams
      <4>3. UNCHANGED <<flush_on_eagain, queue[d], got[d], last_write_error[d], lost[d]>>
        BY <1>1, <1>13, <3>1, <3>3
      <4> QED BY <1>3, <2>1, <2>7, <3>1, <3>3, <4>1, <4>2, <4>3, OtherStream DEF IInv
    <3> QED BY <3>2, <3>3
  <2>9. Streams' BY <2>8 DEF Streams
  <2> QED BY <1>10, <1>11, <2>4, <2>5, <2>6, <2>9 DEF IInv
<1>15. CASE ~ OneMore(q)
  <2>1. GoOn(ChanNext(actual_client)) BY <1>3, <1>6, <1>15
  <2>2. k + 1 \in 1 .. Len(clients') + 1 /\ Reached(k + 1)
    BY <1>1, <1>4, <2>1, ReachedNext
  <2>3. Types'
    <3>1. buffer' \in Pieces BY <2>1, PieceInts DEF GoOn
    <3>2. ChanNext(actual_client) \in Clients \cup {NoClient}
      <4>1. actual_client = clients[k] BY <1>4 DEF ServingAt
      <4> QED BY <1>2, <4>1, PositionIs, ListProperties
    <3>3. /\ data_from_queue' = FALSE /\ packets_left' = 0
          /\ pc' \in {"idle", "client"} /\ actual_client' \in Clients \cup {NoClient}
      BY <2>1, <3>2 DEF GoOn
    <3>4. 0 \in 0 .. MultipleSend BY <1>12
    <3> QED BY <1>1, <1>8, <1>9, <3>1, <3>3, <3>4 DEF IInv, Types
  <2>4. Distinct' BY <1>1, <1>2 DEF Distinct
  <2>5. PICK n \in Nat : produced' = n * DatagramSize BY <1>1, <1>2
  <2>6. produced' >= DatagramSize BY <1>1, <1>2
  <2>7. /\ Loop' /\ Sending' /\ pc' \in {"idle", "client"}
        /\ \A d : Top(d)' = IF pc' = "idle" \/ d \in served' THEN produced'
                            ELSE produced' - DatagramSize
    BY <2>2, <2>3, <2>4, <2>5, <2>6, LoopAfter
  <2>8. ASSUME NEW d \in Connected' PROVE Stream(d)' /\ Aligned(d)'
    <3>1. d \in Connected /\ d \in Clients BY <1>1, <1>2, ListProperties DEF Connected
    <3>2. CASE d = c
      <4>1. Top(c)' = produced BY <1>1, <1>5, <2>7
      <4>2. pc' # "send" BY <2>7
      <4> QED BY <1>3, <3>2, <4>1, <4>2, SendWholeStream
    <3>3. CASE d # c
      <4>1. /\ Top(d) =< Top(d)' /\ Top(d)' \in Int
            /\ lost'[d] = {} => Top(d)' = Top(d)
        <5>1. Types /\ Loop BY DEF IInv
        <5>2. produced' = produced /\ served' = served /\ pc # "idle" BY <1>1
        <5> QED BY <1>3, <2>2, <2>3, <2>4, <3>1, <3>3, <5>1, <5>2, TopAfter
      <4>2. Stream(d) /\ Aligned(d) BY <3>1 DEF IInv, Streams
      <4>3. UNCHANGED <<flush_on_eagain, queue[d], got[d], last_write_error[d], lost[d]>>
        BY <1>1, <1>13, <3>1, <3>3
      <4>4. pc' # "send" BY <2>7
      <4> QED BY <3>1, <4>1, <4>2, <4>3, <4>4, OtherStream DEF IInv
    <3> QED BY <3>2, <3>3
  <2>9. Streams' BY <2>8 DEF Streams
  <2> QED BY <1>10, <1>11, <2>3, <2>7, <2>9 DEF IInv
<1> QED BY <1>14, <1>15

-----------------------------------------------------------------------------
(* send() took a part, or nothing: written_len of buffer. *)

LEMMA KeptStream ==
  ASSUME IInv, pc = "send", NEW c \in Clients, c = actual_client,
         NEW w \in Int, -1 =< w, w < buffer.len, NEW errno \in Errors,
         w = -1 => last_write_error[c] # "none",
         NEW g \in Int, g = IF w > 0 THEN buffer.from + w - 1 ELSE got[c]
  PROVE  LET kept == Kept(queue[c], w, errno) IN
         /\ Counted(kept) /\ Chain(g, kept.pkts, produced)
         /\ lost[c] \cup Reasons(queue[c], w, errno) = {} => Whole(g, kept.pkts, produced)
         /\ kept.pkts = <<>> => g < produced
         /\ Roomy => /\ \A i \in 1 .. Len(kept.pkts) : InDatagram(kept.pkts[i])
                     /\ kept.pkts = <<>> => w > 0 /\ last_write_error[c] = "none"
<1> DEFINE q == queue[c]
           kept == Kept(q, w, errno)
           rest == Piece(buffer.from + w, buffer.len - w)
           F == flush_on_eagain /\ errno = "EAGAIN"
<1>1. /\ Stream(c) /\ Aligned(c) /\ produced \in Nat /\ produced >= DatagramSize
      /\ \E n \in Nat : produced = n * DatagramSize
  BY Serving
<1>2. /\ Counted(q) /\ q \in Queues /\ q.pkts \in Seq(Pieces) /\ Len(q.pkts) \in Nat
      /\ q.data_bytes_in_queue \in Int /\ (q.pkts # <<>> <=> Len(q.pkts) >= 1)
  BY QueueOf DEF IInv
<1>3. got[c] \in Int /\ buffer \in Pieces /\ buffer.from \in Int /\ buffer.len \in Int
  BY PieceInts DEF IInv, Types
<1>4. /\ rest \in Pieces /\ rest.from = buffer.from + w /\ rest.len = buffer.len - w
      /\ rest.len > 0 /\ End(rest) = End(buffer) /\ End(buffer) = buffer.from + buffer.len - 1
      /\ rest.from \in Int /\ rest.len \in Int
  <2>1. buffer.from + w \in Int /\ buffer.len - w \in Int BY <1>3
  <2>2. rest \in Pieces /\ rest.from = buffer.from + w /\ rest.len = buffer.len - w
    BY <2>1, PieceInts DEF Piece
  <2> QED BY <1>3, <2>1, <2>2 DEF End
<1>5. c \in served BY DEF IInv, Loop, ServingAt
<1>6. /\ DatagramSize \in Nat /\ DatagramSize >= 1 /\ queue_max_size \in Nat
      /\ MultipleSend \in Nat
  BY QueueAssumption
<1> HIDE DEF q, kept, rest, F
\* The queue is left empty: what was not sent is lost.
<1>7. ASSUME kept.pkts = <<>>, got[c] < buffer.from, End(buffer) =< produced, buffer.len > 0
      PROVE  Chain(g, kept.pkts, produced) /\ g < produced
  <2>1. g < produced BY <1>1, <1>3, <1>4, <1>7
  <2>2. g =< produced BY <1>1, <2>1
  <2> QED BY <1>1, <1>7, <2>1, <2>2, EmptyChain
<1>8. CASE ~ data_from_queue
  <2>1. q.pkts = <<>> /\ buffer = Fresh BY <1>8 DEF IInv, Sending, q
  <2>2. /\ buffer.len = DatagramSize /\ buffer.from = produced - DatagramSize + 1
        /\ End(buffer) = produced /\ InDatagram(buffer)
    BY <1>1, <2>1, FreshInDatagram
  <2>3. Top(c) = produced - DatagramSize BY <1>8 DEF Top
  <2>4. Chain(got[c], <<>>, produced - DatagramSize) BY <1>1, <2>1, <2>3 DEF Stream, q
  <2>5. produced - DatagramSize \in Int BY <1>1, <1>6
  <2>6. got[c] =< produced - DatagramSize BY <1>3, <2>4, <2>5, EmptyChain
  <2>7. got[c] < buffer.from /\ buffer.len > 0 BY <1>1, <1>3, <1>6, <2>2, <2>6
  <2>8. ASSUME F \/ ~ HasRoom(q, rest.len)
        PROVE  kept = q /\ lost[c] \cup Reasons(q, w, errno) # {}
    BY <1>8, <2>8 DEF kept, Kept, Reasons, F, rest, Piece
  <2>9. CASE F \/ ~ HasRoom(q, rest.len)
    <3>1. Chain(g, kept.pkts, produced) /\ g < produced
      BY <1>1, <1>7, <2>1, <2>2, <2>7, <2>8, <2>9
    <3>2. ~ Roomy
      <4> SUFFICES ASSUME Roomy PROVE FALSE OBVIOUS
      <4>1. ~ F BY DEF F, Roomy
      <4>2. q.data_bytes_in_queue = 0 BY <1>2, <2>1, BytesEmpty DEF Counted
      <4>3. rest.len < queue_max_size BY <1>4, <1>6, <2>2 DEF Roomy
      <4> QED BY <1>4, <2>9, <4>1, <4>2, <4>3 DEF HasRoom
    <3> QED BY <1>2, <2>8, <2>9, <3>1, <3>2 DEF kept, q
  <2>10. CASE ~ F /\ HasRoom(q, rest.len)
    <3>1. kept = Added(q, rest) BY <1>8, <2>10 DEF kept, Kept, F, rest
    <3>2. Counted(kept) /\ kept.pkts = Append(<<>>, rest) /\ kept.pkts # <<>>
      BY <1>2, <1>4, <2>1, <2>10, <3>1, AddedCounted
    <3>3. g < rest.from
      <4>1. CASE w > 0 BY <1>3, <1>4, <4>1
      <4>2. CASE w = 0 BY <1>3, <1>4, <2>7, <4>2
      <4>3. CASE w = -1
        <5>1. got[c] < produced - DatagramSize BY <1>1, <2>1, <2>3, <4>3 DEF Stream, q
        <5> QED BY <1>1, <1>3, <1>4, <1>6, <2>2, <4>3, <5>1
      <4> QED BY <4>1, <4>2, <4>3
    <3>4. g =< rest.from - 1 /\ rest.from - 1 \in Int /\ rest.from - 1 =< produced
      BY <1>1, <1>3, <1>4, <2>2, <3>3
    <3>5. Chain(g, <<>>, rest.from - 1) BY <3>4, EmptyChain
    <3>6. <<>> \in Seq(Pieces) BY EmptySeq
    <3>7. /\ Chain(g, Append(<<>>, rest), produced)
          /\ Whole(g, <<>>, rest.from - 1) => Whole(g, Append(<<>>, rest), produced)
      <4>1. End(rest) =< produced /\ End(rest) = produced /\ produced \in Int
        BY <1>1, <1>4, <2>2
      <4>2. rest.from > rest.from - 1 /\ rest.from = (rest.from - 1) + 1 BY <1>4
      <4> QED BY <1>4, <3>4, <3>5, <3>6, <4>1, <4>2, AppendChain
    <3>8. ASSUME lost[c] \cup Reasons(q, w, errno) = {} PROVE Whole(g, kept.pkts, produced)
      <4>1. Whole(got[c], <<>>, produced - DatagramSize)
        BY <1>1, <2>1, <2>3, <3>8 DEF Stream, q
      <4>2. got[c] = produced - DatagramSize BY <1>3, <2>5, <4>1, EmptyChain
      <4>3. w # -1 BY <1>1, <1>3, <2>1, <2>3, <2>5, <4>2 DEF Stream, q
      <4>4. g = rest.from - 1 BY <1>1, <1>3, <1>4, <1>6, <2>2, <4>2, <4>3
      <4>5. Whole(g, <<>>, rest.from - 1) BY <3>4, <4>4, EmptyChain
      <4> QED BY <3>2, <3>7, <4>5
    <3>9. ASSUME Roomy PROVE \A i \in 1 .. Len(kept.pkts) : InDatagram(kept.pkts[i])
      <4>1. last_write_error[c] = "none" BY <1>1, <2>1, <3>9 DEF Aligned, q
      <4>2. w \in Nat BY <4>1
      <4>3. InDatagram(rest) BY <1>3, <2>2, <4>2, RestInDatagram DEF rest
      <4>4. Len(kept.pkts) = 1 /\ kept.pkts[1] = rest
        BY <1>4, <3>2, <3>6, AppendProperties, EmptySeq
      <4> QED BY <4>3, <4>4
    <3> QED BY <3>2, <3>7, <3>8, <3>9 DEF kept, q
  <2> QED BY <2>9, <2>10
<1>9. CASE data_from_queue
  <2>1. q.pkts # <<>> /\ buffer = Head(q.pkts) /\ Len(q.pkts) >= 1
    BY <1>2, <1>9 DEF IInv, Sending, q
  <2>2. Top(c) = produced BY <1>5, <1>9 DEF Top
  <2>3. Chain(got[c], q.pkts, produced) BY <1>1, <2>2 DEF Stream, q
  <2>4. buffer = q.pkts[1] /\ 1 \in 1 .. Len(q.pkts) BY <1>2, <2>1, HeadTailProperties
  <2>5. got[c] < buffer.from /\ End(buffer) =< produced /\ buffer.len > 0
    <3>1. q.pkts[1].from > Before(got[c], q.pkts, 1 - 1) BY <2>3, <2>4 DEF Chain
    <3>2. 1 \in 0 .. Len(q.pkts) BY <1>2, <2>1
    <3>3. Before(got[c], q.pkts, 1) =< produced BY <2>3, <3>2 DEF Chain
    <3>4. q.pkts[1].len > 0 BY <1>2, <2>4 DEF Counted
    <3> QED BY <1>3, <2>4, <3>1, <3>3, <3>4 DEF Before
  <2>6. CASE F
    <3>1. kept = Cleared(q) /\ lost[c] \cup Reasons(q, w, errno) # {}
      BY <1>9, <2>6 DEF kept, Kept, Reasons, F
    <3>2. Counted(kept) /\ kept.pkts = <<>> BY <1>2, <3>1, ClearedCounted
    <3>3. ~ Roomy BY <2>6 DEF F, Roomy
    <3>4. Chain(g, kept.pkts, produced) /\ g < produced BY <1>7, <2>5, <3>2
    <3> QED BY <3>1, <3>2, <3>3, <3>4 DEF kept, q
  <2>7. CASE ~ F /\ ~ (w > 0)
    <3>1. kept = q BY <1>9, <2>7 DEF kept, Kept, F
    <3>2. g = got[c] BY <2>7
    <3>3. lost[c] = {} => Whole(got[c], q.pkts, produced) BY <1>1, <2>2 DEF Stream, q
    <3>4. Roomy => \A i \in 1 .. Len(q.pkts) : InDatagram(q.pkts[i])
      BY <1>1 DEF Aligned, q
    <3>5. Counted(kept) /\ kept.pkts = q.pkts /\ kept.pkts # <<>> BY <1>2, <2>1, <3>1
    <3> QED BY <2>3, <3>2, <3>3, <3>4, <3>5 DEF kept, q
  <2>8. CASE ~ F /\ w > 0
    <3> DEFINE r == Removed(q)
    <3>1. /\ Counted(r) /\ r.pkts = Tail(q.pkts)
          /\ r.data_bytes_in_queue = q.data_bytes_in_queue - buffer.len
      BY <1>2, <2>1, RemovedCounted
    <3>2. /\ Tail(q.pkts) \in Seq(Pieces) /\ Len(Tail(q.pkts)) = Len(q.pkts) - 1
          /\ \A i \in 1 .. Len(Tail(q.pkts)) : Tail(q.pkts)[i] = q.pkts[i + 1]
      BY <1>2, <2>1, HeadTailProperties
    <3>3. kept = Requeued(r, rest) /\ lost[c] \cup Reasons(q, w, errno) # {}
      BY <1>9, <2>8 DEF kept, Kept, Reasons, F, rest
    <3> HIDE DEF r
    <3>4. CASE r.pkts = <<>>
      <4>1. Counted(kept) /\ kept.pkts = <<>> BY <3>1, <3>3, <3>4 DEF Requeued
      <4>2. Chain(g, kept.pkts, produced) /\ g < produced BY <1>7, <2>5, <4>1
      <4>3. Len(q.pkts) = 1
        <5>1. Len(Tail(q.pkts)) = 0 BY <3>1, <3>4, EmptySeq
        <5>2. Len(q.pkts) \in Nat /\ Len(q.pkts) - 1 = 0 BY <1>2, <3>2, <5>1
        <5>3. \A n \in Nat : n - 1 = 0 => n = 1 OBVIOUS
        <5> QED BY <5>2, <5>3
      <4>4. Roomy => last_write_error[c] = "none"
        BY <1>1, <1>9, <4>3 DEF Aligned, q
      <4>5. \A i \in 1 .. Len(<<>>) : FALSE BY EmptySeq
      <4> QED BY <2>8, <3>3, <4>1, <4>2, <4>4, <4>5 DEF kept, q
    <3>5. CASE r.pkts # <<>>
      <4>1. r.data_bytes_in_queue + rest.len < queue_max_size
        <5>1. q.data_bytes_in_queue < queue_max_size BY <1>2, <2>1 DEF Counted
        <5> QED BY <1>2, <1>3, <1>4, <1>6, <2>8, <3>1, <5>1
      <4>2. Counted(kept) /\ kept.pkts = <<rest>> \o Tail(r.pkts)
        BY <1>4, <3>1, <3>3, <3>5, <4>1, RequeuedCounted
      <4>3. /\ r.pkts \in Seq(Pieces) /\ Len(r.pkts) \in Nat /\ Len(r.pkts) >= 1
            /\ r.pkts[1].len > 0
        <5>1. r.pkts \in Seq(Pieces) /\ Len(r.pkts) \in Nat /\ Len(r.pkts) >= 1
          BY <3>1, <3>2, <3>5, EmptySeq
        <5>2. 1 \in 1 .. Len(r.pkts) BY <5>1
        <5> QED BY <3>1, <5>1, <5>2 DEF Counted
      <4>4. Chain(End(buffer), r.pkts, produced)
        BY <1>1, <1>2, <1>3, <2>1, <2>3, <3>1, TailChain
      <4>5. Chain(rest.from - 1, kept.pkts, produced)
        <5>1. End(buffer) \in Int /\ produced \in Int BY <1>1, <1>3, PieceInts
        <5> QED BY <1>4, <3>5, <4>2, <4>3, <4>4, <5>1, ReplacedChain
      <4>6. g = rest.from - 1 BY <1>3, <1>4, <2>8
      <4>7. /\ Len(kept.pkts) = Len(r.pkts) /\ kept.pkts[1] = rest /\ kept.pkts # <<>>
            /\ \A i \in 2 .. Len(r.pkts) : kept.pkts[i] = r.pkts[i]
        BY <1>4, <3>5, <4>2, <4>3, Replaced
      <4>8. ASSUME Roomy, NEW i \in 1 .. Len(kept.pkts) PROVE InDatagram(kept.pkts[i])
        <5>1. \A j \in 1 .. Len(q.pkts) : InDatagram(q.pkts[j])
          BY <1>1, <4>8 DEF Aligned, q
        <5>2. CASE i = 1
          <6>0. w \in Nat BY <2>8
          <6>1. InDatagram(buffer) BY <2>4, <5>1
          <6>2. InDatagram(rest) BY <1>3, <6>0, <6>1, RestInDatagram DEF rest
          <6> QED BY <4>7, <5>2, <6>2
        <5>3. CASE i # 1
          <6>1. i \in 2 .. Len(r.pkts) /\ i + 1 \in 1 .. Len(q.pkts)
                /\ i \in 1 .. Len(Tail(q.pkts))
            BY <1>2, <3>1, <3>2, <4>3, <4>7, <5>3
          <6>2. kept.pkts[i] = q.pkts[i + 1] BY <3>1, <3>2, <4>7, <6>1
          <6> QED BY <5>1, <6>1, <6>2
        <5> QED BY <5>2, <5>3
      <4> QED BY <3>3, <4>2, <4>5, <4>6, <4>7, <4>8 DEF kept, q
    <3> QED BY <3>4, <3>5
  <2> QED BY <2>6, <2>7, <2>8
<1> QED BY <1>8, <1>9 DEF IInv, Types

\* The client after the one that is disconnected is skipped.
LEMMA ReachedAfterShort ==
  ASSUME IInv, pc = "send", NEW w, NEW errno, AfterShort(w, errno)
  PROVE  /\ clients' \in Seq(Clients) /\ Distinct'
         /\ \A d \in Connected' : d \in Connected
         /\ TimedOut(actual_client) => actual_client \notin Connected'
         /\ \E m \in 1 .. Len(clients') + 1 : Reached(m)
         /\ pc' \in {"idle", "client"} /\ actual_client' \in Clients \cup {NoClient}
         /\ buffer' \in Pieces /\ data_from_queue' = FALSE /\ packets_left' = 0
<1>1. /\ clients \in Seq(Clients) /\ Len(clients) \in Nat /\ Distinct
      /\ \A i \in 1 .. Len(clients) : clients[i] \in Clients /\ clients[i] # NoClient
      /\ actual_client \in Clients
  BY Serving, ListProperties
<1>2. PICK k \in 1 .. Len(clients) : ServingAt(k) BY Serving
<1>3. clients[k] = actual_client BY <1>2 DEF ServingAt
<1> DEFINE next == IF k = Len(clients) THEN NoClient ELSE clients[k + 1]
           skipped == TimedOut(actual_client) /\ next # NoClient
<1>4. ChanNext(actual_client) = next BY <1>1, <1>3, PositionIs
<1>5. /\ clients' = IF TimedOut(actual_client) THEN Unlinked(actual_client) ELSE clients
      /\ GoOn(IF skipped THEN ChanNext(next) ELSE next)
      /\ served' = served
      /\ \A d \in Clients : lost[d] \subseteq lost'[d]
      /\ skipped => \A d \in Clients : d = next /\ d # actual_client => "skipped" \in lost'[d]
  BY <1>4 DEF AfterShort
<1>6. CASE ~ TimedOut(actual_client)
  <2>1. clients' = clients /\ GoOn(ChanNext(actual_client)) BY <1>4, <1>5, <1>6
  <2>2. k + 1 \in 1 .. Len(clients') + 1 /\ Reached(k + 1)
    BY <1>2, <1>5, <2>1, ReachedNext
  <2>3. next \in Clients \cup {NoClient} BY <1>1
  <2>4. GoOn(next) BY <1>4, <2>1
  <2>5. /\ pc' \in {"idle", "client"} /\ actual_client' \in Clients \cup {NoClient}
        /\ buffer' \in Pieces /\ data_from_queue' = FALSE /\ packets_left' = 0
    BY <2>3, <2>4, PieceInts DEF GoOn
  <2>6. Distinct' /\ \A d \in Connected' : d \in Connected
    BY <1>1, <2>1 DEF Distinct, Connected
  <2> QED BY <1>1, <1>6, <2>1, <2>2, <2>5, <2>6
<1>7. CASE TimedOut(actual_client)
  <2>1. clients' = Unlinked(clients[k]) BY <1>3, <1>5, <1>7
  <2>2. /\ clients' \in Seq(Clients) /\ Len(clients') = Len(clients) - 1 /\ Distinct'
        /\ \A j \in 1 .. Len(clients) - 1 :
              clients'[j] = IF j < k THEN clients[j] ELSE clients[j + 1]
        /\ \A d : d \in Connected' => d \in Connected /\ d # clients[k]
    BY <1>1, <2>1, WithoutOne
  <2>3. ASSUME NEW j \in 1 .. k - 1, j \in 1 .. Len(clients')
        PROVE  clients'[j] \in served' \/ lost'[clients'[j]] # {}
    <3>1. j \in 1 .. Len(clients) - 1 /\ clients'[j] = clients[j] BY <1>1, <2>2, <2>3
    <3>2. clients[j] \in served \/ lost[clients[j]] # {} BY <1>2 DEF ServingAt
    <3>3. lost[clients[j]] \subseteq lost'[clients[j]] BY <1>1, <1>5, <3>1
    <3> QED BY <1>5, <3>1, <3>2, <3>3
  <2>4. ASSUME NEW j \in k .. Len(clients') PROVE clients'[j] \notin served'
    <3>1. j \in 1 .. Len(clients) - 1 /\ clients'[j] = clients[j + 1]
          /\ j + 1 \in k + 1 .. Len(clients)
      BY <1>1, <2>2
    <3> QED BY <1>2, <1>5, <3>1 DEF ServingAt
  <2>5. CASE k = Len(clients)
    <3>1. GoOn(NoClient) BY <1>5, <2>5
    <3>2. k \in 1 .. Len(clients') + 1 /\ k = Len(clients') + 1 BY <1>1, <2>2, <2>5
    <3>3. \A j \in 1 .. k - 1 : j \in 1 .. Len(clients') BY <1>1, <3>2
    <3>4. Reached(k) BY <2>3, <2>4, <3>1, <3>2, <3>3 DEF Reached
    <3>5. /\ pc' \in {"idle", "client"} /\ actual_client' \in Clients \cup {NoClient}
          /\ buffer' \in Pieces /\ data_from_queue' = FALSE /\ packets_left' = 0
      BY <3>1, PieceInts DEF GoOn
    <3> QED BY <1>3, <2>2, <3>2, <3>4, <3>5
  <2>6. CASE k # Len(clients)
    <3>1. k + 1 \in 1 .. Len(clients) /\ next = clients[k + 1] /\ next # NoClient
          /\ next \in Clients /\ k \in 1 .. Len(clients) - 1 /\ clients'[k] = next
      BY <1>1, <2>2, <2>6
    <3>2. ChanNext(next) = IF k + 1 = Len(clients) THEN NoClient ELSE clients[(k + 1) + 1]
      BY <1>1, <3>1, PositionIs
    <3>3. GoOn(ChanNext(next)) BY <1>5, <1>7, <3>1
    <3>4. k + 1 \in 1 .. Len(clients') + 1 /\ (k + 1 = Len(clients) <=> k + 1 = Len(clients') + 1)
      BY <1>1, <2>2, <2>6
    <3>5. ChanNext(next) = IF k + 1 = Len(clients') + 1 THEN NoClient ELSE clients'[k + 1]
      <4>1. CASE k + 1 = Len(clients) BY <3>2, <3>4, <4>1
      <4>2. CASE k + 1 # Len(clients)
        <5>1. k + 1 \in 1 .. Len(clients) - 1 /\ ~ (k + 1 < k) BY <1>1, <2>6, <4>2
        <5> QED BY <2>2, <3>2, <3>4, <4>2, <5>1
      <4> QED BY <4>1, <4>2
    <3>6. next # actual_client BY <1>1, <1>3, <3>1 DEF Distinct
    <3>7. ASSUME NEW j \in 1 .. (k + 1) - 1
          PROVE  clients'[j] \in served' \/ lost'[clients'[j]] # {}
      <4>1. CASE j = k
        <5>1. "skipped" \in lost'[next] BY <1>5, <1>7, <3>1, <3>6
        <5> QED BY <3>1, <4>1, <5>1
      <4>2. CASE j # k
        <5>1. j \in 1 .. k - 1 /\ j \in 1 .. Len(clients') BY <1>1, <2>2, <4>2
        <5> QED BY <2>3, <5>1
      <4> QED BY <4>1, <4>2
    <3>8. \A j \in k + 1 .. Len(clients') : clients'[j] \notin served' BY <1>1, <2>2, <2>4
    <3>9. Reached(k + 1) BY <3>3, <3>5, <3>7, <3>8 DEF Reached
    <3>10. ChanNext(next) \in Clients \cup {NoClient}
      <4>1. k + 1 # Len(clients) => (k + 1) + 1 \in 1 .. Len(clients) BY <1>1, <3>1
      <4> QED BY <1>1, <3>2, <4>1
    <3>11. /\ pc' \in {"idle", "client"} /\ actual_client' \in Clients \cup {NoClient}
           /\ buffer' \in Pieces /\ data_from_queue' = FALSE /\ packets_left' = 0
      BY <3>3, <3>10, PieceInts DEF GoOn
    <3> QED BY <1>3, <2>2, <3>4, <3>9, <3>11
  <2> QED BY <2>5, <2>6
<1> QED BY <1>6, <1>7

LEMMA AfterShortIInv ==
  ASSUME IInv, pc = "send", NEW w \in Int, -1 =< w, w < buffer.len, NEW errno \in Errors,
         w = -1 => last_write_error[actual_client] # "none",
         AfterShort(w, errno),
         got' = IF w > 0 THEN [got EXCEPT ![actual_client] = buffer.from + w - 1] ELSE got,
         last_write_error' = IF w > 0 THEN last_write_error
                             ELSE [last_write_error EXCEPT ![actual_client] = errno]
  PROVE  IInv'
<1>1. /\ clients \in Seq(Clients) /\ Len(clients) \in Nat /\ actual_client \in Clients
      /\ produced \in Nat /\ produced >= DatagramSize
      /\ \E n \in Nat : produced = n * DatagramSize
      /\ \E k \in 1 .. Len(clients) : ServingAt(k)
  BY Serving
<1>2. PICK c \in Clients : c = actual_client BY <1>1
<1>3. c \in served BY <1>1, <1>2 DEF ServingAt
<1> DEFINE kept == Kept(queue[c], w, errno)
           R == Reasons(queue[c], w, errno)
           g == IF w > 0 THEN buffer.from + w - 1 ELSE got[c]
<1>4. /\ queue' = [queue EXCEPT ![c] = IF TimedOut(c) THEN Cleared(kept) ELSE kept]
      /\ consecutive_errors' = [consecutive_errors EXCEPT ![c] = TRUE]
      /\ first_error_time' =
           [first_error_time EXCEPT ![c] = IF consecutive_errors[c] THEN @ ELSE now]
      /\ DOMAIN lost' = Clients /\ lost'[c] = lost[c] \cup R
      /\ \A d \in Clients : d # c => lost'[d] = lost[d] \/ lost'[d] = lost[d] \cup {"skipped"}
      /\ UNCHANGED <<flush_on_eagain, now, produced, last_whole, served, backlog>>
  <2>1. lost' = [ d \in Clients |-> lost[d] \cup
                   CASE d = c -> R
                     [] d # c -> IF TimedOut(c) /\ ChanNext(c) # NoClient /\ d = ChanNext(c)
                                 THEN {"skipped"} ELSE {} ]
    BY <1>2 DEF AfterShort
  <2>2. \A d \in Clients : d # c => lost'[d] = lost[d] \/ lost'[d] = lost[d] \cup {"skipped"}
    BY <2>1
  <2>3. DOMAIN lost' = Clients /\ lost'[c] = lost[c] \cup R BY <2>1
  <2> QED BY <1>2, <2>2, <2>3 DEF AfterShort
<1>5. PICK m \in 1 .. Len(clients') + 1 : Reached(m) BY ReachedAfterShort
<1>6. /\ clients' \in Seq(Clients) /\ Distinct'
      /\ \A d \in Connected' : d \in Connected
      /\ TimedOut(c) => c \notin Connected'
      /\ pc' \in {"idle", "client"} /\ actual_client' \in Clients \cup {NoClient}
      /\ buffer' \in Pieces /\ data_from_queue' = FALSE /\ packets_left' = 0
  BY <1>2, ReachedAfterShort
<1>7. got \in [Clients -> Int] /\ buffer.from \in Int /\ g \in Int
  <2>1. got \in [Clients -> Int] /\ buffer \in Pieces BY DEF IInv, Types
  <2>2. buffer.from \in Int BY <2>1, PieceInts
  <2> QED BY <2>1, <2>2
<1> HIDE DEF g
<1>8. /\ Counted(kept) /\ Chain(g, kept.pkts, produced)
      /\ lost[c] \cup R = {} => Whole(g, kept.pkts, produced)
      /\ kept.pkts = <<>> => g < produced
      /\ Roomy => /\ \A i \in 1 .. Len(kept.pkts) : InDatagram(kept.pkts[i])
                  /\ kept.pkts = <<>> => w > 0 /\ last_write_error[c] = "none"
  BY <1>2, <1>7, KeptStream DEF g
<1>9. got'[c] = g /\ got' \in [Clients -> Int] BY <1>2, <1>7 DEF g
<1>10. R \subseteq {"full", "flushed", "requeued"} BY DEF Reasons
<1> HIDE DEF kept, R
<1>11. Counted(queue'[c]) /\ queue' \in [Clients -> Queues]
  <2>1. Counted(Cleared(kept)) BY <1>8, ClearedCounted
  <2>2. queue \in [Clients -> Queues] BY DEF IInv, Types
  <2> QED BY <1>4, <1>8, <2>1, <2>2 DEF Counted
<1>12. Types'
  <2>1. /\ consecutive_errors' \in [Clients -> BOOLEAN] /\ first_error_time' \in [Clients -> Nat]
        /\ last_write_error' \in [Clients -> Errors \cup {"none"}]
    BY <1>2, <1>4 DEF IInv, Types
  <2>2. lost' \in [Clients -> SUBSET {"full", "flushed", "requeued", "skipped"}]
    <3>1. lost \in [Clients -> SUBSET {"full", "flushed", "requeued", "skipped"}]
      BY DEF IInv, Types
    <3>2. ASSUME NEW d \in Clients
          PROVE  lost'[d] \in SUBSET {"full", "flushed", "requeued", "skipped"}
      BY <1>4, <1>10, <3>1
    <3>3. lost' = [d \in Clients |-> lost'[d]]
      BY <1>2 DEF AfterShort
    <3> QED BY <3>2, <3>3
  <2>3. 0 \in 0 .. MultipleSend BY QueueAssumption
  <2> QED BY <1>4, <1>6, <1>9, <1>11, <2>1, <2>2, <2>3 DEF IInv, Types
<1>13. AllCounted'
  <2>1. \A d \in Clients : d # c => queue'[d] = queue[d] BY <1>4 DEF IInv, Types
  <2> QED BY <1>11, <2>1 DEF IInv, AllCounted
<1>14. ErrorsDated'
  <2>1. ASSUME NEW d \in Clients
        PROVE  /\ last_whole'[d] =< now'
               /\ first_error_time'[d] >= last_whole'[d] \/ ~ consecutive_errors'[d]
               /\ last_write_error'[d] # "none" => consecutive_errors'[d]
    <3>1. CASE d = c BY <1>4, <3>1 DEF IInv, ErrorsDated, Types
    <3>2. CASE d # c BY <1>2, <1>4, <3>2 DEF IInv, ErrorsDated, Types
    <3> QED BY <3>1, <3>2
  <2>2. \A d \in Clients : last_whole'[d] =< now' BY <1>4 DEF IInv, ErrorsDated
  <2> QED BY <2>1, <2>2 DEF ErrorsDated
<1>15. /\ Loop' /\ Sending'
       /\ \A d : Top(d)' = IF pc' = "idle" \/ d \in served' THEN produced'
                           ELSE produced' - DatagramSize
  <2>1. PICK n \in Nat : produced' = n * DatagramSize BY <1>1, <1>4
  <2> QED BY <1>1, <1>4, <1>5, <1>6, <1>12, <2>1, LoopAfter
<1>16. ASSUME NEW d \in Connected' PROVE Stream(d)' /\ Aligned(d)'
  <2>1. d \in Connected /\ d \in Clients BY <1>1, <1>6, <1>16, ListProperties DEF Connected
  <2>2. CASE d = c
    <3>1. queue'[c] = kept
      <4>1. ~ TimedOut(c) BY <1>6, <2>2
      <4> QED BY <1>4, <4>1 DEF IInv, Types
    <3>2. Top(c)' = produced BY <1>3, <1>4, <1>15
    <3>3. Stream(c)' BY <1>4, <1>8, <1>9, <3>1, <3>2 DEF Stream
    <3>4. last_write_error[c] = "none" /\ w > 0 => last_write_error'[c] = "none" OBVIOUS
    <3>5. Aligned(c)' BY <1>4, <1>6, <1>8, <3>1, <3>4 DEF Aligned, Roomy
    <3> QED BY <2>2, <3>3, <3>5
  <2>3. CASE d # c
    <3>1. /\ Top(d) =< Top(d)' /\ Top(d)' \in Int
          /\ lost'[d] = {} => Top(d)' = Top(d)
      <4>1. Types /\ Loop BY DEF IInv
      <4>2. produced' = produced /\ served' = served /\ pc # "idle" BY <1>4
      <4> QED BY <1>2, <1>5, <1>6, <1>12, <2>1, <2>3, <4>1, <4>2, TopAfter
    <3>2. Stream(d) /\ Aligned(d) BY <2>1 DEF IInv, Streams
    <3>3. UNCHANGED <<flush_on_eagain, queue[d], got[d], last_write_error[d]>>
      BY <1>2, <1>4, <2>1, <2>3 DEF IInv, Types
    <3>4. lost[d] \subseteq lost'[d] BY <1>4, <2>1, <2>3
    <3>5. pc' # "send" BY <1>6
    <3> QED BY <2>1, <3>1, <3>2, <3>3, <3>4, <3>5, OtherStream DEF IInv
  <2> QED BY <2>2, <2>3
<1>17. Streams' BY <1>16 DEF Streams
<1> QED BY <1>12, <1>13, <1>14, <1>15, <1>17 DEF IInv

LEMMA SendPartIInv ==
  ASSUME IInv, NEW written_len \in 1 .. DatagramSize, NEW errno \in Errors,
         SendPart(written_len, errno)
  PROVE  IInv'
<1>1. /\ written_len \in Int /\ written_len > 0 /\ -1 =< written_len /\ written_len # -1
  BY QueueAssumption
<1>2. pc = "send" /\ written_len < buffer.len /\ AfterShort(written_len, errno)
  BY DEF SendPart
<1>3. got' = IF written_len > 0 THEN [got EXCEPT ![actual_client] = buffer.from + written_len - 1]
             ELSE got
  BY <1>1 DEF SendPart
<1>4. last_write_error' = IF written_len > 0 THEN last_write_error
                          ELSE [last_write_error EXCEPT ![actual_client] = errno]
  BY <1>1 DEF SendPart
<1> QED BY <1>1, <1>2, <1>3, <1>4, AfterShortIInv

LEMMA SendNothingIInv ==
  ASSUME IInv, NEW errno \in Errors, SendNothing(errno)
  PROVE  IInv'
<1>1. pc = "send" BY DEF SendNothing
<1>2. buffer.len > 0 /\ buffer.len \in Int
  <2>1. /\ Counted(queue[actual_client]) /\ queue[actual_client].pkts \in Seq(Pieces)
        /\ produced \in Nat /\ \E n \in Nat : produced = n * DatagramSize
    BY <1>1, Serving, QueueOf DEF IInv
  <2>2. buffer \in Pieces /\ data_from_queue \in BOOLEAN BY DEF IInv, Types
  <2>3. CASE data_from_queue
    <3>1. queue[actual_client].pkts # <<>> /\ buffer = Head(queue[actual_client].pkts)
      BY <1>1, <2>3 DEF IInv, Sending
    <3>2. /\ buffer = queue[actual_client].pkts[1]
          /\ 1 \in 1 .. Len(queue[actual_client].pkts)
      BY <2>1, <3>1, HeadTailProperties, EmptySeq
    <3> QED BY <2>1, <2>2, <3>2, PieceInts DEF Counted
  <2>4. CASE ~ data_from_queue
    <3>1. buffer = Fresh BY <1>1, <2>4 DEF IInv, Sending
    <3> QED BY <2>1, <2>2, <3>1, FreshInDatagram, PieceInts
  <2> QED BY <2>2, <2>3, <2>4
<1>3. errno # "none" BY DEF Errors
<1> DEFINE w == IF errno = last_write_error[actual_client] THEN -1 ELSE 0
<1>4. w \in Int /\ -1 =< w /\ w < buffer.len /\ ~ (w > 0) BY <1>2
<1>5. w = -1 => last_write_error[actual_client] # "none" BY <1>3
<1>6. AfterShort(w, errno) BY DEF SendNothing
<1>7. /\ got' = got
      /\ last_write_error' = [last_write_error EXCEPT ![actual_client] = errno]
  BY DEF SendNothing
<1> HIDE DEF w
<1> QED BY <1>1, <1>4, <1>5, <1>6, <1>7, AfterShortIInv

LEMMA NextIInv == IInv /\ [Next]_vars => IInv'
<1> SUFFICES ASSUME IInv, [Next]_vars PROVE IInv' OBVIOUS
<1>1. CASE Tick BY <1>1, TickIInv
<1>2. ASSUME NEW c \in Clients, Connect(c) PROVE IInv' BY <1>2, ConnectIInv
<1>3. ASSUME NEW c \in Clients, Leave(c) PROVE IInv' BY <1>3, LeaveIInv
<1>4. CASE Datagram BY <1>4, DatagramIInv
<1>5. CASE Choose BY <1>5, ChooseIInv
<1>6. CASE SendWhole BY <1>6, SendWholeIInv
<1>7. ASSUME NEW errno \in Errors, SendNothing(errno) PROVE IInv' BY <1>7, SendNothingIInv
<1>8. ASSUME NEW errno \in Errors, NEW written_len \in 1 .. DatagramSize,
             SendPart(written_len, errno)
      PROVE  IInv'
  BY <1>8, SendPartIInv
<1>9. CASE UNCHANGED vars
  <2>1. UNCHANGED <<flush_on_eagain, now, produced, clients, queue, consecutive_errors,
                    first_error_time, last_write_error, pc, actual_client, buffer,
                    data_from_queue, packets_left, got, lost, last_whole, served, backlog>>
    BY <1>9 DEF vars, errVars, callVars, histVars
  <2>2. Types' BY <2>1 DEF IInv, Types
  <2>3. AllCounted' /\ ErrorsDated' BY <2>1 DEF IInv, AllCounted, ErrorsDated
  <2>4. Loop' /\ Sending' BY <2>1 DEF IInv, Loop, ServingAt, Sending, Fresh
  <2>5. Streams' BY <2>1 DEF IInv, Streams, Stream, Aligned, Roomy, Top, Connected
  <2> QED BY <2>2, <2>3, <2>4, <2>5 DEF IInv
<1> QED BY <1>1, <1>2, <1>3, <1>4, <1>5, <1>6, <1>7, <1>8, <1>9 DEF Next

-----------------------------------------------------------------------------
(* THEOREMS *)

\* The invariant of unicast_data_send that the theorems below rest on
THEOREM QueueInvariant == Spec => []IInv
<1> QED BY InitIInv, NextIInv, PTL DEF Spec

\* Every variable keeps its type, and no queue reaches unicast_queue_size whatever send()
\* takes (unicast_queue_add_data, unicast_queue_requeue).
THEOREM TypeCorrect == Spec => []TypeOK
<1>1. IInv => TypeOK
  <2> SUFFICES ASSUME IInv PROVE TypeOK OBVIOUS
  <2>1. ASSUME NEW c \in Clients
        PROVE  /\ queue[c].pkts # <<>> => queue[c].data_bytes_in_queue < queue_max_size
               /\ \A i \in DOMAIN queue[c].pkts : queue[c].pkts[i].len > 0
    <3>1. Counted(queue[c]) /\ queue[c].pkts \in Seq(Pieces) BY QueueOf DEF IInv
    <3>2. DOMAIN queue[c].pkts = 1 .. Len(queue[c].pkts) BY <3>1, LenProperties
    <3> QED BY <3>1, <3>2 DEF Counted
  <2> QED BY <2>1 DEF IInv, Types, TypeOK
<1> QED BY <1>1, QueueInvariant, PTL

\* data_bytes_in_queue is the number of bytes in the queue, after any sequence of partial
\* writes, requeues and flushes.
THEOREM BytesCounted == Spec => []BytesAgree
<1>1. IInv => BytesAgree BY DEF IInv, AllCounted, Counted, BytesAgree
<1> QED BY <1>1, QueueInvariant, PTL

\* What is pending of the client being sent a datagram, and of the others
LEMMA PendingIs ==
  ASSUME IInv, NEW c \in Connected
  PROVE  /\ c \in Clients /\ got[c] \in Int /\ produced \in Nat /\ Top(c) \in Int
         /\ Stream(c) /\ Aligned(c) /\ queue[c].pkts \in Seq(Pieces)
         /\ \/ /\ pc = "send" /\ c = actual_client /\ ~ data_from_queue
               /\ queue[c].pkts = <<>> /\ buffer = Fresh
               /\ Pending(c) = <<Fresh>> /\ Len(Pending(c)) = 1
               /\ Fresh \in Pieces /\ End(Fresh) = produced /\ InDatagram(Fresh)
               /\ Fresh.from = produced - DatagramSize + 1
               /\ Top(c) = produced - DatagramSize /\ c \in served
            \/ /\ Pending(c) = queue[c].pkts
               /\ Top(c) = IF pc = "idle" \/ c \in served THEN produced
                           ELSE produced - DatagramSize
<1>1. clients \in Seq(Clients) /\ produced \in Nat /\ got \in [Clients -> Int]
  BY DEF IInv, Types
<1>2. c \in Clients BY <1>1, ListProperties DEF Connected
<1>3. /\ Stream(c) /\ Aligned(c) /\ queue[c].pkts \in Seq(Pieces) /\ got[c] \in Int
      /\ Top(c) \in Int
  BY <1>1, <1>2, QueueOf, TopInt DEF IInv, Streams
<1>4. CASE pc = "send" /\ c = actual_client /\ ~ data_from_queue
  <2>1. queue[c].pkts = <<>> /\ buffer = Fresh BY <1>4 DEF IInv, Sending
  <2>2. Pending(c) = <<Fresh>> /\ Len(Pending(c)) = 1 BY <1>4, <2>1 DEF Pending
  <2>3. \E n \in Nat : produced = n * DatagramSize BY DEF IInv, Loop
  <2>4. /\ Fresh \in Pieces /\ End(Fresh) = produced /\ InDatagram(Fresh)
        /\ Fresh.from = produced - DatagramSize + 1
    BY <1>1, <2>3, FreshInDatagram
  <2>5. c \in served BY <1>4 DEF IInv, Loop, ServingAt
  <2>6. Top(c) = produced - DatagramSize BY <1>4 DEF Top
  <2> QED BY <1>1, <1>2, <1>3, <1>4, <2>1, <2>2, <2>4, <2>5, <2>6
<1>5. CASE ~ (pc = "send" /\ c = actual_client /\ ~ data_from_queue)
  <2>1. Pending(c) = queue[c].pkts BY <1>5 DEF Pending
  <2>2. Top(c) = IF pc = "idle" \/ c \in served THEN produced ELSE produced - DatagramSize
    BY <1>5 DEF Top
  <2> QED BY <1>1, <1>2, <1>3, <2>1, <2>2
<1> QED BY <1>4, <1>5

\* A client is sent the bytes of the stream in order and none of them twice, from the
\* datagram or from its queue, whole or in part (unicast_data_send).
THEOREM InOrder == Spec => []SentInOrder
<1>1. IInv => SentInOrder
  <2> SUFFICES ASSUME IInv, NEW c \in Connected, NEW i \in DOMAIN Pending(c)
               PROVE  LET piece == Pending(c)[i] IN
                      /\ piece.from >= Earliest(c, i) /\ End(piece) =< produced
                      /\ ~ flush_on_eagain /\ 2 * DatagramSize < queue_max_size
                         => DatagramOf(piece.from) = DatagramOf(End(piece))
    BY DEF SentInOrder
  <2>0. /\ c \in Clients /\ got[c] \in Int /\ produced \in Nat /\ Top(c) \in Int
        /\ Stream(c) /\ Aligned(c) /\ queue[c].pkts \in Seq(Pieces)
    BY PendingIs
  <2>1. CASE /\ queue[c].pkts = <<>> /\ Pending(c) = <<Fresh>>
             /\ Fresh \in Pieces /\ End(Fresh) = produced /\ InDatagram(Fresh)
             /\ Fresh.from = produced - DatagramSize + 1
             /\ Top(c) = produced - DatagramSize
    <3>1. i = 1 /\ Pending(c)[i] = Fresh BY <2>1
    <3>2. got[c] =< Top(c) BY <2>0, <2>1, EmptyChain DEF Stream
    <3>3. Earliest(c, i) = got[c] + 1 BY <3>1 DEF Earliest
    <3>4. Fresh.from \in Int BY <2>1, PieceInts
    <3> QED BY <2>0, <2>1, <3>1, <3>2, <3>3, <3>4, QueueAssumption DEF InDatagram
  <2>2. CASE Pending(c) = queue[c].pkts
    <3> DEFINE s == queue[c].pkts
    <3>1. i \in 1 .. Len(s) /\ i \in 0 .. Len(s) /\ Len(s) \in Nat
      BY <2>0, <2>2, LenProperties
    <3>2. s[i].from > Before(got[c], s, i - 1) /\ Before(got[c], s, i) =< Top(c)
      BY <2>0, <3>1 DEF Stream, Chain
    <3>3. Before(got[c], s, i) = End(s[i]) BY <3>1 DEF Before
    <3>4. Earliest(c, i) = Before(got[c], s, i - 1) + 1
      BY <2>2, <3>1 DEF Earliest, Before
    <3>5. s[i] \in Pieces BY <2>0, <3>1, ElementOfSeq
    <3>6. Before(got[c], s, i - 1) \in Int
      <4>1. CASE i = 1 BY <2>0, <4>1 DEF Before
      <4>2. CASE i # 1
        <5>1. i - 1 \in 1 .. Len(s) BY <3>1, <4>2
        <5>2. s[i - 1] \in Pieces BY <2>0, <5>1, ElementOfSeq
        <5>3. End(s[i - 1]) \in Int BY <5>2, PieceInts
        <5>4. i - 1 # 0 BY <3>1, <4>2
        <5>5. Before(got[c], s, i - 1) = End(s[i - 1]) BY <5>4 DEF Before
        <5> QED BY <5>3, <5>5
      <4> QED BY <4>1, <4>2
    <3>7. s[i].from >= Earliest(c, i)
      <4>1. s[i].from \in Int BY <3>5, PieceInts
      <4>2. \A f, b \in Int : f > b => f >= b + 1 OBVIOUS
      <4>3. s[i].from >= Before(got[c], s, i - 1) + 1 BY <3>2, <3>6, <4>1, <4>2
      <4> QED BY <3>4, <4>3
    <3>8. End(s[i]) =< produced
      <4>1. End(s[i]) \in Int /\ Top(c) =< produced
        BY <3>5, PieceInts, TopInt DEF IInv
      <4> QED BY <2>0, <3>2, <3>3, <4>1
    <3>9. Roomy => InDatagram(s[i]) BY <2>0, <3>1 DEF Aligned
    <3> QED BY <2>2, <3>7, <3>8, <3>9 DEF Roomy, InDatagram
  <2> QED BY <2>1, <2>2, PendingIs
<1> QED BY <1>1, QueueInvariant, PTL

\* A client misses bytes only when its queue was full or flushed, when the client before it
\* was disconnected, or when a part of a queued packet was sent.
THEOREM Explained == Spec => []HolesExplained
<1>1. IInv => HolesExplained
  <2> SUFFICES ASSUME IInv, NEW c \in Connected, lost[c] = {}
               PROVE  NoHole(c)
    BY DEF HolesExplained
  <2>0. /\ c \in Clients /\ got[c] \in Int /\ produced \in Nat /\ Top(c) \in Int
        /\ queue[c].pkts \in Seq(Pieces) /\ Whole(got[c], queue[c].pkts, Top(c))
    BY PendingIs DEF Stream
  <2>1. CASE /\ queue[c].pkts = <<>> /\ Pending(c) = <<Fresh>> /\ c \in served
             /\ Fresh \in Pieces /\ End(Fresh) = produced
             /\ Fresh.from = produced - DatagramSize + 1
             /\ Top(c) = produced - DatagramSize
    <3>1. got[c] = Top(c) BY <2>0, <2>1, EmptyChain
    <3>2. Earliest(c, 1) = got[c] + 1 BY DEF Earliest
    <3>3. Len(Pending(c)) = 1 /\ DOMAIN Pending(c) = {1} /\ Pending(c)[1] = Fresh BY <2>1
    <3>4. Earliest(c, 2) = End(Fresh) + 1 BY <3>3 DEF Earliest
    <3>5. Fresh.from = Earliest(c, 1) BY <2>0, <2>1, <3>1, <3>2, QueueAssumption
    <3>6. Earliest(c, Len(Pending(c)) + 1) - 1 = produced BY <2>0, <2>1, <3>3, <3>4
    <3> QED BY <2>1, <3>3, <3>5, <3>6 DEF NoHole
  <2>2. CASE /\ Pending(c) = queue[c].pkts
             /\ Top(c) = IF pc = "idle" \/ c \in served THEN produced
                         ELSE produced - DatagramSize
    <3> DEFINE s == queue[c].pkts
    <3>1. DOMAIN s = 1 .. Len(s) /\ Len(s) \in Nat BY <2>0, LenProperties
    <3>2. ASSUME NEW i \in 1 .. Len(s) + 1 PROVE Earliest(c, i) = Before(got[c], s, i - 1) + 1
      BY <2>2, <3>1 DEF Earliest, Before
    <3>3. \A i \in 1 .. Len(s) : s[i].from = Earliest(c, i)
      BY <2>0, <3>1, <3>2 DEF Whole
    <3>4. Earliest(c, Len(s) + 1) - 1 = Top(c)
      <4>1. Len(s) + 1 \in 1 .. Len(s) + 1 /\ (Len(s) + 1) - 1 = Len(s) BY <3>1
      <4>2. Before(got[c], s, Len(s)) = Top(c) BY <2>0 DEF Whole
      <4> QED BY <2>0, <3>2, <4>1, <4>2
    <3> QED BY <2>2, <3>1, <3>3, <3>4 DEF NoHole
  <2> QED BY <2>1, <2>2, PendingIs
<1> QED BY <1>1, QueueInvariant, PTL

\* The sender disconnects a client only when it has not once taken all it was sent for
\* longer than consecutive_errors_timeout.
THEOREM ClosedOnlyAfterTimeout == Spec => ClosedAfterTimeout
<1> DEFINE A == \A c \in Connected \ Connected' :
                   pc = "send" => now - last_whole[c] > ErrorsTimeout
<1>1. IInv /\ [Next]_vars => [A]_clients
  <2> SUFFICES ASSUME IInv, Next, clients' # clients, pc = "send", NEW c \in Connected \ Connected'
               PROVE  now - last_whole[c] > ErrorsTimeout
    BY DEF vars
  <2>1. ASSUME NEW w, NEW errno, AfterShort(w, errno) PROVE now - last_whole[c] > ErrorsTimeout
    <3>1. PICK k \in 1 .. Len(clients) : ServingAt(k) BY Serving
    <3>2. clients \in Seq(Clients) /\ Distinct /\ actual_client \in Clients BY Serving
    <3>3. TimedOut(actual_client) /\ clients' = Unlinked(actual_client)
      BY <2>1 DEF AfterShort
    <3>4. c = actual_client
      <4> SUFFICES ASSUME c # actual_client PROVE c \in Connected' OBVIOUS
      <4>1. PICK j \in 1 .. Len(clients) : clients[j] = c BY <3>2, ListProperties DEF Connected
      <4>2. clients[k] = actual_client BY <3>1 DEF ServingAt
      <4>3. /\ clients' \in Seq(Clients) /\ Len(clients') = Len(clients) - 1
            /\ \A i \in 1 .. Len(clients) - 1 :
                  clients'[i] = IF i < k THEN clients[i] ELSE clients[i + 1]
        BY <3>2, <3>3, <4>2, WithoutOne
      <4>4. j # k /\ Len(clients) \in Nat BY <3>2, <4>1, <4>2, ListProperties
      <4> DEFINE i == IF j < k THEN j ELSE j - 1
      <4>5. i \in 1 .. Len(clients') /\ clients'[i] = clients[j] BY <4>3, <4>4
      <4> QED BY <4>1, <4>3, <4>5, ListProperties DEF Connected
    <3>5. /\ consecutive_errors[c] /\ now - first_error_time[c] > ErrorsTimeout
          /\ first_error_time[c] >= last_whole[c]
      BY <3>2, <3>3, <3>4 DEF TimedOut, IInv, ErrorsDated
    <3>6. now \in Nat /\ first_error_time[c] \in Nat /\ last_whole[c] \in Nat
          /\ ErrorsTimeout \in Nat
      BY <3>2, <3>4, QueueAssumption DEF IInv, Types
    <3> QED BY <3>5, <3>6
  <2>2. ~ Tick /\ ~ Datagram /\ ~ Choose /\ ~ SendWhole
    BY DEF Tick, Datagram, Choose, SendWhole
  <2>3. \A d \in Clients : ~ Connect(d) /\ ~ Leave(d) BY DEF Connect, Leave
  <2>4. CASE \E errno \in Errors : SendNothing(errno)
    <3>1. \E w, errno : AfterShort(w, errno) BY <2>4 DEF SendNothing
    <3> QED BY <2>1, <3>1
  <2>5. CASE \E errno \in Errors : \E written_len \in 1 .. DatagramSize :
                SendPart(written_len, errno)
    <3>1. \E w, errno : AfterShort(w, errno) BY <2>5 DEF SendPart
    <3> QED BY <2>1, <3>1
  <2> QED BY <2>2, <2>3, <2>4, <2>5 DEF Next
<1> QED BY <1>1, QueueInvariant, PTL DEF Spec, ClosedAfterTimeout

\* A client that takes all it is sent catches up: each call sends one packet of its queue
\* more than it adds, when UNICAST_MULTIPLE_QUEUE_SEND is 2.
THEOREM CatchUp == Spec => CatchesUp
<1> DEFINE A == \A c \in Clients :
                   c = actual_client /\ pc = "send" /\ pc' # "send" /\ ~ consecutive_errors'[c]
                   => Len(queue'[c].pkts) =< backlog - (MultipleSend - 1) \/ queue'[c].pkts = <<>>
<1>1. IInv /\ [Next]_vars => [A]_pc
  <2> SUFFICES ASSUME IInv, Next, NEW c \in Clients, c = actual_client,
                      pc = "send", pc' # "send", ~ consecutive_errors'[c]
               PROVE  \/ Len(queue'[c].pkts) =< backlog - (MultipleSend - 1)
                      \/ queue'[c].pkts = <<>>
    BY DEF vars, callVars
  <2>1. \A w, errno : ~ AfterShort(w, errno)
    <3> SUFFICES ASSUME NEW w, NEW errno, AfterShort(w, errno) PROVE FALSE
      OBVIOUS
    <3>1. consecutive_errors \in [Clients -> BOOLEAN] BY DEF IInv, Types
    <3>2. consecutive_errors' = [consecutive_errors EXCEPT ![actual_client] = TRUE]
      BY DEF AfterShort
    <3>3. consecutive_errors'[c] = TRUE BY <3>1, <3>2
    <3> QED BY <3>3
  <2>2. SendWhole
    <3>1. ~ Tick /\ ~ Datagram /\ ~ Choose BY DEF Tick, Datagram, Choose, callVars
    <3>2. \A d \in Clients : ~ Connect(d) /\ ~ Leave(d) BY DEF Connect, Leave
    <3>3. \A errno \in Errors : ~ SendNothing(errno) BY <2>1 DEF SendNothing
    <3>4. \A errno \in Errors : \A written_len \in 1 .. DatagramSize :
             ~ SendPart(written_len, errno)
      BY <2>1 DEF SendPart
    <3> QED BY <3>1, <3>2, <3>3, <3>4 DEF Next
  <2>3. /\ Counted(queue[c]) /\ queue[c].pkts \in Seq(Pieces) /\ Len(queue[c].pkts) \in Nat
        /\ queue \in [Clients -> Queues]
    BY QueueOf DEF IInv, Types
  <2>4. CASE ~ data_from_queue
    <3>1. queue[c].pkts = <<>> BY <2>4 DEF IInv, Sending
    <3>2. queue'[c] = queue[c] BY <2>2, <2>3, <2>4 DEF SendWhole
    <3> QED BY <3>1, <3>2
  <2>5. CASE data_from_queue
    <3> DEFINE q == Removed(queue[c])
    <3>1. queue[c].pkts # <<>> /\ Len(queue[c].pkts) =< backlog + 1 - (MultipleSend - packets_left)
      BY <2>5 DEF IInv, Sending
    <3>2. q.pkts = Tail(queue[c].pkts) BY <2>3, <3>1, RemovedCounted
    <3>3. Len(Tail(queue[c].pkts)) = Len(queue[c].pkts) - 1 BY <2>3, <3>1, HeadTailProperties
    <3>4. queue'[c] = q /\ ~ OneMore(q) BY <2>2, <2>3, <2>5 DEF SendWhole
    <3>5. q.pkts = <<>> \/ packets_left =< 1
      <4>1. packets_left \in Int BY QueueAssumption DEF IInv, Types
      <4> QED BY <3>4, <4>1 DEF OneMore
    <3> HIDE DEF q
    <3>6. CASE q.pkts = <<>> BY <3>4, <3>6
    <3>7. CASE packets_left =< 1
      <4>1. packets_left \in Int /\ MultipleSend \in Nat /\ backlog \in Nat
        BY QueueAssumption DEF IInv, Types
      <4>2. Len(q.pkts) = Len(queue[c].pkts) - 1 /\ queue'[c].pkts = q.pkts
        BY <3>2, <3>3, <3>4
      <4>3. \A l, b, m, n \in Int : l =< b + 1 - (m - n) /\ n =< 1 => l - 1 =< b - (m - 1)
        OBVIOUS
      <4>4. Len(queue[c].pkts) - 1 =< backlog - (MultipleSend - 1)
        BY <2>3, <3>1, <3>7, <4>1, <4>3
      <4> QED BY <4>2, <4>4
    <3> QED BY <3>5, <3>6, <3>7
  <2> QED BY <2>4, <2>5
<1> QED BY <1>1, QueueInvariant, PTL DEF Spec, CatchesUp
=============================================================================
