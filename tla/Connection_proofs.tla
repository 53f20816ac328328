------------------------- MODULE Connection_proofs -------------------------
(***************************************************************************)
(* Proofs about one connection: the end that sends (SendQueue), and both   *)
(* ends (Connection).                                                      *)
(*                                                                         *)
(* SendInv says of the sender that what it was given is what it has sent   *)
(* and what its list holds, each buffer being a part of a message that     *)
(* fits it, and that the count is the number of queued bytes, wrapped.     *)
(* Every action either hands bytes over, takes some from the head of the   *)
(* list, or breaks the connection; the lemmas on Wrap and on FlattenSeq    *)
(* say what that does to the count and to the queue.  ReadInv adds that    *)
(* the reader holds what it took from the wire.  The refinements follow    *)
(* from both, prefix by prefix.                                            *)
(***************************************************************************)
EXTENDS Connection, FlattenLemmas

USE SendQueueAssumption

-----------------------------------------------------------------------------
(* The int that counts.                                                    *)

Width == 2 * (INT_MAX + 1)

\* Division by d.
LEMMA Division ==
  ASSUME NEW d \in Nat \ {0}, NEW x \in Int
  PROVE  x = (x \div d) * d + (x % d) /\ x \div d \in Int /\ x % d \in 0 .. d - 1
OBVIOUS

\* There is one quotient.
LEMMA DivisionUnique ==
  ASSUME NEW d \in Nat \ {0}, NEW q \in Int, NEW r \in 0 .. d - 1,
         NEW p \in Int, NEW s \in 0 .. d - 1, q * d + r = p * d + s
  PROVE  r = s
OBVIOUS

\* A multiple of d does not change the rest.
LEMMA ModPeriod ==
  ASSUME NEW d \in Nat \ {0}, NEW x \in Int, NEW k \in Int
  PROVE  (x + k * d) % d = x % d
<1> DEFINE q == x \div d
           r == x % d
           p == (x + k * d) \div d
           s == (x + k * d) % d
<1>1. x = q * d + r /\ q \in Int /\ r \in 0 .. d - 1
  BY Division
<1>2. x + k * d = p * d + s /\ p \in Int /\ s \in 0 .. d - 1
  <2>1. x + k * d \in Int
    OBVIOUS
  <2> QED
    BY <2>1, Division
<1> HIDE DEF q, r, p, s
<1>3. (q + k) * d + r = p * d + s /\ q + k \in Int
  BY <1>1, <1>2
<1>4. r = s
  BY <1>1, <1>2, <1>3, DivisionUnique
<1> QED
  BY <1>4 DEF r, s

\* Wrap(x) is an int, and differs from x by a multiple of 2^w.
LEMMA WrapIs ==
  ASSUME NEW x \in Int
  PROVE  /\ Wrap(x) \in -(INT_MAX + 1) .. INT_MAX
         /\ \E k \in Int : Wrap(x) = x + k * Width
<1> DEFINE d == 2 * (INT_MAX + 1)
           h == INT_MAX + 1
           k == -((x + h) \div d)
<1>1. d \in Nat \ {0} /\ h \in Int /\ x + INT_MAX + 1 = x + h /\ x + h \in Int
  OBVIOUS
<1>2. /\ x + h = ((x + h) \div d) * d + ((x + h) % d)
      /\ (x + h) \div d \in Int /\ (x + h) % d \in 0 .. d - 1
  <2> HIDE DEF d, h
  <2> QED
    BY <1>1, Division
<1>3. Wrap(x) = ((x + h) % d) - h
  BY <1>1 DEF Wrap
<1>4. Wrap(x) \in -(INT_MAX + 1) .. INT_MAX
  BY <1>1, <1>2, <1>3
<1>5. k \in Int /\ k * d = -(((x + h) \div d) * d)
  <2> HIDE DEF d, h
  <2> QED
    BY <1>1, <1>2
<1>6. Wrap(x) = x + k * d
  <2> HIDE DEF d, h, k
  <2> QED
    BY <1>1, <1>2, <1>3, <1>5
<1> QED
  BY <1>4, <1>5, <1>6 DEF Width

\* A multiple of the width does not change the int.
LEMMA WrapPeriod ==
  ASSUME NEW x \in Int, NEW k \in Int
  PROVE  Wrap(x + k * Width) = Wrap(x)
<1> DEFINE d == 2 * (INT_MAX + 1)
           h == INT_MAX + 1
<1>1. d \in Nat \ {0} /\ h \in Int /\ x + h \in Int
  OBVIOUS
<1>2. (x + h + k * d) % d = (x + h) % d
  <2> HIDE DEF d, h
  <2> QED
    BY <1>1, ModPeriod
<1>3. k * d \in Int /\ x + k * d + INT_MAX + 1 = x + h + k * d /\ x + INT_MAX + 1 = x + h
  OBVIOUS
<1> QED
  BY <1>2, <1>3 DEF Wrap, Width

\* A sum may be wrapped as it is formed.
LEMMA WrapSum ==
  ASSUME NEW x \in Int, NEW y \in Int
  PROVE  Wrap(Wrap(x) + y) = Wrap(x + y)
<1>1. PICK k \in Int : Wrap(x) = x + k * Width
  BY WrapIs
<1>2. Wrap(x) + y = (x + y) + k * Width
  BY <1>1 DEF Width
<1>3. x + y \in Int
  OBVIOUS
<1> QED
  BY <1>2, <1>3, WrapPeriod

\* An int stays as it is.
LEMMA WrapOfInt ==
  ASSUME NEW x \in -(INT_MAX + 1) .. INT_MAX
  PROVE  Wrap(x) = x
<1> DEFINE d == 2 * (INT_MAX + 1)
           y == x + INT_MAX + 1
<1>1. d \in Nat \ {0} /\ y \in 0 .. d - 1 /\ y \in Int
  OBVIOUS
<1>2. y % d = y
  <2> HIDE DEF d, y
  <2>1. y = (y \div d) * d + (y % d) /\ y \div d \in Int /\ y % d \in 0 .. d - 1
    BY <1>1, Division
  <2>2. 0 * d + y = (y \div d) * d + (y % d)
    BY <1>1, <2>1
  <2> QED
    BY <1>1, <2>1, <2>2, DivisionUnique
<1> QED
  BY <1>2 DEF Wrap

-----------------------------------------------------------------------------
(* The bytes in the list.                                                  *)

\* What is left of a message never goes past its end.
Fits(b) == b \in Sbuffer /\ b.at + b.sz <= MaxSize

Chunks(l) == [i \in 1 .. Len(l) |-> Stream(l[i], l[i].sz)]
QueuedOf(l) == FlattenSeq(Chunks(l))

Sbuffers == {b \in Sbuffer : Fits(b)}

\* What sendmsg(2) puts on the wire is bytes, as many as it says.
LEMMA StreamType ==
  ASSUME NEW b, Fits(b), NEW n \in 0 .. b.sz
  PROVE  Stream(b, n) \in Seq(Bytes) /\ Len(Stream(b, n)) = n
<1>1. b.at \in Nat /\ b.sz \in Nat /\ b.at + b.sz <= MaxSize /\ n \in Nat
  BY DEF Fits, Sbuffer
<1>2. ASSUME NEW i \in 1 .. n
      PROVE  [msg |-> b.msg, byte |-> b.at + i, fd |-> IF i = 1 THEN b.fd ELSE NoFd] \in Bytes
  <2>1. b.at + i \in 1 .. MaxSize
    BY <1>1
  <2> QED
    BY <2>1 DEF Fits, Sbuffer, Bytes
<1>3. Stream(b, n) \in [1 .. n -> Bytes]
  BY <1>2 DEF Stream
<1> QED
  BY <1>1, <1>3

\* The buffers of the list, each as its bytes.
LEMMA ChunksType ==
  ASSUME NEW l \in Seq(Sbuffers)
  PROVE  Chunks(l) \in Seq(Seq(Bytes)) /\ Len(Chunks(l)) = Len(l)
<1>1. \A i \in 1 .. Len(l) : Stream(l[i], l[i].sz) \in Seq(Bytes)
  <2> SUFFICES ASSUME NEW i \in 1 .. Len(l) PROVE Stream(l[i], l[i].sz) \in Seq(Bytes)
    OBVIOUS
  <2>1. Fits(l[i])
    BY DEF Sbuffers
  <2>2. l[i].sz \in 0 .. l[i].sz
    BY <2>1 DEF Fits, Sbuffer
  <2> QED
    BY <2>1, <2>2, StreamType
<1>2. Len(l) \in Nat
  BY LenProperties
<1>3. Chunks(l) \in [1 .. Len(l) -> Seq(Bytes)]
  BY <1>1 DEF Chunks
<1> QED
  BY <1>2, <1>3

\* What the list holds is bytes.
LEMMA QueuedType ==
  ASSUME NEW l \in Seq(Sbuffers)
  PROVE  QueuedOf(l) \in Seq(Bytes)
BY ChunksType, FlattenType DEF QueuedOf

\* An empty list holds none.
LEMMA QueuedEmpty == QueuedOf(<<>>) = <<>>
<1>1. Chunks(<<>>) = <<>>
  BY DEF Chunks
<1> QED
  BY <1>1, FlattenEmpty DEF QueuedOf

\* A buffer that is appended comes last.
LEMMA QueuedAppend ==
  ASSUME NEW l \in Seq(Sbuffers), NEW b, Fits(b)
  PROVE  QueuedOf(Append(l, b)) = QueuedOf(l) \o Stream(b, b.sz)
<1>1. b \in Sbuffers
  BY DEF Fits, Sbuffers
<1>2. Append(l, b) \in Seq(Sbuffers)
  BY <1>1, AppendProperties
<1>3. b.sz \in 0 .. b.sz
  BY DEF Fits, Sbuffer
<1>4. Stream(b, b.sz) \in Seq(Bytes)
  BY <1>3, StreamType
<1>5. Chunks(Append(l, b)) = Append(Chunks(l), Stream(b, b.sz))
  <2>1. /\ Chunks(l) \in Seq(Seq(Bytes)) /\ Len(Chunks(l)) = Len(l)
        /\ Chunks(Append(l, b)) \in Seq(Seq(Bytes))
        /\ Len(Chunks(Append(l, b))) = Len(l) + 1
    <3>1. Chunks(l) \in Seq(Seq(Bytes)) /\ Len(Chunks(l)) = Len(l)
      BY ChunksType
    <3>2. PICK m \in Seq(Sbuffers) : m = Append(l, b)
      BY <1>2
    <3>3. Chunks(m) \in Seq(Seq(Bytes)) /\ Len(Chunks(m)) = Len(m)
      BY ChunksType
    <3>4. Len(m) = Len(l) + 1
      BY <1>1, <3>2, AppendProperties
    <3> QED
      BY <3>1, <3>2, <3>3, <3>4
  <2>2. /\ Append(Chunks(l), Stream(b, b.sz)) \in Seq(Seq(Bytes))
        /\ Len(Append(Chunks(l), Stream(b, b.sz))) = Len(l) + 1
    BY <1>4, <2>1, AppendProperties
  <2>3. ASSUME NEW i \in 1 .. Len(l) + 1
        PROVE  Chunks(Append(l, b))[i] = Append(Chunks(l), Stream(b, b.sz))[i]
    <3>1. Chunks(Append(l, b))[i] = Stream(Append(l, b)[i], Append(l, b)[i].sz)
      BY <1>1, AppendProperties DEF Chunks
    <3>2. CASE i \in 1 .. Len(l)
      <4>1. Append(l, b)[i] = l[i]
        BY <1>1, <3>2, AppendProperties
      <4>2. Append(Chunks(l), Stream(b, b.sz))[i] = Chunks(l)[i]
        BY <1>4, <2>1, <3>2, AppendProperties
      <4> QED
        BY <3>1, <3>2, <4>1, <4>2 DEF Chunks
    <3>3. CASE i = Len(l) + 1
      <4>1. Append(l, b)[i] = b
        BY <1>1, <3>3, AppendProperties
      <4>2. Append(Chunks(l), Stream(b, b.sz))[i] = Stream(b, b.sz)
        BY <1>4, <2>1, <3>3, AppendProperties
      <4> QED
        BY <3>1, <4>1, <4>2
    <3>4. i \in 1 .. Len(l) \/ i = Len(l) + 1
      BY LenProperties
    <3> QED
      BY <3>2, <3>3, <3>4
  <2> QED
    BY <2>1, <2>2, <2>3, SeqEqual
<1> QED
  BY <1>4, <1>5, ChunksType, FlattenAppend DEF QueuedOf

\* The head comes first.
LEMMA QueuedHead ==
  ASSUME NEW l \in Seq(Sbuffers), l # <<>>
  PROVE  QueuedOf(l) = Stream(Head(l), Head(l).sz) \o QueuedOf(Tail(l))
<1>1. Chunks(l) \in Seq(Seq(Bytes)) /\ Len(Chunks(l)) = Len(l) /\ Len(l) \in Nat \ {0}
  BY ChunksType, EmptySeq
<1>2. Chunks(l) # <<>>
  BY <1>1, EmptySeq
<1>3. Head(Chunks(l)) = Stream(Head(l), Head(l).sz)
  BY <1>1 DEF Chunks
<1>4. Tail(Chunks(l)) = Chunks(Tail(l))
  BY <1>1 DEF Chunks
<1> QED
  BY <1>1, <1>2, <1>3, <1>4, FlattenHead DEF QueuedOf

\* What is left of b after n bytes.
Rest(b, n) == [b EXCEPT !.at = @ + n, !.sz = @ - n, !.fd = IF n > 0 THEN NoFd ELSE @]

\* A message may be sent in two parts.
LEMMA StreamSplit ==
  ASSUME NEW b, Fits(b), NEW n \in 0 .. b.sz - 1
  PROVE  /\ Fits(Rest(b, n)) /\ Rest(b, n).sz = b.sz - n
         /\ Stream(b, n) \o Stream(Rest(b, n), b.sz - n) = Stream(b, b.sz)
<1> DEFINE r == Rest(b, n)
<1>1. /\ b \in Sbuffer /\ b.at \in 0 .. MaxSize /\ b.sz \in 1 .. MaxSize /\ b.at + b.sz <= MaxSize
      /\ n \in Nat /\ n < b.sz
  BY DEF Fits, Sbuffer
<1>2. /\ r.msg = b.msg /\ r.at = b.at + n /\ r.sz = b.sz - n
      /\ r.fd = IF n > 0 THEN NoFd ELSE b.fd
  BY <1>1 DEF Rest, Sbuffer
<1>3. Fits(r)
  <2>1. r.at \in 0 .. MaxSize /\ r.sz \in 1 .. MaxSize /\ r.at + r.sz <= MaxSize
    BY <1>1, <1>2
  <2>2. r \in Sbuffer
    BY <1>1, <1>2, <2>1 DEF Rest, Sbuffer
  <2> QED
    BY <2>1, <2>2 DEF Fits
<1> HIDE DEF r
<1>4. b.sz \in 0 .. b.sz /\ n \in 0 .. b.sz /\ b.sz - n \in 0 .. r.sz /\ n + (b.sz - n) = b.sz
  BY <1>1, <1>2
<1> DEFINE x == Stream(b, n)
           y == Stream(r, b.sz - n)
           z == Stream(b, b.sz)
<1>5. /\ x \in Seq(Bytes) /\ Len(x) = n /\ y \in Seq(Bytes) /\ Len(y) = b.sz - n
      /\ z \in Seq(Bytes) /\ Len(z) = b.sz
  BY <1>3, <1>4, StreamType
<1>6. x \o y \in Seq(Bytes) /\ Len(x \o y) = b.sz
  <2> HIDE DEF x, y, z
  <2>1. x \o y \in Seq(Bytes) /\ Len(x \o y) = Len(x) + Len(y)
    BY <1>5, ConcatProperties
  <2> QED
    BY <1>4, <1>5, <2>1
<1>7. ASSUME NEW i \in 1 .. b.sz PROVE (x \o y)[i] = z[i]
  <2>1. i \in Nat \ {0}
    BY <1>1
  <2>2. z[i] = [msg |-> b.msg, byte |-> b.at + i, fd |-> IF i = 1 THEN b.fd ELSE NoFd]
    BY DEF Stream
  <2>3. CASE i <= n
    <3>1. i \in 1 .. n
      BY <1>1, <2>3
    <3>2. (x \o y)[i] = x[i]
      <4> HIDE DEF x, y
      <4> QED
        BY <1>4, <1>5, <2>3, ConcatProperties
    <3>3. x[i] = [msg |-> b.msg, byte |-> b.at + i, fd |-> IF i = 1 THEN b.fd ELSE NoFd]
      BY <3>1 DEF Stream
    <3> QED
      BY <2>2, <3>2, <3>3
  <2>4. CASE ~(i <= n)
    <3>1. i - n \in 1 .. b.sz - n
      BY <1>1, <2>4
    <3>2. (x \o y)[i] = y[i - n]
      <4> HIDE DEF x, y
      <4> QED
        BY <1>4, <1>5, <2>4, ConcatProperties
    <3>3. y[i - n] = [msg |-> r.msg, byte |-> r.at + (i - n),
                      fd |-> IF i - n = 1 THEN r.fd ELSE NoFd]
      BY <3>1 DEF Stream
    <3>4. r.at + (i - n) = b.at + i
      BY <1>1, <1>2, <2>1
    <3>5. (IF i - n = 1 THEN r.fd ELSE NoFd) = (IF i = 1 THEN b.fd ELSE NoFd)
      BY <1>1, <1>2, <2>1, <2>4
    <3> QED
      BY <1>2, <2>2, <3>2, <3>3, <3>4, <3>5
  <2> QED
    BY <2>3, <2>4
<1>8. x \o y = z
  <2> HIDE DEF x, y, z
  <2> QED
    BY <1>5, <1>6, <1>7, SeqEqual
<1> QED
  BY <1>2, <1>3, <1>8 DEF r

-----------------------------------------------------------------------------
(* The inductive invariant of the sending end.                             *)

\* g begins with w, and what follows is of S.
AheadOf(S, g, w) == \E rest \in Seq(S) : g = w \o rest
Ahead(g, w) == AheadOf(Bytes, g, w)

PartsFit == list \in Seq(Sbuffers)

Conserved ==
  /\ Ahead(given, wire)
  /\ status # "INVALID" => wire \o Queued = given

Ended ==
  /\ status = "INVALID" => list = <<>> /\ ~flushing
  /\ event = "WRIDONECLOSE" => status = "INVALID" /\ wire = given

Plain == protocol = "TCP" => \A i \in 1 .. Len(given) : given[i].fd = NoFd

SendInv ==
  TypeOK /\ PartsFit /\ Accounting /\ Conserved /\ Ended /\ Plain

-----------------------------------------------------------------------------
(* What the actions do, in terms of the message and of how much of it is   *)
(* sent.                                                                   *)

\* socket_send takes b, and n bytes of it are sent at once.
Takes(b, n) ==
  /\ Fits(b) /\ n \in 0 .. b.sz
  /\ protocol = "TCP" => b.fd = NoFd
  /\ n # 0 => list = <<>>
  /\ ~flushing /\ status # "INVALID"
  /\ msgs' \in 0 .. MaxMsgs
  /\ ret' \in [n : -1 .. MaxSize, err : BOOLEAN, sent : 0 .. MaxSize]
  /\ given' = given \o Stream(b, b.sz)
  /\ wire' = wire \o Stream(b, n)

SentWhole(b, n) ==
  /\ n = b.sz
  /\ UNCHANGED <<status, list, sbuffersz, slimit, flushing, event>>

Queues(b, n) ==
  /\ n < b.sz
  /\ sbuffersz' = Wrap(sbuffersz + (b.sz - n))
  /\ sbuffersz' <= slimit
  /\ list' = Append(list, Rest(b, n))
  /\ UNCHANGED <<status, slimit, flushing, event>>

Breaks == \E why \in {"SOCKERR", "WBUFOVER", "closed"} : CloseSocket(why)

\* A write of nothing puts nothing on the wire.
LEMMA StreamNothing == ASSUME NEW b PROVE Stream(b, 0) = <<>>
BY DEF Stream

\* What is left of a buffer that was sent in part is a buffer.
LEMMA RestWhole ==
  ASSUME NEW b, Fits(b)
  PROVE  Rest(b, 0) = b
<1>1. b \in Sbuffer /\ b.at \in Int /\ b.sz \in Int /\ 0 \in 0 .. b.sz - 1
  BY DEF Fits, Sbuffer
<1>2. Rest(b, 0) \in Sbuffer
  BY <1>1, StreamSplit DEF Fits
<1>3. b.at + 0 = b.at /\ b.sz - 0 = b.sz
  BY <1>1
<1>4. /\ Rest(b, 0).msg = b.msg /\ Rest(b, 0).at = b.at /\ Rest(b, 0).sz = b.sz
      /\ Rest(b, 0).fd = b.fd
  BY <1>1, <1>3 DEF Rest, Sbuffer
<1> QED
  BY <1>1, <1>2, <1>4 DEF Sbuffer

\* Enqueue appends or breaks the connection.
LEMMA EnqueueCases ==
  ASSUME SendInv, NEW b, Fits(b), NEW m \in 0 .. b.sz - 1,
         NEW n \in -1 .. MaxSize, NEW k \in 0 .. MaxSize, Enqueue(Rest(b, m), n, k)
  PROVE  /\ Queues(b, m) \/ Breaks
         /\ ret' \in [n : -1 .. MaxSize, err : BOOLEAN, sent : 0 .. MaxSize]
<1>1. Rest(b, m).sz = b.sz - m /\ b.sz \in Int /\ m < b.sz
  <2>1. Rest(b, m).sz = b.sz - m
    BY StreamSplit
  <2> QED
    BY <2>1 DEF Fits, Sbuffer
<1>2. CASE /\ CloseSocket("WBUFOVER")
           /\ ret' = [n |-> -1, err |-> TRUE, sent |-> k]
  <2>1. -1 \in -1 .. MaxSize
    OBVIOUS
  <2> QED
    BY <1>2, <2>1 DEF Breaks
<1>3. CASE /\ sbuffersz' = Wrap(sbuffersz + Rest(b, m).sz) /\ sbuffersz' <= slimit
           /\ list' = Append(list, Rest(b, m))
           /\ UNCHANGED <<status, slimit, flushing, event>>
           /\ ret' = [n |-> n, err |-> FALSE, sent |-> k]
  BY <1>1, <1>3 DEF Queues
<1> QED
  BY <1>2, <1>3 DEF Enqueue

\* socket_send and socket_sendfd: the message is sent whole, what is left
\* of it is queued, or the connection breaks.
LEMMA SendCases ==
  ASSUME SendInv, NEW sz \in 1 .. MaxSize,
         NEW cfd \in (IF protocol = "IPC" THEN Cfds ELSE {}) \cup {NoFd}, Send(sz, cfd)
  PROVE  \/ /\ ret' \in [n : -1 .. MaxSize, err : BOOLEAN, sent : 0 .. MaxSize]
            /\ UNCHANGED <<status, list, sbuffersz, slimit, flushing, msgs,
                           given, wire, event>>
         \/ \E b, n : Takes(b, n) /\ (SentWhole(b, n) \/ Queues(b, n) \/ Breaks)
<1> DEFINE b == [msg |-> msgs + 1, at |-> 0, sz |-> sz, fd |-> cfd]
<1>1. CASE protocol = "TCP" /\ status = "HALFCLOSE"
  <2>1. /\ ret' = [n |-> -1, err |-> TRUE, sent |-> 0]
        /\ UNCHANGED <<status, list, sbuffersz, slimit, flushing, msgs,
                       given, wire, event>>
    BY <1>1 DEF Send, Enqueue, SendNow
  <2> QED
    BY <2>1
<1>2. CASE ~(protocol = "TCP" /\ status = "HALFCLOSE")
  <2>1. /\ ~flushing /\ status # "INVALID" /\ msgs' = msgs + 1 /\ msgs < MaxMsgs
        /\ given' = given \o Stream(b, sz)
        /\ \/ list = <<>> /\ SendNow(b)
           \/ list # <<>> /\ Enqueue(b, 0, 0) /\ UNCHANGED wire
    BY <1>2 DEF Send
  <2>2. Fits(b) /\ b.sz = sz /\ b.at = 0 /\ (protocol = "TCP" => b.fd = NoFd) /\ msgs' \in 0 .. MaxMsgs
    <3>1. msgs + 1 \in 1 .. MaxMsgs /\ msgs' \in 0 .. MaxMsgs
      BY <2>1 DEF SendInv, TypeOK
    <3>2. b \in Sbuffer
      BY <3>1 DEF Sbuffer
    <3>3. protocol = "TCP" => cfd = NoFd
      OBVIOUS
    <3> QED
      BY <3>1, <3>2, <3>3 DEF Fits
  <2> HIDE DEF b
  <2>3. 0 \in 0 .. b.sz - 1 /\ sz \in 0 .. b.sz /\ 0 \in 0 .. b.sz /\ sz \in 0 .. MaxSize
        /\ sz \in -1 .. MaxSize /\ 0 \in 0 .. MaxSize /\ 0 \in -1 .. MaxSize /\ -1 \in -1 .. MaxSize
    BY <2>2
  <2>4. wire \o <<>> = wire
    <3>1. wire \in Seq(Bytes)
      BY DEF SendInv, TypeOK
    <3> QED
      BY <3>1, ConcatEmptySeq
  <2>5. ASSUME NEW n \in -1 .. MaxSize, Enqueue(b, n, 0), UNCHANGED wire
        PROVE  Takes(b, 0) /\ (Queues(b, 0) \/ Breaks)
    <3>1. Enqueue(Rest(b, 0), n, 0)
      BY <2>2, <2>5, RestWhole
    <3>2. /\ Queues(b, 0) \/ Breaks
          /\ ret' \in [n : -1 .. MaxSize, err : BOOLEAN, sent : 0 .. MaxSize]
      BY <2>2, <2>3, <3>1, EnqueueCases
    <3>3. wire' = wire \o Stream(b, 0)
      BY <2>4, <2>5, StreamNothing
    <3> QED
      BY <2>1, <2>2, <2>3, <3>2, <3>3 DEF Takes
  <2>6. CASE list # <<>>
    BY <2>1, <2>3, <2>5, <2>6
  <2>7. CASE list = <<>>
    <3>1. CASE /\ wire' = wire \o Stream(b, b.sz)
               /\ UNCHANGED <<status, list, sbuffersz, slimit, flushing, event>>
               /\ ret' = [n |-> IF protocol = "TCP" THEN b.sz ELSE 0,
                          err |-> FALSE, sent |-> b.sz]
      <4>1. ret' \in [n : -1 .. MaxSize, err : BOOLEAN, sent : 0 .. MaxSize]
        BY <2>2, <2>3, <3>1
      <4>2. Takes(b, sz) /\ SentWhole(b, sz)
        BY <2>1, <2>2, <2>3, <2>7, <3>1, <4>1 DEF Takes, SentWhole
      <4> QED
        BY <4>2
    <3>2. ASSUME NEW n \in 1 .. b.sz - 1, wire' = wire \o Stream(b, n),
                 Enqueue([b EXCEPT !.at = n, !.sz = @ - n, !.fd = NoFd], n, n)
          PROVE  \E k : Takes(b, k) /\ (Queues(b, k) \/ Breaks)
      <4>1. n \in 0 .. b.sz - 1 /\ n \in 0 .. b.sz /\ n \in 0 .. MaxSize /\ n \in -1 .. MaxSize /\ n > 0
        BY <2>2
      <4>2. [b EXCEPT !.at = n, !.sz = @ - n, !.fd = NoFd] = Rest(b, n)
        <5>1. b.at + n = n
          BY <2>2, <4>1
        <5> QED
          BY <4>1, <5>1 DEF Rest
      <4>3. /\ Queues(b, n) \/ Breaks
            /\ ret' \in [n : -1 .. MaxSize, err : BOOLEAN, sent : 0 .. MaxSize]
        BY <2>2, <3>2, <4>1, <4>2, EnqueueCases
      <4>4. Takes(b, n)
        BY <2>1, <2>2, <2>7, <3>2, <4>1, <4>3 DEF Takes
      <4> QED
        BY <4>3, <4>4
    <3>3. CASE UNCHANGED wire /\ Enqueue(b, -1, 0)
      BY <2>3, <2>5, <3>3
    <3>4. CASE /\ UNCHANGED wire
               /\ CloseSocket("SOCKERR")
               /\ ret' = [n |-> -1, err |-> TRUE, sent |-> 0]
      <4>1. ret' \in [n : -1 .. MaxSize, err : BOOLEAN, sent : 0 .. MaxSize]
        BY <2>3, <3>4
      <4>2. wire' = wire \o Stream(b, 0)
        BY <2>4, <3>4, StreamNothing
      <4>3. Takes(b, 0) /\ Breaks
        BY <2>1, <2>2, <2>3, <3>4, <4>1, <4>2 DEF Takes, Breaks
      <4> QED
        BY <4>3
    <3> QED
      BY <2>1, <2>7, <3>1, <3>2, <3>3, <3>4 DEF SendNow
  <2> QED
    BY <2>6, <2>7
<1> QED
  BY <1>1, <1>2

\* _send_buffer writes the first n bytes of the list.
Flushes(x) ==
  /\ x \in Seq(Bytes)
  /\ PartsFit'
  /\ Queued = x \o Queued'
  /\ wire' = wire \o x
  /\ sbuffersz' = Wrap(sbuffersz - Len(x))
  /\ flushing' \in BOOLEAN /\ status # "INVALID"
  /\ UNCHANGED <<status, slimit, msgs, given, event, ret>>

\* An iteration of _send_buffer takes bytes from the head of the list.
LEMMA FlushCases ==
  ASSUME SendInv, FlushWrite
  PROVE  \E x : Flushes(x)
<1> DEFINE b == Head(list)
           q == QueuedOf(Tail(list))
<1>1. /\ list \in Seq(Sbuffers) /\ list # <<>> /\ Fits(b) /\ Tail(list) \in Seq(Sbuffers)
      /\ flushing /\ status # "INVALID"
      /\ UNCHANGED <<status, slimit, msgs, given, event, ret>>
  <2>1. list \in Seq(Sbuffers) /\ list # <<>>
    BY DEF SendInv, PartsFit, FlushWrite
  <2>2. Head(list) \in Sbuffers /\ Tail(list) \in Seq(Sbuffers)
    BY <2>1, HeadTailProperties
  <2>3. Fits(b)
    BY <2>2 DEF Sbuffers
  <2> QED
    BY <2>1, <2>2, <2>3 DEF SendInv, Ended, FlushWrite
<1>2. b.sz \in Nat /\ b.sz \in 0 .. b.sz /\ 0 \in 0 .. b.sz
  BY <1>1 DEF Fits, Sbuffer
<1>3. Queued = Stream(b, b.sz) \o q /\ q \in Seq(Bytes)
  BY <1>1, QueuedHead, QueuedType DEF Queued, QueuedOf, Chunks
<1>4. CASE FlushWhole
  <2>1. Stream(b, b.sz) \in Seq(Bytes) /\ Len(Stream(b, b.sz)) = b.sz
    BY <1>1, <1>2, StreamType
  <2>2. /\ list' = Tail(list) /\ wire' = wire \o Stream(b, b.sz)
        /\ sbuffersz' = Wrap(sbuffersz - b.sz) /\ UNCHANGED flushing
    BY <1>4 DEF FlushWhole
  <2>3. PartsFit' /\ Queued' = q
    BY <1>1, <2>2 DEF PartsFit, Queued, QueuedOf, Chunks
  <2>4. Flushes(Stream(b, b.sz))
    <3> HIDE DEF b, q
    <3> QED
      BY <1>1, <1>3, <2>1, <2>2, <2>3 DEF Flushes
  <2> QED
    BY <2>4
<1>5. ASSUME NEW n \in 0 .. MaxSize, FlushSome(n) PROVE \E x : Flushes(x)
  <2>1. /\ n \in 0 .. b.sz - 1 /\ wire' = wire \o Stream(b, n)
        /\ sbuffersz' = Wrap(sbuffersz - n)
        /\ list' = [list EXCEPT ![1] = Rest(b, n)]
        /\ flushing' = FALSE
    BY <1>5 DEF FlushSome, Rest
  <2>2. /\ Fits(Rest(b, n)) /\ Rest(b, n).sz = b.sz - n
        /\ Stream(b, n) \o Stream(Rest(b, n), b.sz - n) = Stream(b, b.sz)
    BY <1>1, <2>1, StreamSplit
  <2>3. n \in 0 .. b.sz /\ b.sz - n \in 0 .. Rest(b, n).sz
    BY <1>2, <2>1, <2>2
  <2>4. /\ Stream(b, n) \in Seq(Bytes) /\ Len(Stream(b, n)) = n
        /\ Stream(Rest(b, n), b.sz - n) \in Seq(Bytes)
    BY <1>1, <2>2, <2>3, StreamType
  <2>5. list' \in Seq(Sbuffers) /\ list' # <<>> /\ Head(list') = Rest(b, n) /\ Tail(list') = Tail(list)
    <3>1. Rest(b, n) \in Sbuffers
      BY <2>2 DEF Fits, Sbuffers
    <3>2. ASSUME NEW S, NEW s \in Seq(S), s # <<>>, NEW e \in S
          PROVE  /\ [s EXCEPT ![1] = e] \in Seq(S) /\ [s EXCEPT ![1] = e] # <<>>
                 /\ Head([s EXCEPT ![1] = e]) = e
                 /\ Tail([s EXCEPT ![1] = e]) = Tail(s)
      <4> DEFINE t == [s EXCEPT ![1] = e]
      <4>1. 1 \in 1 .. Len(s) /\ Len(s) \in Nat \ {0}
        BY <3>2, EmptySeq
      <4>2. /\ t \in Seq(S) /\ Len(t) = Len(s)
            /\ \A j \in 1 .. Len(s) : t[j] = IF j = 1 THEN e ELSE s[j]
        BY <4>1, ExceptSeq
      <4> HIDE DEF t
      <4>3. t # <<>> /\ Head(t) = e
        BY <4>1, <4>2, EmptySeq
      <4>4. Tail(t) = Tail(s)
        <5>1. /\ Tail(t) \in Seq(S) /\ Len(Tail(t)) = Len(s) - 1
              /\ \A j \in 1 .. Len(Tail(t)) : Tail(t)[j] = t[j + 1]
          BY <4>2, <4>3, HeadTailProperties
        <5>2. /\ Tail(s) \in Seq(S) /\ Len(Tail(s)) = Len(s) - 1
              /\ \A j \in 1 .. Len(Tail(s)) : Tail(s)[j] = s[j + 1]
          BY <3>2, HeadTailProperties
        <5>3. \A j \in 1 .. Len(s) - 1 : t[j + 1] = s[j + 1]
          BY <4>1, <4>2
        <5>4. \A j \in 1 .. Len(Tail(t)) : Tail(t)[j] = Tail(s)[j]
          BY <5>1, <5>2, <5>3
        <5> QED
          BY <5>1, <5>2, <5>4, SeqEqual
      <4> QED
        BY <4>2, <4>3, <4>4 DEF t
    <3> QED
      BY <1>1, <2>1, <3>1, <3>2
  <2>6. Queued' = Stream(Rest(b, n), b.sz - n) \o q
    <3>1. QueuedOf(list') = Stream(Head(list'), Head(list').sz) \o QueuedOf(Tail(list'))
      BY <2>5, QueuedHead
    <3>2. Queued' = QueuedOf(list')
      BY DEF Queued, QueuedOf, Chunks
    <3> QED
      BY <2>2, <2>5, <3>1, <3>2
  <2>7. Queued = Stream(b, n) \o Queued'
    <3>1. PICK x \in Seq(Bytes), y \in Seq(Bytes), z \in Seq(Bytes) :
            x = Stream(b, n) /\ y = Stream(Rest(b, n), b.sz - n) /\ z = q
      BY <1>3, <2>4
    <3>2. (x \o y) \o z = x \o (y \o z)
      OBVIOUS
    <3> QED
      BY <1>3, <2>2, <2>6, <3>1, <3>2
  <2>8. Flushes(Stream(b, n))
    <3> HIDE DEF b, q
    <3> QED
      BY <1>1, <2>1, <2>4, <2>5, <2>7 DEF Flushes, PartsFit
  <2> QED
    BY <2>8
<1> QED
  BY <1>4, <1>5 DEF FlushWrite

-----------------------------------------------------------------------------
(* Each action keeps the invariant.                                        *)

\* What is queued may change places with nothing.
Reordered(a, q, x, y) == (a \o q) \o (x \o y) = (a \o x) \o (q \o y)

\* Joining may be grouped either way.
Regrouped(a, b, d) == (a \o b) \o d = a \o (b \o d)

LEMMA JoinRegrouped ==
  ASSUME NEW S, NEW a \in Seq(S), NEW b \in Seq(S), NEW d \in Seq(S)
  PROVE  Regrouped(a, b, d)
BY ConcatAssociative DEF Regrouped

\* What was queued and sent first may be joined first.
LEMMA QueueReordered ==
  ASSUME NEW S, NEW a \in Seq(S), NEW q \in Seq(S), NEW x \in Seq(S), NEW y \in Seq(S),
         x = <<>> \/ q = <<>>
  PROVE  Reordered(a, q, x, y)
<1>1. Regrouped(a, q, y) /\ Regrouped(a, x, y)
  BY JoinRegrouped
<1>2. ASSUME x = <<>> PROVE Reordered(a, q, x, y)
  <2>1. a \o x = a /\ x \o y = y
    BY <1>2, ConcatEmptySeq
  <2> QED
    BY <1>1, <2>1 DEF Reordered, Regrouped
<1>3. ASSUME q = <<>> PROVE Reordered(a, q, x, y)
  <2>1. a \o q = a /\ q \o y = y
    BY <1>3, ConcatEmptySeq
  <2> QED
    BY <1>1, <2>1 DEF Reordered, Regrouped
<1> QED
  BY <1>2, <1>3

\* Every sequence begins with itself.
LEMMA AheadSelf ==
  ASSUME NEW S, NEW s \in Seq(S)
  PROVE  AheadOf(S, s, s)
<1>1. <<>> \in Seq(S) /\ s \o <<>> = s
  BY EmptySeq, ConcatEmptySeq
<1> QED
  BY <1>1 DEF AheadOf

\* Queued of SendQueue, before and after a step.
LEMMA QueuedIsOf == Queued = QueuedOf(list) /\ Queued' = QueuedOf(list')
BY DEF Queued, QueuedOf, Chunks

\* What a message that is taken does to what was given and sent.
LEMMA TakesFlow ==
  ASSUME SendInv, NEW b, NEW n, Takes(b, n), UNCHANGED protocol
  PROVE  /\ given' \in Seq(Bytes) /\ wire' \in Seq(Bytes) /\ Plain'
         /\ n < b.sz =>
              /\ Stream(Rest(b, n), b.sz - n) \in Seq(Bytes)
              /\ Queued \o Stream(Rest(b, n), b.sz - n) \in Seq(Bytes)
              /\ given' = wire' \o (Queued \o Stream(Rest(b, n), b.sz - n))
         /\ n = b.sz => given' = wire' /\ list = <<>>
<1>1. /\ Fits(b) /\ b.sz \in Nat \ {0} /\ n \in 0 .. b.sz /\ b.sz \in 0 .. b.sz
      /\ n # 0 => list = <<>>
      /\ given' = given \o Stream(b, b.sz) /\ wire' = wire \o Stream(b, n)
      /\ protocol = "TCP" => b.fd = NoFd
  BY DEF Takes, Fits, Sbuffer
<1>2. /\ Stream(b, b.sz) \in Seq(Bytes) /\ Len(Stream(b, b.sz)) = b.sz
      /\ Stream(b, n) \in Seq(Bytes)
  BY <1>1, StreamType
<1>3. given \in Seq(Bytes) /\ wire \in Seq(Bytes) /\ given = wire \o Queued
  BY DEF SendInv, TypeOK, Conserved, Takes
<1>4. Queued \in Seq(Bytes) /\ (list = <<>> => Queued = <<>>)
  BY QueuedIsOf, QueuedType, QueuedEmpty DEF SendInv, PartsFit
<1>5. given' \in Seq(Bytes) /\ wire' \in Seq(Bytes)
  BY <1>1, <1>2, <1>3, ConcatProperties
<1>6. Plain'
  <2> SUFFICES ASSUME protocol = "TCP", NEW i \in 1 .. Len(given') PROVE given'[i].fd = NoFd
    BY DEF Plain
  <2>1. Len(given) \in Nat
    BY <1>3, LenProperties
  <2>2. i \in 1 .. Len(given) + b.sz /\ i \in Int
    BY <1>1, <1>2, <1>3, ConcatProperties
  <2>3. given'[i] = IF i <= Len(given) THEN given[i] ELSE Stream(b, b.sz)[i - Len(given)]
    BY <1>1, <1>2, <1>3, <2>2, ConcatProperties
  <2>4. CASE i <= Len(given)
    BY <2>1, <2>2, <2>3, <2>4 DEF SendInv, Plain
  <2>5. CASE ~(i <= Len(given))
    <3>1. i - Len(given) \in 1 .. b.sz
      BY <1>1, <2>1, <2>2, <2>5
    <3>2. Stream(b, b.sz)[i - Len(given)].fd = IF i - Len(given) = 1 THEN b.fd ELSE NoFd
      BY <3>1 DEF Stream
    <3> QED
      BY <1>1, <2>3, <2>5, <3>2
  <2> QED
    BY <2>4, <2>5
<1>7. ASSUME n < b.sz
      PROVE  /\ Stream(Rest(b, n), b.sz - n) \in Seq(Bytes)
             /\ Queued \o Stream(Rest(b, n), b.sz - n) \in Seq(Bytes)
             /\ given' = wire' \o (Queued \o Stream(Rest(b, n), b.sz - n))
  <2> DEFINE x == Stream(b, n)
             y == Stream(Rest(b, n), b.sz - n)
             q == Queued
  <2>1. n \in 0 .. b.sz - 1
    BY <1>1, <1>7
  <2>2. Fits(Rest(b, n)) /\ Rest(b, n).sz = b.sz - n /\ x \o y = Stream(b, b.sz)
    BY <1>1, <2>1, StreamSplit
  <2>3. b.sz - n \in 0 .. Rest(b, n).sz
    BY <1>1, <2>1, <2>2
  <2>4. y \in Seq(Bytes)
    BY <2>2, <2>3, StreamType
  <2>5. x = <<>> \/ q = <<>>
    BY <1>1, <1>4, StreamNothing
  <2> HIDE DEF x, y, q
  <2>6. Reordered(wire, q, x, y)
    BY <1>2, <1>3, <1>4, <2>4, <2>5, QueueReordered DEF x, q
  <2>7. given' = wire' \o (q \o y)
    BY <1>1, <1>3, <2>2, <2>6 DEF Reordered, x, q
  <2>8. q \o y \in Seq(Bytes)
    BY <1>4, <2>4, ConcatProperties DEF q
  <2> QED
    BY <2>4, <2>7, <2>8 DEF y, q
<1>8. ASSUME n = b.sz PROVE given' = wire' /\ list = <<>>
  <2>1. list = <<>>
    BY <1>1, <1>8
  <2>2. wire \o Queued = wire
    BY <1>3, <1>4, <2>1, ConcatEmptySeq
  <2> QED
    BY <1>1, <1>3, <1>8, <2>1, <2>2
<1> QED
  BY <1>5, <1>6, <1>7, <1>8

\* _close_socket.
LEMMA BreaksKeep ==
  ASSUME SendInv, Breaks, UNCHANGED protocol, given' \in Seq(Bytes), wire' \in Seq(Bytes),
         msgs' \in 0 .. MaxMsgs, Ahead(given', wire'), Plain',
         ret' \in [n : -1 .. MaxSize, err : BOOLEAN, sent : 0 .. MaxSize]
  PROVE  SendInv'
<1>1. PICK why \in {"SOCKERR", "WBUFOVER", "closed"} : CloseSocket(why)
  BY DEF Breaks
<1>2. /\ status' = "INVALID" /\ list' = <<>> /\ sbuffersz' = 0 /\ flushing' = FALSE
      /\ event' = why /\ UNCHANGED slimit
  BY <1>1 DEF CloseSocket
<1>3. TypeOK'
  <2>1. list' \in Seq(Sbuffer)
    BY <1>2, EmptySeq
  <2>2. 0 \in -(INT_MAX + 1) .. INT_MAX
    OBVIOUS
  <2> QED
    BY <1>2, <2>1, <2>2 DEF SendInv, TypeOK
<1>4. PartsFit'
  BY <1>2, EmptySeq DEF PartsFit
<1>5. Accounting'
  <2>1. Queued' = <<>>
    BY <1>2, QueuedIsOf, QueuedEmpty
  <2>2. Len(<<>>) = 0 /\ Wrap(0) = 0
    BY WrapOfInt
  <2> QED
    BY <1>2, <2>1, <2>2 DEF Accounting
<1> QED
  BY <1>2, <1>3, <1>4, <1>5 DEF SendInv, Conserved, Ended

\* A call of socket_send keeps the invariant.
LEMMA SendKeeps ==
  ASSUME SendInv, UNCHANGED protocol, NEW b, NEW n, Takes(b, n),
         SentWhole(b, n) \/ Queues(b, n) \/ Breaks
  PROVE  SendInv'
<1>1. /\ given' \in Seq(Bytes) /\ wire' \in Seq(Bytes) /\ Plain'
      /\ n < b.sz =>
           /\ Stream(Rest(b, n), b.sz - n) \in Seq(Bytes)
           /\ Queued \o Stream(Rest(b, n), b.sz - n) \in Seq(Bytes)
           /\ given' = wire' \o (Queued \o Stream(Rest(b, n), b.sz - n))
      /\ n = b.sz => given' = wire' /\ list = <<>>
  BY TakesFlow
<1>2. /\ Fits(b) /\ b.sz \in Nat /\ n \in 0 .. b.sz /\ ~flushing /\ status # "INVALID"
      /\ msgs' \in 0 .. MaxMsgs
      /\ ret' \in [n : -1 .. MaxSize, err : BOOLEAN, sent : 0 .. MaxSize]
  BY DEF Takes, Fits, Sbuffer
<1>3. Ahead(given', wire')
  <2>1. CASE n < b.sz
    BY <1>1, <2>1 DEF Ahead, AheadOf
  <2>2. CASE n = b.sz
    BY <1>1, <2>2, AheadSelf DEF Ahead
  <2> QED
    BY <1>2, <2>1, <2>2
<1>4. CASE SentWhole(b, n)
  <2>1. /\ n = b.sz
        /\ UNCHANGED <<status, list, sbuffersz, slimit, flushing, event>>
    BY <1>4 DEF SentWhole
  <2>2. TypeOK'
    BY <1>1, <1>2, <2>1 DEF SendInv, TypeOK
  <2>3. Queued' = Queued /\ Queued = <<>>
    BY <1>1, <2>1, QueuedIsOf, QueuedEmpty
  <2>4. wire' \o Queued' = given'
    BY <1>1, <2>1, <2>3, ConcatEmptySeq
  <2> QED
    BY <1>1, <1>2, <1>3, <2>1, <2>2, <2>3, <2>4
       DEF SendInv, PartsFit, Accounting, Conserved, Ended
<1>5. CASE Queues(b, n)
  <2> DEFINE r == Rest(b, n)
  <2>1. /\ n < b.sz /\ sbuffersz' = Wrap(sbuffersz + (b.sz - n)) /\ list' = Append(list, r)
        /\ UNCHANGED <<status, slimit, flushing, event>>
    BY <1>5 DEF Queues
  <2>2. n \in 0 .. b.sz - 1
    BY <1>2, <2>1
  <2>3. Fits(r) /\ r.sz = b.sz - n
    BY <1>2, <2>2, StreamSplit
  <2> HIDE DEF r
  <2>4. list \in Seq(Sbuffers) /\ r \in Sbuffers
    BY <2>3 DEF SendInv, PartsFit, Fits, Sbuffers
  <2>5. PartsFit' /\ list' # <<>>
    BY <2>1, <2>4, AppendProperties DEF PartsFit
  <2>6. Queued' = Queued \o Stream(r, b.sz - n)
    BY <2>1, <2>3, <2>4, QueuedIsOf, QueuedAppend
  <2>7. Queued \in Seq(Bytes) /\ Len(Queued) \in Nat /\ Len(Stream(r, b.sz - n)) = b.sz - n
    <3>1. Queued \in Seq(Bytes)
      BY <2>4, QueuedIsOf, QueuedType
    <3>2. b.sz - n \in 0 .. r.sz
      BY <1>2, <2>1, <2>3
    <3> QED
      BY <2>3, <3>1, <3>2, StreamType, LenProperties
  <2>8. Len(Queued') = Len(Queued) + (b.sz - n)
    BY <1>1, <2>1, <2>6, <2>7, ConcatProperties DEF r
  <2>9. Accounting'
    <3>1. sbuffersz = Wrap(Len(Queued)) /\ b.sz - n \in Int /\ Len(Queued) \in Int
      BY <1>2, <2>7 DEF SendInv, Accounting
    <3>2. Wrap(Wrap(Len(Queued)) + (b.sz - n)) = Wrap(Len(Queued) + (b.sz - n))
      BY <3>1, WrapSum
    <3> QED
      BY <2>1, <2>8, <3>1, <3>2 DEF Accounting
  <2>10. TypeOK'
    <3>1. list' \in Seq(Sbuffer)
      <4>1. Sbuffers \subseteq Sbuffer
        BY DEF Sbuffers
      <4> QED
        BY <2>5, <4>1, SeqMonotonic DEF PartsFit
    <3>2. sbuffersz' \in -(INT_MAX + 1) .. INT_MAX
      <4>1. Len(Queued') \in Int
        BY <1>2, <2>7, <2>8
      <4> QED
        BY <2>9, <4>1, WrapIs DEF Accounting
    <3> QED
      BY <1>1, <1>2, <2>1, <3>1, <3>2 DEF SendInv, TypeOK
  <2>11. wire' \o Queued' = given'
    BY <1>1, <2>1, <2>6 DEF r
  <2>12. Conserved' /\ Ended'
    BY <1>2, <1>3, <2>1, <2>5, <2>11 DEF SendInv, Conserved, Ended
  <2> QED
    BY <1>1, <2>5, <2>9, <2>10, <2>12 DEF SendInv
<1>6. CASE Breaks
  BY <1>1, <1>2, <1>3, <1>6, BreaksKeep
<1> QED
  BY <1>4, <1>5, <1>6

\* _send_buffer.
LEMMA FlushKeeps ==
  ASSUME SendInv, UNCHANGED protocol, NEW x, Flushes(x)
  PROVE  SendInv'
<1>1. /\ x \in Seq(Bytes) /\ PartsFit' /\ Queued = x \o Queued' /\ wire' = wire \o x
      /\ sbuffersz' = Wrap(sbuffersz - Len(x)) /\ status # "INVALID"
      /\ flushing' \in BOOLEAN
      /\ UNCHANGED <<status, slimit, msgs, given, event, ret>>
  BY DEF Flushes
<1>2. given \in Seq(Bytes) /\ wire \in Seq(Bytes) /\ given = wire \o Queued
  BY <1>1 DEF SendInv, TypeOK, Conserved
<1>3. Queued' \in Seq(Bytes)
  BY <1>1, QueuedIsOf, QueuedType DEF PartsFit
<1>4. wire' \in Seq(Bytes) /\ Len(x) \in Nat /\ Len(Queued') \in Nat /\ Len(Queued) = Len(x) + Len(Queued')
  BY <1>1, <1>2, <1>3, ConcatProperties, LenProperties
<1>5. wire' \o Queued' = given'
  <2>1. PICK w \in Seq(Bytes), q \in Seq(Bytes) : w = wire /\ q = Queued'
    BY <1>2, <1>3
  <2>2. (w \o x) \o q = w \o (x \o q)
    BY <1>1
  <2> QED
    BY <1>1, <1>2, <2>1, <2>2
<1>6. Conserved'
  BY <1>1, <1>3, <1>5 DEF Conserved, Ahead, AheadOf
<1>7. Accounting'
  <2>1. sbuffersz = Wrap(Len(Queued)) /\ Len(Queued) \in Int /\ -Len(x) \in Int
    BY <1>4 DEF SendInv, Accounting
  <2>2. Wrap(Wrap(Len(Queued)) + -Len(x)) = Wrap(Len(Queued) + -Len(x))
    BY <2>1, WrapSum
  <2>3. sbuffersz - Len(x) = Wrap(Len(Queued)) + -Len(x) /\ Len(Queued) + -Len(x) = Len(Queued')
    <3>1. sbuffersz \in Int
      BY DEF SendInv, TypeOK
    <3> QED
      BY <1>4, <2>1, <3>1
  <2> QED
    BY <1>1, <2>2, <2>3 DEF Accounting
<1>8. TypeOK'
  <2>1. list' \in Seq(Sbuffer)
    <3>1. Sbuffers \subseteq Sbuffer
      BY DEF Sbuffers
    <3> QED
      BY <1>1, <3>1, SeqMonotonic DEF PartsFit
  <2>2. sbuffersz' \in -(INT_MAX + 1) .. INT_MAX
    <3>1. Len(Queued') \in Int
      BY <1>4
    <3> QED
      BY <1>7, <3>1, WrapIs DEF Accounting
  <2> QED
    BY <1>1, <1>4, <2>1, <2>2 DEF SendInv, TypeOK
<1>9. Ended' /\ Plain'
  BY <1>1 DEF SendInv, Ended, Plain
<1> QED
  BY <1>1, <1>6, <1>7, <1>8, <1>9 DEF SendInv

\* The list stays: FlushStart, FlushEnd, Close and Limit.
LEMMA QuietKeeps ==
  ASSUME SendInv, UNCHANGED <<protocol, list, sbuffersz, msgs, given, wire, ret>>,
         status' \in {"OPEN", "HALFCLOSE", "INVALID"}, slimit' \in 1 .. INT_MAX,
         flushing' \in BOOLEAN,
         event' \in {"none", "SOCKERR", "WRIDONECLOSE", "WBUFOVER", "closed"},
         status = "INVALID" => status' = "INVALID",
         Ended'
  PROVE  SendInv'
<1>1. TypeOK' /\ PartsFit' /\ Plain'
  BY DEF SendInv, TypeOK, PartsFit, Plain
<1>2. Queued' = Queued
  BY QueuedIsOf
<1>3. Accounting' /\ Conserved'
  BY <1>2 DEF SendInv, Accounting, Conserved, Ahead, AheadOf
<1> QED
  BY <1>1, <1>3 DEF SendInv

\* So does the loss of the connection outside of a call.
LEMMA BreakAloneKeeps ==
  ASSUME SendInv, Breaks, UNCHANGED <<protocol, msgs, given, wire, ret>>
  PROVE  SendInv'
<1>1. /\ given' \in Seq(Bytes) /\ wire' \in Seq(Bytes) /\ msgs' \in 0 .. MaxMsgs
      /\ ret' \in [n : -1 .. MaxSize, err : BOOLEAN, sent : 0 .. MaxSize]
      /\ Ahead(given', wire') /\ Plain'
  BY DEF SendInv, TypeOK, Conserved, Plain
<1> QED
  BY <1>1, BreaksKeep

\* _create_socket.
Fresh ==
  /\ protocol \in Protocols /\ status = "OPEN" /\ list = <<>> /\ sbuffersz = 0
  /\ slimit = INT_MAX /\ flushing = FALSE /\ msgs = 0
  /\ given = <<>> /\ wire = <<>> /\ event = "none" /\ ret = NoCall

\* A new connection satisfies the invariant.
LEMMA FreshInv == Fresh => SendInv
<1> SUFFICES ASSUME Fresh PROVE SendInv
  OBVIOUS
<1> USE DEF Fresh
<1>1. TypeOK
  <2>1. <<>> \in Seq(Sbuffer) /\ <<>> \in Seq(Bytes)
    BY EmptySeq
  <2>2. 0 \in -(INT_MAX + 1) .. INT_MAX /\ 0 \in -1 .. MaxSize /\ 0 \in 0 .. MaxSize /\ INT_MAX \in 1 .. INT_MAX
        /\ 0 \in 0 .. MaxMsgs
    OBVIOUS
  <2>3. ret \in [n : -1 .. MaxSize, err : BOOLEAN, sent : 0 .. MaxSize]
    BY <2>2 DEF NoCall
  <2> QED
    BY <2>1, <2>2, <2>3 DEF TypeOK
<1>2. PartsFit
  BY EmptySeq DEF PartsFit
<1>3. Queued = <<>>
  BY QueuedIsOf, QueuedEmpty
<1>4. Accounting
  <2>1. Len(<<>>) = 0 /\ Wrap(0) = 0
    BY WrapOfInt
  <2> QED
    BY <1>3, <2>1 DEF Accounting
<1>5. <<>> \in Seq(Bytes) /\ <<>> \o <<>> = <<>>
  BY EmptySeq, ConcatEmptySeq
<1>6. Conserved
  BY <1>3, <1>5, AheadSelf DEF Conserved, Ahead
<1>7. Ended /\ Plain
  <2>1. Len(<<>>) = 0
    OBVIOUS
  <2> QED
    BY <2>1 DEF Ended, Plain
<1> QED
  BY <1>1, <1>2, <1>4, <1>6, <1>7 DEF SendInv

\* Every action of the sending end keeps it.
LEMMA StepKeeps ==
  ASSUME SendInv, Step, UNCHANGED protocol
  PROVE  SendInv'
<1>1. ASSUME NEW sz \in 1 .. MaxSize,
             NEW cfd \in (IF protocol = "IPC" THEN Cfds ELSE {}) \cup {NoFd}, Send(sz, cfd)
      PROVE  SendInv'
  <2>1. CASE /\ ret' \in [n : -1 .. MaxSize, err : BOOLEAN, sent : 0 .. MaxSize]
             /\ UNCHANGED <<status, list, sbuffersz, slimit, flushing, msgs,
                            given, wire, event>>
    <3>1. Queued' = Queued
      BY <2>1, QueuedIsOf
    <3> QED
      BY <2>1, <3>1 DEF SendInv, TypeOK, PartsFit, Accounting, Conserved, Ahead, AheadOf,
                        Ended, Plain
  <2>2. CASE \E b, n : Takes(b, n) /\ (SentWhole(b, n) \/ Queues(b, n) \/ Breaks)
    BY <2>2, SendKeeps
  <2> QED
    BY <1>1, <2>1, <2>2, SendCases
<1>2. CASE FlushStart
  BY <1>2, QuietKeeps DEF FlushStart, SendInv, TypeOK, Ended
<1>3. CASE FlushWrite
  BY <1>3, FlushCases, FlushKeeps
<1>4. CASE FlushError
  BY <1>4, BreakAloneKeeps DEF FlushError, Breaks
<1>5. CASE FlushEnd
  <2>1. list = <<>> /\ flushing /\ wire \o Queued = given /\ Queued = <<>> /\ wire \in Seq(Bytes)
    BY <1>5, QueuedIsOf, QueuedEmpty DEF FlushEnd, SendInv, TypeOK, Conserved, Ended
  <2>2. wire = given
    BY <2>1, ConcatEmptySeq
  <2> QED
    BY <1>5, <2>1, <2>2, QuietKeeps DEF FlushEnd, SendInv, TypeOK, Ended
<1>6. ASSUME NEW force \in BOOLEAN, Close(force) PROVE SendInv'
  <2>1. CASE CloseSocket("closed")
    BY <1>6, <2>1, BreakAloneKeeps DEF Close, Breaks
  <2>2. CASE /\ status' = "HALFCLOSE"
             /\ UNCHANGED <<list, sbuffersz, slimit, flushing, event>>
    BY <1>6, <2>2, QuietKeeps DEF Close, SendInv, TypeOK, Ended
  <2> QED
    BY <1>6, <2>1, <2>2 DEF Close
<1>7. ASSUME NEW lim \in Limits \cup {INT_MAX}, Limit(lim) PROVE SendInv'
  <2>1. lim \in 1 .. INT_MAX
    OBVIOUS
  <2> QED
    BY <1>7, <2>1, QuietKeeps DEF Limit, SendInv, TypeOK, Ended
<1> QED
  BY <1>1, <1>2, <1>3, <1>4, <1>5, <1>6, <1>7 DEF Step

\* So does the next connection in the same slot.
LEMMA ReopenKeeps ==
  ASSUME SendInv, Reopen
  PROVE  SendInv'
<1>1. Fresh'
  <2>1. flushing = FALSE
    BY DEF Reopen, SendInv, TypeOK, Ended
  <2> QED
    BY <2>1 DEF Reopen, Fresh, NoCall
<1>2. Fresh' => SendInv'
  BY FreshInv, PTL
<1> QED
  BY <1>1, <1>2

(***************************************************************************)
(* The invariant of the sending end holds: types, the count, what is       *)
(* given, sent and queued, the end.                                        *)
(***************************************************************************)
THEOREM SendTyped == Spec => []SendInv
<1>1. Init => SendInv
  BY FreshInv DEF Init, Fresh
<1>2. SendInv /\ [Next]_vars => SendInv'
  <2> SUFFICES ASSUME SendInv, [Next]_vars PROVE SendInv'
    OBVIOUS
  <2>1. CASE Step /\ UNCHANGED protocol
    BY <2>1, StepKeeps
  <2>2. CASE Reopen
    BY <2>2, ReopenKeeps
  <2>3. CASE UNCHANGED vars
    <3>1. Queued' = Queued
      BY <2>3, QueuedIsOf DEF vars
    <3> QED
      BY <2>3, <3>1 DEF vars, SendInv, TypeOK, PartsFit, Accounting, Conserved, Ahead, AheadOf,
                        Ended, Plain
  <2> QED
    BY <2>1, <2>2, <2>3 DEF Next
<1> QED
  BY <1>1, <1>2, PTL DEF Spec

-----------------------------------------------------------------------------
(* What the invariant says.                                                *)

(***************************************************************************)
(* Whatever mixture of socket_send, socket_sendfd and _send_buffer: what   *)
(* was sent, followed by what is queued, is what was given, byte by byte   *)
(* and with the descriptors.                                               *)
(***************************************************************************)
THEOREM NothingIsLost == Spec => []NothingLost
<1>1. SendInv => NothingLost
  BY DEF SendInv, Conserved, NothingLost
<1> QED
  BY <1>1, SendTyped, PTL

(***************************************************************************)
(* sbuffersz counts what the list of struct sbuffer holds, in an int, in   *)
(* every reachable state.                                                  *)
(***************************************************************************)
THEOREM AccountingHolds == Spec => []Accounting
<1>1. SendInv => Accounting
  BY DEF SendInv
<1> QED
  BY <1>1, SendTyped, PTL

\* Only a call that appends makes the list longer, and it has looked at the limit.
LEMMA OnlyAppends ==
  ASSUME SendInv, [Next]_vars, Len(list') > Len(list)
  PROVE  sbuffersz' <= slimit
<1>1. list \in Seq(Sbuffers) /\ Len(list) \in Nat /\ Len(<<>>) = 0
  BY LenProperties DEF SendInv, PartsFit
<1>2. list' # list /\ list' # <<>>
  BY <1>1
<1>3. ASSUME NEW sz \in 1 .. MaxSize,
             NEW cfd \in (IF protocol = "IPC" THEN Cfds ELSE {}) \cup {NoFd}, Send(sz, cfd)
      PROVE  sbuffersz' <= slimit
  <2>1. ASSUME NEW b, NEW n, SentWhole(b, n) \/ Queues(b, n) \/ Breaks
        PROVE  sbuffersz' <= slimit
    BY <1>2, <2>1 DEF SentWhole, Queues, Breaks, CloseSocket
  <2> QED
    BY <1>2, <1>3, <2>1, SendCases
<1>4. ~FlushWrite
  <2> SUFFICES ASSUME FlushWrite PROVE FALSE
    OBVIOUS
  <2>1. list # <<>> /\ 1 \in 1 .. Len(list)
    BY <1>1, EmptySeq DEF FlushWrite
  <2>2. Len(Tail(list)) = Len(list) - 1
    BY <1>1, <2>1, HeadTailProperties
  <2>3. \A e : Len([list EXCEPT ![1] = e]) = Len(list)
    BY <1>1
  <2>4. list' = Tail(list) \/ \E e : list' = [list EXCEPT ![1] = e]
    BY DEF FlushWrite, FlushWhole, FlushSome
  <2>5. Len(list') = Len(list) - 1 \/ Len(list') = Len(list)
    BY <2>2, <2>3, <2>4
  <2> QED
    BY <1>1, <2>5
<1> QED
  BY <1>2, <1>3, <1>4 DEF Next, Step, Reopen, FlushStart, FlushError, FlushEnd, Close, Limit,
                         CloseSocket, vars

(***************************************************************************)
(* No call of socket_send or socket_sendfd lets the list grow past the     *)
(* limit that socket_limit has set, short of the width of int.             *)
(***************************************************************************)
THEOREM LimitHolds == Spec => LimitRespected
<1>1. ASSUME SendInv, SendInv', [Next]_vars, Len(list') > Len(list), slimit < INT_MAX
      PROVE  Len(Queued)' > INT_MAX \/ Len(Queued)' <= slimit
  <2>1. sbuffersz' <= slimit
    BY <1>1, OnlyAppends
  <2>2. Len(Queued') \in Nat
    BY <1>1, QueuedIsOf, QueuedType, LenProperties DEF SendInv, PartsFit
  <2>3. sbuffersz' = Wrap(Len(Queued'))
    BY <1>1 DEF SendInv, Accounting
  <2>4. Len(Queued') <= INT_MAX => Len(Queued') \in -(INT_MAX + 1) .. INT_MAX
    BY <2>2
  <2>5. Len(Queued') <= INT_MAX => sbuffersz' = Len(Queued')
    BY <2>3, <2>4, WrapOfInt
  <2> QED
    BY <2>1, <2>2, <2>5 DEF SendInv, TypeOK
<1>2. SendInv /\ SendInv' /\ [Next]_vars =>
        [Len(list') > Len(list) /\ slimit < INT_MAX
           => Len(Queued)' > INT_MAX \/ Len(Queued)' <= slimit]_vars
  BY <1>1
<1> QED
  BY <1>2, SendTyped, PTL DEF Spec, LimitRespected

-----------------------------------------------------------------------------
(* The send path is a byte stream.                                         *)

LEMMA FirstPart ==
  ASSUME NEW S, NEW s \in Seq(S), NEW n \in 0 .. Len(s)
  PROVE  /\ SubSeq(s, 1, n) \in Seq(S) /\ Len(SubSeq(s, 1, n)) = n
         /\ \A i \in 1 .. n : SubSeq(s, 1, n)[i] = s[i]
<1>1. Len(s) \in Nat /\ n \in Nat /\ n - 1 + 1 = n /\ 1 \in Int
      /\ (IF 1 <= n THEN n - 1 + 1 ELSE 0) = n
  BY LenProperties
<1>2. \A i \in 1 .. n : s[i] \in S
  BY <1>1, ElementOfSeq
<1>3. /\ SubSeq(s, 1, n) \in Seq(S)
      /\ Len(SubSeq(s, 1, n)) = IF 1 <= n THEN n - 1 + 1 ELSE 0
      /\ \A i \in 1 .. n - 1 + 1 : SubSeq(s, 1, n)[i] = s[1 + i - 1]
  BY <1>1, <1>2, SubSeqProperties
<1>4. \A i \in 1 .. n : 1 + i - 1 = i
  OBVIOUS
<1> QED
  BY <1>1, <1>3, <1>4

\* What begins with w has w for its prefix, and every prefix of w.
LEMMA AheadPrefix ==
  ASSUME NEW S, NEW w \in Seq(S), NEW g, AheadOf(S, g, w)
  PROVE  /\ g \in Seq(S) /\ Len(g) >= Len(w) /\ SubSeq(g, 1, Len(w)) = w
         /\ \A n \in 0 .. Len(w) : SubSeq(g, 1, n) = SubSeq(w, 1, n)
<1>1. PICK rest \in Seq(S) : g = w \o rest
  BY DEF AheadOf
<1>2. /\ Len(w) \in Nat /\ Len(rest) \in Nat /\ g \in Seq(S) /\ Len(g) = Len(w) + Len(rest)
      /\ \A i \in 1 .. Len(w) + Len(rest) : g[i] = IF i <= Len(w) THEN w[i] ELSE rest[i - Len(w)]
  BY <1>1, ConcatProperties, LenProperties
<1>3. Len(g) >= Len(w) /\ \A i \in 1 .. Len(w) : g[i] = w[i]
  BY <1>2
<1>4. ASSUME NEW n \in 0 .. Len(w) PROVE SubSeq(g, 1, n) = SubSeq(w, 1, n)
  <2>1. n \in 0 .. Len(g) /\ n \in Nat
    BY <1>2
  <2>2. /\ SubSeq(g, 1, n) \in Seq(S) /\ Len(SubSeq(g, 1, n)) = n
        /\ \A i \in 1 .. n : SubSeq(g, 1, n)[i] = g[i]
    BY <1>2, <2>1, FirstPart
  <2>3. /\ SubSeq(w, 1, n) \in Seq(S) /\ Len(SubSeq(w, 1, n)) = n
        /\ \A i \in 1 .. n : SubSeq(w, 1, n)[i] = w[i]
    BY FirstPart
  <2>4. \A i \in 1 .. n : i \in 1 .. Len(w)
    BY <1>2
  <2> QED
    BY <1>3, <2>2, <2>3, <2>4, SeqEqual
<1>5. SubSeq(g, 1, Len(w)) = SubSeq(w, 1, Len(w)) /\ SubSeq(w, 1, Len(w)) = w
  BY <1>2, <1>4, SubSeqFull
<1> QED
  BY <1>2, <1>3, <1>4, <1>5

\* Which is what the byte stream calls an extension.
LEMMA AheadExtends ==
  ASSUME NEW g, NEW w \in Seq(Bytes), Ahead(g, w)
  PROVE  Channel!Extends(g, w)
BY AheadPrefix DEF Ahead, Channel!Extends

\* A step hands over bytes, sends bytes, or both, and ends as done only with
\* everything sent.
LEMMA StepMoves ==
  ASSUME SendInv, Step, UNCHANGED protocol
  PROVE  /\ status # "INVALID"
         /\ Ahead(given', given) /\ Ahead(wire', wire)
         /\ event' = "WRIDONECLOSE" /\ status' = "INVALID" => UNCHANGED <<given, wire>>
<1>1. status # "INVALID"
  BY DEF Step, SendInv, Ended, Send, FlushStart, FlushWrite, FlushError, FlushEnd, Close, Limit
<1>2. given \in Seq(Bytes) /\ wire \in Seq(Bytes) /\ Ahead(given, given) /\ Ahead(wire, wire)
  BY AheadSelf DEF SendInv, TypeOK, Ahead
<1>3. event # "WRIDONECLOSE"
  BY <1>1 DEF SendInv, Ended
<1>4. ASSUME NEW sz \in 1 .. MaxSize,
             NEW cfd \in (IF protocol = "IPC" THEN Cfds ELSE {}) \cup {NoFd}, Send(sz, cfd)
      PROVE  Ahead(given', given) /\ Ahead(wire', wire) /\ event' # "WRIDONECLOSE"
  <2>1. ASSUME NEW b, NEW n, Takes(b, n), SentWhole(b, n) \/ Queues(b, n) \/ Breaks
        PROVE  Ahead(given', given) /\ Ahead(wire', wire) /\ event' # "WRIDONECLOSE"
    <3>1. Fits(b) /\ n \in 0 .. b.sz /\ b.sz \in 0 .. b.sz
      BY <2>1 DEF Takes, Fits, Sbuffer
    <3>2. Stream(b, n) \in Seq(Bytes) /\ Stream(b, b.sz) \in Seq(Bytes)
      BY <3>1, StreamType
    <3>3. Ahead(given', given) /\ Ahead(wire', wire)
      BY <2>1, <3>2 DEF Takes, Ahead, AheadOf
    <3>4. event' # "WRIDONECLOSE"
      BY <1>3, <2>1 DEF SentWhole, Queues, Breaks, CloseSocket
    <3> QED
      BY <3>3, <3>4
  <2> QED
    BY <1>2, <1>3, <1>4, <2>1, SendCases
<1>5. CASE FlushWrite
  <2>1. PICK x : Flushes(x)
    BY <1>5, FlushCases
  <2> QED
    BY <1>1, <1>2, <1>3, <2>1 DEF Flushes, Ahead, AheadOf
<1>6. CASE ~FlushWrite /\ ~(\E sz \in 1 .. MaxSize,
                             cfd \in (IF protocol = "IPC" THEN Cfds ELSE {}) \cup {NoFd} : Send(sz, cfd))
  <2>1. UNCHANGED <<given, wire>>
    BY <1>6 DEF Step, FlushStart, FlushError, FlushEnd, Close, Limit
  <2> QED
    BY <1>1, <1>2, <2>1
<1> QED
  BY <1>1, <1>4, <1>5, <1>6

(***************************************************************************)
(* The send path of socket.c implements the byte stream: each step of it   *)
(* moves the stream forward, ends it or leaves it alone.                   *)
(***************************************************************************)
THEOREM StreamImplemented == Spec => ImplementsStream
<1> DEFINE ph == IF status # "INVALID" THEN "open"
                 ELSE IF event = "WRIDONECLOSE" THEN "done" ELSE "aborted"
<1>1. Init => Channel!Init
  BY DEF Init, Channel!Init
<1>2. ASSUME SendInv, SendInv', [Next]_vars
      PROVE  [Channel!Next]_<<given, wire, ph>>
  <2>1. CASE Step /\ UNCHANGED protocol
    <3>1. /\ status # "INVALID"
          /\ Ahead(given', given) /\ Ahead(wire', wire)
          /\ event' = "WRIDONECLOSE" /\ status' = "INVALID" => UNCHANGED <<given, wire>>
      BY <1>2, <2>1, StepMoves
    <3>2. /\ given \in Seq(Bytes) /\ wire \in Seq(Bytes) /\ given' \in Seq(Bytes)
          /\ wire' \in Seq(Bytes) /\ Ahead(given', wire')
      BY <1>2 DEF SendInv, TypeOK, Conserved
    <3>3. Channel!Moves
      BY <3>1, <3>2, AheadExtends DEF Channel!Moves
    <3>4. ph = "open"
      BY <3>1
    <3>5. CASE status' # "INVALID"
      BY <3>3, <3>4, <3>5 DEF Channel!Next, Channel!Transfer
    <3>6. CASE status' = "INVALID" /\ event' = "WRIDONECLOSE"
      <4>1. UNCHANGED <<given, wire>> /\ wire' = given'
        BY <1>2, <3>1, <3>6 DEF SendInv, Ended
      <4> QED
        BY <3>4, <3>6, <4>1 DEF Channel!Next, Channel!Finish
    <3>7. CASE status' = "INVALID" /\ event' # "WRIDONECLOSE"
      BY <3>3, <3>4, <3>7 DEF Channel!Next, Channel!Abort
    <3> QED
      BY <3>5, <3>6, <3>7
  <2>2. CASE Reopen
    BY <2>2 DEF Reopen, Channel!Next, Channel!Reopen
  <2>3. CASE UNCHANGED vars
    BY <2>3 DEF vars
  <2> QED
    BY <1>2, <2>1, <2>2, <2>3 DEF Next
<1> QED
  BY <1>1, <1>2, SendTyped, PTL DEF Spec, ImplementsStream, Channel!Spec

-----------------------------------------------------------------------------
(* What the reading end takes from the wire.                               *)

LEMMA AheadTransitive ==
  ASSUME NEW S, NEW u \in Seq(S), NEW v, NEW w, AheadOf(S, v, u), AheadOf(S, w, v)
  PROVE  AheadOf(S, w, u)
<1>1. PICK a \in Seq(S) : v = u \o a
  BY DEF AheadOf
<1>2. PICK b \in Seq(S) : w = v \o b
  BY DEF AheadOf
<1>3. (u \o a) \o b = u \o (a \o b)
  OBVIOUS
<1>4. a \o b \in Seq(S)
  BY ConcatProperties
<1> QED
  BY <1>1, <1>2, <1>3, <1>4 DEF AheadOf

\* A part of a sequence in the middle of it.
LEMMA MiddlePart ==
  ASSUME NEW S, NEW s \in Seq(S), NEW m \in 0 .. Len(s), NEW n \in 0 .. Len(s) - m
  PROVE  /\ SubSeq(s, m + 1, Len(s)) \in Seq(S) /\ Len(SubSeq(s, m + 1, Len(s))) = Len(s) - m
         /\ SubSeq(SubSeq(s, m + 1, Len(s)), 1, n) \in Seq(S)
         /\ Len(SubSeq(SubSeq(s, m + 1, Len(s)), 1, n)) = n
         /\ SubSeq(s, 1, m + n) = SubSeq(s, 1, m) \o SubSeq(SubSeq(s, m + 1, Len(s)), 1, n)
<1> DEFINE r == SubSeq(s, m + 1, Len(s))
           p == SubSeq(r, 1, n)
           a == SubSeq(s, 1, m)
           z == SubSeq(s, 1, m + n)
<1>1. Len(s) \in Nat /\ m \in Nat /\ n \in Nat /\ m + n \in 0 .. Len(s)
  BY LenProperties
<1>2. /\ r \in Seq(S) /\ Len(r) = Len(s) - m
      /\ \A i \in 1 .. Len(s) - m : r[i] = s[m + i]
  <2>1. m + 1 \in Int /\ Len(s) \in Int /\ \A i \in m + 1 .. Len(s) : s[i] \in S
    BY <1>1, ElementOfSeq
  <2>2. /\ r \in Seq(S) /\ Len(r) = IF m + 1 <= Len(s) THEN Len(s) - (m + 1) + 1 ELSE 0
        /\ \A i \in 1 .. Len(s) - (m + 1) + 1 : r[i] = s[(m + 1) + i - 1]
    BY <2>1, SubSeqProperties
  <2>3. /\ Len(s) - (m + 1) + 1 = Len(s) - m
        /\ (IF m + 1 <= Len(s) THEN Len(s) - (m + 1) + 1 ELSE 0) = Len(s) - m
        /\ \A i \in 1 .. Len(s) - m : (m + 1) + i - 1 = m + i
    BY <1>1
  <2> QED
    BY <2>2, <2>3
<1> HIDE DEF r
<1>3. /\ p \in Seq(S) /\ Len(p) = n
      /\ \A i \in 1 .. n : p[i] = r[i]
  BY <1>2, FirstPart
<1>4. /\ a \in Seq(S) /\ Len(a) = m
      /\ \A i \in 1 .. m : a[i] = s[i]
  BY FirstPart
<1>5. /\ z \in Seq(S) /\ Len(z) = m + n
      /\ \A i \in 1 .. m + n : z[i] = s[i]
  BY <1>1, FirstPart
<1> HIDE DEF p, a, z
<1>6. /\ a \o p \in Seq(S) /\ Len(a \o p) = m + n
      /\ \A i \in 1 .. m + n : (a \o p)[i] = IF i <= m THEN a[i] ELSE p[i - m]
  BY <1>3, <1>4, ConcatProperties
<1>7. ASSUME NEW i \in 1 .. m + n PROVE z[i] = (a \o p)[i]
  <2>1. i \in Int
    OBVIOUS
  <2>2. CASE i <= m
    BY <1>1, <1>4, <1>5, <1>6, <2>1, <2>2
  <2>3. CASE ~(i <= m)
    <3>1. i - m \in 1 .. n /\ i - m \in 1 .. Len(s) - m /\ m + (i - m) = i
      BY <1>1, <2>1, <2>3
    <3> QED
      BY <1>2, <1>3, <1>5, <1>6, <2>3, <3>1
  <2> QED
    BY <2>2, <2>3
<1>8. z = a \o p
  BY <1>5, <1>6, <1>7, SeqEqual
<1> QED
  BY <1>2, <1>3, <1>8 DEF r, p, a, z

\* m is F of each member of s.
Maps(F, s, m) == Len(m) = Len(s) /\ \A i \in 1 .. Len(s) : m[i] = F[s[i]]

\* mu is the two joined.
JoinOf(ms, mt, mu) == mu = ms \o mt

\* What is done to each member can be done to the parts.
LEMMA MapConcat ==
  ASSUME NEW S, NEW T, NEW F, NEW s \in Seq(S), NEW t \in Seq(S),
         NEW ms \in Seq(T), NEW mt \in Seq(T), NEW mu \in Seq(T),
         Maps(F, s, ms), Maps(F, t, mt), Maps(F, s \o t, mu)
  PROVE  JoinOf(ms, mt, mu)
<1> DEFINE u == s \o t
           mm == ms \o mt
<1>1. /\ Len(u) = Len(s) + Len(t)
      /\ \A i \in 1 .. Len(s) + Len(t) : u[i] = IF i <= Len(s) THEN s[i] ELSE t[i - Len(s)]
  BY ConcatProperties
<1>2. /\ mm \in Seq(T) /\ Len(mm) = Len(ms) + Len(mt)
      /\ \A i \in 1 .. Len(ms) + Len(mt) : mm[i] = IF i <= Len(ms) THEN ms[i] ELSE mt[i - Len(ms)]
  BY ConcatProperties
<1>3. /\ Len(ms) = Len(s) /\ \A i \in 1 .. Len(s) : ms[i] = F[s[i]]
      /\ Len(mt) = Len(t) /\ \A i \in 1 .. Len(t) : mt[i] = F[t[i]]
      /\ Len(mu) = Len(u) /\ \A i \in 1 .. Len(u) : mu[i] = F[u[i]]
      /\ Len(s) \in Nat /\ Len(t) \in Nat
  BY LenProperties DEF Maps
<1> HIDE DEF u, mm
<1>4. ASSUME NEW i \in 1 .. Len(mu) PROVE mu[i] = mm[i]
  <2>1. i \in 1 .. Len(s) + Len(t) /\ i \in Int /\ mu[i] = F[u[i]]
    BY <1>1, <1>3
  <2>2. CASE i <= Len(s)
    <3>1. i \in 1 .. Len(s)
      BY <1>3, <2>1, <2>2
    <3>2. u[i] = s[i] /\ mm[i] = ms[i] /\ ms[i] = F[s[i]]
      BY <1>1, <1>2, <1>3, <2>1, <2>2, <3>1
    <3> QED
      BY <2>1, <3>2
  <2>3. CASE ~(i <= Len(s))
    <3>1. i - Len(s) \in 1 .. Len(t)
      BY <1>3, <2>1, <2>3
    <3>2. u[i] = t[i - Len(s)] /\ mm[i] = mt[i - Len(s)] /\ mt[i - Len(s)] = F[t[i - Len(s)]]
      BY <1>1, <1>2, <1>3, <2>1, <2>3, <3>1
    <3> QED
      BY <2>1, <3>2
  <2> QED
    BY <2>2, <2>3
<1>5. Len(mu) = Len(mm)
  BY <1>1, <1>2, <1>3
<1>6. mu = mm
  BY <1>2, <1>4, <1>5, SeqEqual
<1> QED
  BY <1>6 DEF mm, JoinOf

PayloadOf == [b \in Bytes |-> [msg |-> b.msg, byte |-> b.byte]]

\* The bytes without their descriptors.
LEMMA ContentsType ==
  ASSUME NEW s \in Seq(Bytes)
  PROVE  /\ Contents(s) \in Seq(Payload) /\ Len(Contents(s)) = Len(s)
         /\ Maps(PayloadOf, s, Contents(s))
<1>1. DOMAIN s = 1 .. Len(s) /\ Len(s) \in Nat /\ \A i \in 1 .. Len(s) : s[i] \in Bytes
  BY LenProperties, ElementOfSeq
<1>2. \A i \in 1 .. Len(s) : [msg |-> s[i].msg, byte |-> s[i].byte] \in Payload
  BY <1>1 DEF Bytes, Payload
<1>3. Contents(s) \in [1 .. Len(s) -> Payload]
  BY <1>1, <1>2 DEF Contents
<1>4. Contents(s) \in Seq(Payload) /\ Len(Contents(s)) = Len(s)
  BY <1>1, <1>3
<1>5. \A i \in 1 .. Len(s) : Contents(s)[i] = PayloadOf[s[i]]
  BY <1>1 DEF Contents, PayloadOf
<1> QED
  BY <1>4, <1>5 DEF Maps

\* They may be taken from the parts.
LEMMA ContentsConcat ==
  ASSUME NEW s \in Seq(Bytes), NEW t \in Seq(Bytes)
  PROVE  Contents(s \o t) = Contents(s) \o Contents(t)
<1>1. s \o t \in Seq(Bytes)
  BY ConcatProperties
<1>2. /\ Contents(s) \in Seq(Payload) /\ Maps(PayloadOf, s, Contents(s))
      /\ Contents(t) \in Seq(Payload) /\ Maps(PayloadOf, t, Contents(t))
      /\ Contents(s \o t) \in Seq(Payload) /\ Maps(PayloadOf, s \o t, Contents(s \o t))
  BY <1>1, ContentsType
<1>3. JoinOf(Contents(s), Contents(t), Contents(s \o t))
  BY <1>2, MapConcat, Zenon
<1> QED
  BY <1>3 DEF JoinOf

CarriedOf == [b \in Bytes |-> IF b.fd = NoFd THEN <<>> ELSE <<b.fd>>]

\* For each byte the descriptors that travel with it: one or none.
LEMMA CarriedType ==
  ASSUME NEW s \in Seq(Bytes)
  PROVE  /\ Carried(s) \in Seq(Seq(Cfds)) /\ Len(Carried(s)) = Len(s)
         /\ Maps(CarriedOf, s, Carried(s))
<1>1. DOMAIN s = 1 .. Len(s) /\ Len(s) \in Nat /\ \A i \in 1 .. Len(s) : s[i] \in Bytes
  BY LenProperties, ElementOfSeq
<1>2. ASSUME NEW i \in 1 .. Len(s)
      PROVE  (IF s[i].fd = NoFd THEN <<>> ELSE <<s[i].fd>>) \in Seq(Cfds)
  <2>1. s[i].fd \in Cfds \cup {NoFd}
    BY <1>1 DEF Bytes
  <2> QED
    BY <2>1, EmptySeq
<1>3. Carried(s) \in [1 .. Len(s) -> Seq(Cfds)]
  BY <1>1, <1>2 DEF Carried
<1>4. Carried(s) \in Seq(Seq(Cfds)) /\ Len(Carried(s)) = Len(s)
  BY <1>1, <1>3
<1>5. \A i \in 1 .. Len(s) : Carried(s)[i] = CarriedOf[s[i]]
  BY <1>1 DEF Carried, CarriedOf
<1> QED
  BY <1>4, <1>5 DEF Maps

\* The descriptors may be taken from the parts.
LEMMA DescriptorsConcat ==
  ASSUME NEW s \in Seq(Bytes), NEW t \in Seq(Bytes)
  PROVE  /\ Descriptors(s) \in Seq(Cfds)
         /\ Descriptors(s \o t) = Descriptors(s) \o Descriptors(t)
<1>1. s \o t \in Seq(Bytes)
  BY ConcatProperties
<1>2. /\ Carried(s) \in Seq(Seq(Cfds)) /\ Carried(t) \in Seq(Seq(Cfds))
      /\ Carried(s \o t) = Carried(s) \o Carried(t)
  <2>1. /\ Carried(s) \in Seq(Seq(Cfds)) /\ Maps(CarriedOf, s, Carried(s))
        /\ Carried(t) \in Seq(Seq(Cfds)) /\ Maps(CarriedOf, t, Carried(t))
    BY CarriedType
  <2>2. Carried(s \o t) \in Seq(Seq(Cfds)) /\ Maps(CarriedOf, s \o t, Carried(s \o t))
    BY <1>1, CarriedType
  <2>3. JoinOf(Carried(s), Carried(t), Carried(s \o t))
    BY <2>1, <2>2, MapConcat
  <2> QED
    BY <2>1, <2>3, Zenon DEF JoinOf
<1> QED
  BY <1>2, FlattenConcat, FlattenType DEF Descriptors

\* Where nothing is carried there is no descriptor.
LEMMA DescriptorsPlain ==
  ASSUME NEW s \in Seq(Bytes), \A i \in 1 .. Len(s) : s[i].fd = NoFd
  PROVE  Descriptors(s) = <<>>
<1>1. Carried(s) \in Seq(Seq({}))
  <2>1. Len(s) \in Nat
    BY LenProperties
  <2>2. DOMAIN s = 1 .. Len(s) /\ <<>> \in Seq({})
    BY LenProperties, EmptySeq
  <2>3. Carried(s) \in [1 .. Len(s) -> Seq({})]
    BY <2>2 DEF Carried
  <2> QED
    BY <2>1, <2>3
<1>2. Descriptors(s) \in Seq({})
  BY <1>1, FlattenType DEF Descriptors
<1>3. ASSUME NEW t \in Seq({}) PROVE t = <<>>
  OBVIOUS
<1> QED
  BY <1>2, <1>3

\* Nor where nothing is.
LEMMA NothingSent == Contents(<<>>) = <<>> /\ Descriptors(<<>>) = <<>>
<1>1. Contents(<<>>) = <<>>
  BY DEF Contents
<1>2. Carried(<<>>) = <<>>
  BY DEF Carried
<1> QED
  BY <1>1, <1>2, FlattenEmpty DEF Descriptors

-----------------------------------------------------------------------------
(* The inductive invariant of the connection.                              *)

SentPart == SubSeq(wire, 1, taken)

ReadTyped ==
  /\ rstatus \in {"OPEN", "HALFCLOSE", "INVALID"}
  /\ rbuffersz \in Nat \ {0}
  /\ rlimit \in ReadLimits \cup {0}
  /\ taken \in 0 .. Len(wire)
  /\ data \in Seq(Payload)
  /\ fds \in Seq(Cfds)
  /\ limit \in ReadLimits \cup {0}
  /\ rend \in {"none", "EOF", "EOFHALF", "SOCKERR", "TRUNC", "closed"}

LimitInForce == limit # 0 => rlimit = limit /\ rbuffersz = limit

AllRead ==
  /\ rend \in {"EOF", "EOFHALF"} =>
       rstatus = "INVALID" /\ status = "INVALID" /\ taken = Len(wire)
  /\ rend = "EOF" => data = Contents(wire) /\ fds = Descriptors(wire)

Delivered ==
  rstatus # "INVALID" =>
    /\ fds = Descriptors(SentPart)
    /\ AheadOf(Payload, Contents(SentPart), data)
    /\ rstatus = "OPEN" \/ protocol = "IPC" => data = Contents(SentPart)

ReadInv == SendInv /\ ReadTyped /\ LimitInForce /\ AllRead /\ Delivered

USE ConnectionAssumption

\* The wire is what was read and what is unread.
LEMMA SentPartType ==
  ASSUME ReadInv
  PROVE  /\ wire \in Seq(Bytes) /\ Len(wire) \in Nat /\ taken \in Nat
         /\ SentPart \in Seq(Bytes) /\ Len(SentPart) = taken
         /\ Unread \in Seq(Bytes) /\ Len(Unread) = Len(wire) - taken
         /\ Unread = <<>> => taken = Len(wire) /\ SentPart = wire
<1>1. wire \in Seq(Bytes) /\ taken \in 0 .. Len(wire)
  BY DEF ReadInv, SendInv, TypeOK, ReadTyped
<1>2. Len(wire) \in Nat /\ taken \in Nat /\ 0 \in 0 .. Len(wire) - taken
  BY <1>1, LenProperties
<1>3. SentPart \in Seq(Bytes) /\ Len(SentPart) = taken
  BY <1>1, FirstPart DEF SentPart
<1>4. Unread \in Seq(Bytes) /\ Len(Unread) = Len(wire) - taken
  BY <1>1, <1>2, MiddlePart DEF Unread
<1>5. ASSUME Unread = <<>> PROVE taken = Len(wire) /\ SentPart = wire
  <2>1. Len(Unread) = 0
    BY <1>5
  <2>2. taken = Len(wire)
    BY <1>2, <1>4, <2>1
  <2> QED
    BY <1>1, <2>2, SubSeqFull DEF SentPart
<1> QED
  BY <1>1, <1>2, <1>3, <1>4, <1>5

\* What n bytes add to the part that was sent.
LEMMA GivesMore ==
  ASSUME ReadInv, NEW n \in 1 .. Len(Unread), Gives(n), UNCHANGED vars
  PROVE  /\ taken' = taken + n /\ taken' \in 0 .. Len(wire')
         /\ SubSeq(Unread, 1, n) \in Seq(Bytes) /\ Len(SubSeq(Unread, 1, n)) = n
         /\ Contents(SubSeq(Unread, 1, n)) \in Seq(Payload)
         /\ Len(Contents(SubSeq(Unread, 1, n))) = n
         /\ Contents(SentPart') = Contents(SentPart) \o Contents(SubSeq(Unread, 1, n))
         /\ Contents(SentPart) \in Seq(Payload)
         /\ Descriptors(SentPart') = Descriptors(SentPart) \o Descriptors(SubSeq(Unread, 1, n))
<1> DEFINE got == SubSeq(Unread, 1, n)
<1>1. /\ wire \in Seq(Bytes) /\ Len(wire) \in Nat /\ taken \in 0 .. Len(wire)
      /\ Len(Unread) = Len(wire) - taken /\ SentPart \in Seq(Bytes)
  BY SentPartType DEF ReadInv, ReadTyped
<1>2. wire' = wire /\ taken' = taken + n
  BY DEF Gives, vars
<1>3. n \in 0 .. Len(wire) - taken /\ taken' \in 0 .. Len(wire)
  BY <1>1, <1>2
<1>4. /\ got \in Seq(Bytes) /\ Len(got) = n
      /\ SubSeq(wire, 1, taken + n) = SubSeq(wire, 1, taken) \o got
  <2>1. ASSUME NEW s \in Seq(Bytes), NEW m \in 0 .. Len(s), n \in 0 .. Len(s) - m
        PROVE  /\ SubSeq(SubSeq(s, m + 1, Len(s)), 1, n) \in Seq(Bytes)
               /\ Len(SubSeq(SubSeq(s, m + 1, Len(s)), 1, n)) = n
               /\ SubSeq(s, 1, m + n)
                    = SubSeq(s, 1, m) \o SubSeq(SubSeq(s, m + 1, Len(s)), 1, n)
    BY <2>1, MiddlePart
  <2> QED
    BY <1>1, <1>3, <2>1, Zenon DEF Unread
<1>5. SentPart' = SentPart \o got
  BY <1>2, <1>4 DEF SentPart
<1>6. /\ Contents(got) \in Seq(Payload) /\ Len(Contents(got)) = n
      /\ Contents(SentPart) \in Seq(Payload)
  BY <1>1, <1>4, ContentsType
<1>7. Contents(SentPart') = Contents(SentPart) \o Contents(got)
  BY <1>1, <1>4, <1>5, ContentsConcat
<1>8. Descriptors(SentPart') = Descriptors(SentPart) \o Descriptors(got)
  BY <1>1, <1>4, <1>5, DescriptorsConcat
<1> QED
  BY <1>2, <1>3, <1>4, <1>6, <1>7, <1>8

\* _read never makes its buffer one of no size, keeps the limit that is
\* set, and doubles only what was filled.
LEMMA AdaptPositive ==
  ASSUME ReadInv, NEW n \in Nat
  PROVE  /\ Adapt(n) \in Nat \ {0}
         /\ limit # 0 => Adapt(n) = rbuffersz
         /\ Adapt(n) > rbuffersz => Adapt(n) = 2 * n
<1>1. rbuffersz \in Nat \ {0} /\ rlimit \in Nat /\ (limit # 0 => rlimit # 0)
  BY DEF ReadInv, ReadTyped, LimitInForce
<1>2. rbuffersz > RBUFFER_SZ => rbuffersz \div 2 \in Nat \ {0} /\ rbuffersz \div 2 <= rbuffersz
  BY <1>1
<1> QED
  BY <1>1, <1>2 DEF Adapt

\* What TCP carries is bytes alone.
LEMMA TcpCarriesNone ==
  ASSUME SendInv, protocol = "TCP", NEW m \in 0 .. Len(wire)
  PROVE  Descriptors(SubSeq(wire, 1, m)) = <<>>
<1>1. /\ wire \in Seq(Bytes) /\ AheadOf(Bytes, given, wire)
      /\ \A i \in 1 .. Len(given) : given[i].fd = NoFd
  BY DEF SendInv, TypeOK, Conserved, Ahead, Plain
<1>2. /\ given \in Seq(Bytes) /\ Len(given) >= Len(wire)
      /\ SubSeq(given, 1, m) = SubSeq(wire, 1, m)
  BY <1>1, AheadPrefix
<1>3. Len(given) \in Nat /\ Len(wire) \in Nat
  BY <1>1, <1>2, LenProperties
<1>4. m \in 0 .. Len(given) /\ \A i \in 1 .. m : i \in 1 .. Len(given)
  BY <1>2, <1>3
<1>5. /\ SubSeq(given, 1, m) \in Seq(Bytes) /\ Len(SubSeq(given, 1, m)) = m
      /\ \A i \in 1 .. m : SubSeq(given, 1, m)[i] = given[i]
  BY <1>2, <1>4, FirstPart
<1>6. \A i \in 1 .. Len(SubSeq(given, 1, m)) : SubSeq(given, 1, m)[i].fd = NoFd
  BY <1>1, <1>4, <1>5
<1>7. Descriptors(SubSeq(given, 1, m)) = <<>>
  BY <1>5, <1>6, DescriptorsPlain
<1> QED
  BY <1>2, <1>7

\* A step that leaves the sending end alone keeps its invariant.
LEMMA SendRests ==
  ASSUME SendInv, UNCHANGED vars
  PROVE  SendInv'
<1>1. Queued' = Queued
  BY QueuedIsOf DEF vars
<1> QED
  BY <1>1 DEF vars, SendInv, TypeOK, PartsFit, Accounting, Conserved, Ahead, AheadOf,
              Ended, Plain

\* _read keeps the invariant.
LEMMA ReadDataKeeps ==
  ASSUME ReadInv, SendInv', UNCHANGED vars, NEW n \in 1 .. Len(Unread), ReadData(n)
  PROVE  ReadInv'
<1>1. /\ protocol = "TCP" /\ rstatus = "OPEN" /\ Gives(n)
      /\ data' = data \o Contents(SubSeq(Unread, 1, n)) /\ rbuffersz' = Adapt(n)
      /\ UNCHANGED <<rstatus, rlimit, fds, limit, rend, protocol, status, wire>>
      /\ n \in Nat
  BY DEF ReadData, vars
<1>2. /\ taken' = taken + n /\ taken' \in 0 .. Len(wire')
      /\ SubSeq(Unread, 1, n) \in Seq(Bytes)
      /\ Contents(SubSeq(Unread, 1, n)) \in Seq(Payload)
      /\ Contents(SentPart') = Contents(SentPart) \o Contents(SubSeq(Unread, 1, n))
      /\ Contents(SentPart) \in Seq(Payload)
      /\ Descriptors(SentPart') = Descriptors(SentPart) \o Descriptors(SubSeq(Unread, 1, n))
  BY <1>1, GivesMore
<1>3. /\ Adapt(n) \in Nat \ {0} /\ (limit # 0 => Adapt(n) = rbuffersz)
  BY <1>1, AdaptPositive
<1>4. data = Contents(SentPart) /\ fds = Descriptors(SentPart)
  BY <1>1 DEF ReadInv, Delivered
<1>5. data' = Contents(SentPart') /\ data' \in Seq(Payload)
  BY <1>1, <1>2, <1>4, ConcatProperties
<1>6. ReadTyped'
  BY <1>1, <1>2, <1>3, <1>5 DEF ReadInv, ReadTyped
<1>7. LimitInForce'
  BY <1>1, <1>3 DEF ReadInv, LimitInForce
<1>8. AllRead'
  BY <1>1 DEF ReadInv, AllRead
<1>9. fds' = Descriptors(SentPart')
  <2>1. Descriptors(SubSeq(wire, 1, taken')) = <<>>
    BY <1>1, <1>2, TcpCarriesNone DEF ReadInv
  <2>2. Descriptors(SubSeq(wire, 1, taken)) = <<>>
    BY <1>1, TcpCarriesNone DEF ReadInv, ReadTyped
  <2> QED
    BY <1>1, <1>4, <2>1, <2>2 DEF SentPart
<1>10. Delivered'
  <2>1. AheadOf(Payload, data', data')
    BY <1>5, AheadSelf
  <2> QED
    BY <1>5, <1>9, <2>1 DEF Delivered
<1> QED
  BY <1>6, <1>7, <1>8, <1>10 DEF ReadInv

\* _read_close keeps the invariant.
LEMMA ReadDroppedKeeps ==
  ASSUME ReadInv, UNCHANGED vars, NEW n \in 1 .. Len(Unread), ReadDropped(n)
  PROVE  ReadInv'
<1>1. /\ protocol = "TCP" /\ rstatus = "HALFCLOSE" /\ Gives(n)
      /\ UNCHANGED <<rstatus, rbuffersz, rlimit, data, fds, limit, rend, protocol, status, wire>>
  BY DEF ReadDropped, vars
<1>2. /\ taken' \in 0 .. Len(wire')
      /\ Contents(SubSeq(Unread, 1, n)) \in Seq(Payload)
      /\ Contents(SentPart') = Contents(SentPart) \o Contents(SubSeq(Unread, 1, n))
      /\ Contents(SentPart) \in Seq(Payload)
  BY <1>1, GivesMore
<1>3. AheadOf(Payload, Contents(SentPart), data) /\ fds = Descriptors(SentPart) /\ data \in Seq(Payload)
  BY <1>1 DEF ReadInv, Delivered, ReadTyped
<1>4. AheadOf(Payload, Contents(SentPart'), Contents(SentPart))
  BY <1>2 DEF AheadOf
<1>5. AheadOf(Payload, Contents(SentPart'), data)
  BY <1>3, <1>4, AheadTransitive
<1>6. Descriptors(SentPart') = Descriptors(SentPart)
  <2>1. Descriptors(SubSeq(wire, 1, taken')) = <<>>
    BY <1>1, <1>2, TcpCarriesNone DEF ReadInv
  <2>2. Descriptors(SubSeq(wire, 1, taken)) = <<>>
    BY <1>1, TcpCarriesNone DEF ReadInv, ReadTyped
  <2> QED
    BY <1>1, <2>1, <2>2 DEF SentPart
<1>7. SendInv' /\ ReadTyped' /\ LimitInForce' /\ AllRead'
  BY <1>1, <1>2, SendRests DEF ReadInv, ReadTyped, LimitInForce, AllRead
<1>8. Delivered'
  BY <1>1, <1>3, <1>5, <1>6 DEF Delivered
<1> QED
  BY <1>7, <1>8 DEF ReadInv

\* How the reading end may end.
LEMMA EndingKeeps ==
  ASSUME ReadInv, UNCHANGED vars, NEW why \in {"EOF", "EOFHALF", "SOCKERR", "TRUNC", "closed"},
         EndReading(why), taken' \in 0 .. Len(wire'), 
         why \in {"EOF", "EOFHALF"} => status = "INVALID" /\ taken' = Len(wire),
         why = "EOF" => data = Contents(wire) /\ fds = Descriptors(wire)
  PROVE  ReadInv'
<1>1. /\ rstatus' = "INVALID" /\ rend' = why
      /\ UNCHANGED <<rbuffersz, rlimit, data, fds, limit, protocol, status, wire>>
  BY DEF EndReading, vars
<1>2. SendInv' /\ ReadTyped' /\ LimitInForce' /\ AllRead'
  BY <1>1, SendRests DEF ReadInv, ReadTyped, LimitInForce, AllRead
<1>3. Delivered'
  BY <1>1 DEF Delivered
<1> QED
  BY <1>2, <1>3 DEF ReadInv

\* _readfd keeps the invariant, whether it hands over or gives up.
LEMMA ReadMsgKeeps ==
  ASSUME ReadInv, UNCHANGED vars, NEW n \in 1 .. Len(Unread), ReadMsg(n)
  PROVE  ReadInv'
<1> DEFINE got == SubSeq(Unread, 1, n)
<1>1. /\ protocol = "IPC" /\ rstatus # "INVALID" /\ Gives(n)
      /\ UNCHANGED <<protocol, status, wire>>
  BY DEF ReadMsg, vars
<1>2. /\ taken' \in 0 .. Len(wire')
      /\ Contents(got) \in Seq(Payload)
      /\ Contents(SentPart') = Contents(SentPart) \o Contents(got)
      /\ Contents(SentPart) \in Seq(Payload)
      /\ Descriptors(SentPart') = Descriptors(SentPart) \o Descriptors(got)
      /\ got \in Seq(Bytes)
  BY <1>1, GivesMore
<1>3. data = Contents(SentPart) /\ fds = Descriptors(SentPart)
  BY <1>1 DEF ReadInv, Delivered
<1>4. CASE /\ data' = data \o Contents(got)
           /\ fds' = fds \o Descriptors(got)
           /\ UNCHANGED <<rstatus, rbuffersz, rlimit, limit, rend>>
  <2>1. data' = Contents(SentPart') /\ data' \in Seq(Payload)
    BY <1>2, <1>3, <1>4, ConcatProperties
  <2>2. fds' = Descriptors(SentPart')
    BY <1>2, <1>3, <1>4
  <2>3. fds' \in Seq(Cfds)
    <3>1. Descriptors(got) \in Seq(Cfds) /\ fds \in Seq(Cfds)
      BY <1>2, DescriptorsConcat DEF ReadInv, ReadTyped
    <3> QED
      BY <1>4, <3>1, ConcatProperties
  <2>4. SendInv' /\ ReadTyped' /\ LimitInForce'
    BY <1>2, <1>4, <2>1, <2>3, SendRests DEF ReadInv, ReadTyped, LimitInForce
  <2>5. AllRead'
    BY <1>1, <1>4 DEF ReadInv, AllRead
  <2>6. AheadOf(Payload, data', data')
    BY <2>1, AheadSelf
  <2>7. Delivered'
    BY <2>1, <2>2, <2>6 DEF Delivered
  <2> QED
    BY <2>4, <2>5, <2>7 DEF ReadInv
<1>5. CASE EndReading("TRUNC")
  BY <1>2, <1>5, EndingKeeps
<1> QED
  BY <1>4, <1>5 DEF ReadMsg

\* The end of the file is reported with everything read: the buffer has
\* a size, so that 0 is returned only by the peer's close.
LEMMA ReadEndKeeps ==
  ASSUME ReadInv, UNCHANGED vars, ReadEnd
  PROVE  ReadInv'
<1>1. taken' = taken /\ taken' \in 0 .. Len(wire') /\ wire' = wire
  BY DEF ReadEnd, ReadInv, ReadTyped, vars
<1>2. ASSUME NEW size \in Nat \ {0}, AtEnd(size)
      PROVE  status = "INVALID" /\ taken = Len(wire) /\ SentPart = wire
  BY <1>2, SentPartType DEF AtEnd
<1>3. rbuffersz \in Nat \ {0} /\ RECVMSG_MAXSIZE \in Nat \ {0} /\ 1024 \in Nat \ {0}
  BY DEF ReadInv, ReadTyped
<1>4. CASE protocol = "TCP" /\ rstatus = "OPEN" /\ AtEnd(rbuffersz) /\ EndReading("EOF")
  <2>1. status = "INVALID" /\ taken = Len(wire) /\ SentPart = wire
    BY <1>2, <1>3, <1>4
  <2>2. data = Contents(wire) /\ fds = Descriptors(wire)
    BY <1>4, <2>1 DEF ReadInv, Delivered
  <2> QED
    BY <1>1, <1>4, <2>1, <2>2, EndingKeeps
<1>5. CASE protocol = "TCP" /\ rstatus = "HALFCLOSE" /\ AtEnd(1024) /\ EndReading("EOFHALF")
  <2>1. status = "INVALID" /\ taken = Len(wire)
    BY <1>2, <1>3, <1>5
  <2> QED
    BY <1>1, <1>5, <2>1, EndingKeeps
<1>6. CASE protocol = "IPC" /\ rstatus # "INVALID" /\ AtEnd(RECVMSG_MAXSIZE) /\ EndReading("EOF")
  <2>1. status = "INVALID" /\ taken = Len(wire) /\ SentPart = wire
    BY <1>2, <1>3, <1>6
  <2>2. data = Contents(wire) /\ fds = Descriptors(wire)
    BY <1>6, <2>1 DEF ReadInv, Delivered
  <2> QED
    BY <1>1, <1>6, <2>1, <2>2, EndingKeeps
<1> QED
  BY <1>4, <1>5, <1>6 DEF ReadEnd

\* Every action of the reading end keeps the invariant.
LEMMA ReaderKeeps ==
  ASSUME ReadInv, Reader, UNCHANGED vars
  PROVE  ReadInv'
<1>1. ASSUME NEW n \in 1 .. Len(Unread), ReadData(n) \/ ReadDropped(n) \/ ReadMsg(n)
      PROVE  ReadInv'
  <2>1. SendInv'
    BY SendRests DEF ReadInv
  <2> QED
    BY <1>1, <2>1, ReadDataKeeps, ReadDroppedKeeps, ReadMsgKeeps
<1>2. CASE ReadEnd
  BY <1>2, ReadEndKeeps
<1>3. taken \in 0 .. Len(wire) /\ wire' = wire
  BY DEF ReadInv, ReadTyped, vars
<1>4. CASE ReadError
  BY <1>3, <1>4, EndingKeeps DEF ReadError
<1>5. CASE ReaderCloses
  BY <1>3, <1>5, EndingKeeps DEF ReaderCloses
<1>6. ASSUME NEW lim \in ReadLimits \cup {0}, ReadLimit(lim) PROVE ReadInv'
  <2>1. SendInv' /\ UNCHANGED <<protocol, status, wire, rstatus, taken, data, fds, rend>>
    BY <1>6, SendRests DEF ReadInv, ReadLimit, vars
  <2>2. rlimit' = lim /\ limit' = lim /\ rbuffersz' = IF lim = 0 THEN rbuffersz ELSE lim
    BY <1>6 DEF ReadLimit
  <2>3. ReadTyped' /\ LimitInForce'
    BY <2>1, <2>2 DEF ReadInv, ReadTyped, LimitInForce
  <2>4. SentPart' = SentPart
    BY <2>1 DEF SentPart
  <2>5. AllRead' /\ Delivered'
    BY <2>1, <2>4 DEF ReadInv, AllRead, Delivered
  <2> QED
    BY <2>1, <2>3, <2>5 DEF ReadInv
<1>7. CASE HalfClose
  <2>1. /\ SendInv' /\ rstatus = "OPEN" /\ rstatus' = "HALFCLOSE"
        /\ UNCHANGED <<protocol, status, wire, rbuffersz, rlimit, taken, data, fds, limit, rend>>
    BY <1>7, SendRests DEF ReadInv, HalfClose, vars
  <2>2. SentPart' = SentPart
    BY <2>1 DEF SentPart
  <2>3. ReadTyped' /\ LimitInForce' /\ AllRead' /\ Delivered'
    BY <2>1, <2>2 DEF ReadInv, ReadTyped, LimitInForce, AllRead, Delivered
  <2> QED
    BY <2>1, <2>3 DEF ReadInv
<1> QED
  BY <1>1, <1>2, <1>4, <1>5, <1>6, <1>7 DEF Reader

\* The sending end goes on; what was read stays a part of what was sent.
LEMMA SenderKeeps ==
  ASSUME ReadInv, Step, UNCHANGED <<protocol, rvars>>
  PROVE  ReadInv'
<1>1. SendInv'
  BY StepKeeps DEF ReadInv
<1>2. status # "INVALID" /\ Ahead(wire', wire)
  BY StepMoves DEF ReadInv
<1>3. UNCHANGED <<protocol, rstatus, rbuffersz, rlimit, taken, data, fds, limit, rend>>
  BY DEF rvars
<1>4. /\ wire \in Seq(Bytes) /\ Len(wire) \in Nat /\ taken \in 0 .. Len(wire)
      /\ wire' \in Seq(Bytes) /\ Len(wire') \in Nat
  BY <1>1, LenProperties DEF ReadInv, ReadTyped, SendInv, TypeOK
<1>5. Len(wire') >= Len(wire) /\ SubSeq(wire', 1, taken) = SubSeq(wire, 1, taken)
  BY <1>2, <1>4, AheadPrefix DEF Ahead
<1>6. taken' \in 0 .. Len(wire') /\ SentPart' = SentPart
  BY <1>3, <1>4, <1>5 DEF SentPart
<1>7. rend \notin {"EOF", "EOFHALF"}
  BY <1>2 DEF ReadInv, AllRead
<1>8. ReadTyped' /\ LimitInForce' /\ AllRead' /\ Delivered'
  BY <1>3, <1>6, <1>7 DEF ReadInv, ReadTyped, LimitInForce, AllRead, Delivered
<1> QED
  BY <1>1, <1>8 DEF ReadInv

\* A new connection.
FreshReader ==
  /\ rstatus = "OPEN" /\ rbuffersz = RBUFFER_SZ /\ rlimit \in ReadLimits \cup {0}
  /\ taken = 0 /\ data = <<>> /\ fds = <<>> /\ limit = 0 /\ rend = "none"

\* A reader that begins has read nothing of a wire on which nothing is.
LEMMA FreshReaderInv ==
  FreshReader /\ wire = <<>> /\ SendInv => ReadInv
<1> SUFFICES ASSUME FreshReader, wire = <<>>, SendInv PROVE ReadInv
  OBVIOUS
<1> USE DEF FreshReader
<1>1. ReadTyped
  BY EmptySeq DEF ReadTyped
<1>2. SentPart = <<>> /\ <<>> \in Seq(Bytes)
  BY DEF SentPart
<1>3. Contents(<<>>) = <<>> /\ Descriptors(<<>>) = <<>>
  BY NothingSent
<1>5. AheadOf(Payload, <<>>, <<>>)
  BY EmptySeq, AheadSelf
<1>6. LimitInForce /\ AllRead /\ Delivered
  BY <1>2, <1>3, <1>5 DEF LimitInForce, AllRead, Delivered
<1> QED
  BY <1>1, <1>6 DEF ReadInv

\* The next connection keeps the invariant, with the limit of the last one
\* in rlimit.
LEMMA ReconnectKeeps ==
  ASSUME ReadInv, Reconnect
  PROVE  ReadInv'
<1>1. FreshReader' /\ wire' = <<>>
  BY DEF ReadInv, ReadTyped, Reconnect, Reopen, FreshReader
<1>2. SendInv'
  BY ReopenKeeps DEF ReadInv, Reconnect
<1>3. FreshReader /\ wire = <<>> /\ SendInv => ReadInv
  BY FreshReaderInv
<1>4. (FreshReader /\ wire = <<>> /\ SendInv => ReadInv)'
  BY FreshReaderInv, PTL
<1> QED
  BY <1>1, <1>2, <1>4

\* Every step of the connection keeps the invariant.
LEMMA Connects ==
  ASSUME ReadInv, [ConnectionNext]_<<vars, rvars>>
  PROVE  ReadInv'
<1>1. CASE Step /\ UNCHANGED <<protocol, rvars>>
  BY <1>1, SenderKeeps
<1>2. CASE Reader /\ UNCHANGED vars
  BY <1>2, ReaderKeeps
<1>3. CASE Reconnect
  BY <1>3, ReconnectKeeps
<1>4. CASE UNCHANGED <<vars, rvars>>
  <2>1. /\ UNCHANGED vars /\ SendInv'
        /\ UNCHANGED <<protocol, status, wire, rstatus, rbuffersz, rlimit, taken, data, fds, limit, rend>>
    BY <1>4, SendRests DEF ReadInv, vars, rvars
  <2>2. SentPart' = SentPart
    BY <2>1 DEF SentPart
  <2> QED
    BY <2>1, <2>2 DEF ReadInv, ReadTyped, LimitInForce, AllRead, Delivered
<1> QED
  BY <1>1, <1>2, <1>3, <1>4 DEF ConnectionNext

(***************************************************************************)
(* The invariant of the connection holds: besides that of the sender, what *)
(* the reader has handed over is what it has taken from the wire, the      *)
(* limit in force is the size of its buffer, and the end of the file is    *)
(* the end of all.                                                         *)
(***************************************************************************)
THEOREM ConnectionTyped == ConnectionSpec => []ReadInv
<1>1. ConnectionInit => ReadInv
  <2> SUFFICES ASSUME ConnectionInit PROVE ReadInv
    OBVIOUS
  <2>1. SendInv
    BY FreshInv DEF ConnectionInit, Init, Fresh
  <2>2. FreshReader /\ wire = <<>>
    BY DEF ConnectionInit, Init, FreshReader
  <2> QED
    BY <2>1, <2>2, FreshReaderInv
<1>2. ReadInv /\ [ConnectionNext]_<<vars, rvars>> => ReadInv'
  BY Connects
<1> QED
  BY <1>1, <1>2, PTL DEF ConnectionSpec

-----------------------------------------------------------------------------
(* What holds of the connection.                                           *)

(***************************************************************************)
(* The sending end of the connection is one of SendQueue: the theorems     *)
(* about it hold of the connection too.                                    *)
(***************************************************************************)
THEOREM ConnectionSends == ConnectionSpec => Spec
<1>1. ConnectionInit => Init
  BY DEF ConnectionInit
<1>2. [ConnectionNext]_<<vars, rvars>> => [Next]_vars
  BY DEF ConnectionNext, Next, Reconnect, vars
<1> QED
  BY <1>1, <1>2, PTL DEF ConnectionSpec, Spec

(***************************************************************************)
(* Every variable of the two ends has its type; taken never passes the     *)
(* wire.                                                                   *)
(***************************************************************************)
THEOREM ConnectionIsTyped == ConnectionSpec => []ConnectionTypeOK
<1>1. ReadInv => ConnectionTypeOK
  BY DEF ReadInv, SendInv, ReadTyped, ConnectionTypeOK
<1> QED
  BY <1>1, ConnectionTyped, PTL

(***************************************************************************)
(* socket_read reports the end of the file only when the peer has closed   *)
(* and nothing is left to read: the size of the buffer is never 0.         *)
(***************************************************************************)
THEOREM EofHolds == ConnectionSpec => []EofIsReal
<1>1. ReadInv => EofIsReal
  <2> SUFFICES ASSUME ReadInv, rend \in {"EOF", "EOFHALF"}
               PROVE  status = "INVALID" /\ Unread = <<>>
    BY DEF EofIsReal
  <2>1. status = "INVALID" /\ taken = Len(wire)
    BY DEF ReadInv, AllRead
  <2>2. Unread \in Seq(Bytes) /\ Len(Unread) = 0
    BY <2>1, SentPartType
  <2> QED
    BY <2>1, <2>2
<1> QED
  BY <1>1, ConnectionTyped, PTL

\* The largest of three.
LEMMA MaxOfThree ==
  ASSUME NEW a \in Int, NEW b \in Int, NEW c \in Int
  PROVE  a <= Max({a, b, c}) /\ b <= Max({a, b, c}) /\ c <= Max({a, b, c})
<1> DEFINE S == {a, b, c}
           P(m) == \A y \in S : m >= y
<1>1. \E m \in S : P(m)
  <2>1. CASE a >= b /\ a >= c
    BY <2>1
  <2>2. CASE b >= a /\ b >= c
    BY <2>2
  <2>3. CASE c >= a /\ c >= b
    BY <2>3
  <2> QED
    BY <2>1, <2>2, <2>3
<1>2. Max(S) = CHOOSE m \in S : P(m)
  BY DEF Max
<1> HIDE DEF P
<1>3. Max(S) \in S /\ P(Max(S))
  BY <1>1, <1>2
<1> QED
  BY <1>3 DEF P

(***************************************************************************)
(* No socket_read of a connection with a limit returns more than it, and   *)
(* when the buffer of _read grows, it grows to no more than its first      *)
(* size, the limit or twice what this call has read.                       *)
(***************************************************************************)
THEOREM ReadsAreBounded == ConnectionSpec => ReadsBounded
<1> DEFINE Bounded ==
             /\ data' # data /\ protocol = "TCP" /\ limit # 0 => Len(data') - Len(data) <= limit
             /\ rbuffersz' > rbuffersz =>
                  rbuffersz' <= Max({RBUFFER_SZ, rlimit', 2 * (taken' - taken)})
<1>1. ASSUME ReadInv, ReadInv', ConnectionNext PROVE Bounded
  <2>1. /\ rbuffersz \in Nat /\ rlimit' \in Nat /\ taken \in Nat /\ taken' \in Nat /\ limit \in Nat
        /\ Len(data) \in Nat /\ data \in Seq(Payload)
    <3>1. data \in Seq(Payload) /\ Len(wire) \in Nat /\ Len(wire') \in Nat
      BY <1>1, LenProperties DEF ReadInv, ReadTyped, SendInv, TypeOK
    <3> QED
      BY <1>1, <3>1, LenProperties DEF ReadInv, ReadTyped
  <2>2. /\ RBUFFER_SZ <= Max({RBUFFER_SZ, rlimit', 2 * (taken' - taken)})
        /\ rlimit' <= Max({RBUFFER_SZ, rlimit', 2 * (taken' - taken)})
        /\ 2 * (taken' - taken) <= Max({RBUFFER_SZ, rlimit', 2 * (taken' - taken)})
    <3>1. RBUFFER_SZ \in Int /\ rlimit' \in Int /\ 2 * (taken' - taken) \in Int
      BY <2>1
    <3> QED
      BY <3>1, MaxOfThree
  <2> HIDE DEF Bounded
  <2>3. ASSUME UNCHANGED <<data, rbuffersz>> PROVE Bounded
    BY <2>1, <2>3 DEF Bounded
  <2>4. ASSUME UNCHANGED vars, NEW n \in 1 .. Len(Unread), ReadData(n) PROVE Bounded
    <3>1. /\ n \in Nat /\ n <= rbuffersz /\ Gives(n) /\ rbuffersz' = Adapt(n)
          /\ data' = data \o Contents(SubSeq(Unread, 1, n))
      BY <2>4 DEF ReadData
    <3>2. /\ taken' = taken + n /\ Contents(SubSeq(Unread, 1, n)) \in Seq(Payload)
          /\ Len(Contents(SubSeq(Unread, 1, n))) = n
      BY <1>1, <2>4, <3>1, GivesMore
    <3>3. Len(data') = Len(data) + Len(Contents(SubSeq(Unread, 1, n)))
      BY <2>1, <3>1, <3>2, ConcatProperties
    <3>4. Len(data') = Len(data) + n
      BY <3>2, <3>3
    <3>5. limit # 0 => n <= limit
      BY <1>1, <3>1 DEF ReadInv, LimitInForce
    <3>6. rbuffersz' > rbuffersz => rbuffersz' = 2 * (taken' - taken)
      BY <1>1, <2>1, <3>1, <3>2, AdaptPositive
    <3>7. limit # 0 => Len(data') - Len(data) <= limit
      BY <2>1, <3>1, <3>4, <3>5
    <3> QED
      BY <2>2, <3>6, <3>7 DEF Bounded
  <2>5. ASSUME NEW n \in 1 .. Len(Unread), ReadMsg(n) PROVE Bounded
    <3>1. protocol = "IPC" /\ rbuffersz' = rbuffersz
      BY <2>5 DEF ReadMsg, EndReading
    <3> QED
      BY <2>1, <3>1 DEF Bounded
  <2>6. ASSUME NEW lim \in ReadLimits \cup {0}, ReadLimit(lim) PROVE Bounded
    <3>1. data' = data /\ (rbuffersz' > rbuffersz => rbuffersz' = rlimit')
      BY <2>1, <2>6 DEF ReadLimit
    <3> QED
      BY <2>2, <3>1 DEF Bounded
  <2>7. CASE Reconnect
    <3>1. rbuffersz' = RBUFFER_SZ /\ data' = <<>>
      BY <2>7 DEF Reconnect
    <3>2. Len(data') - Len(data) <= limit
      BY <2>1, <3>1
    <3> QED
      BY <2>2, <3>1, <3>2 DEF Bounded
  <2>8. CASE Step /\ UNCHANGED <<protocol, rvars>>
    BY <2>3, <2>8 DEF rvars
  <2>9. CASE Reader /\ UNCHANGED vars
    BY <2>3, <2>4, <2>5, <2>6, <2>9
    DEF Reader, ReadDropped, ReadEnd, EndReading, ReadError, HalfClose, ReaderCloses
  <2> QED
    BY <1>1, <2>7, <2>8, <2>9 DEF ConnectionNext
<1> HIDE DEF Bounded
<1>2. ReadInv /\ ReadInv' /\ [ConnectionNext]_<<vars, rvars>> => [Bounded]_<<vars, rvars>>
  BY <1>1
<1>3. ReadsBounded <=> [][Bounded]_<<vars, rvars>>
  BY DEF ReadsBounded, Bounded
<1> QED
  BY <1>2, <1>3, ConnectionTyped, PTL DEF ConnectionSpec

-----------------------------------------------------------------------------
(* The connection is a byte stream, and a stream of descriptors.           *)

LEMMA ContentsAhead ==
  ASSUME NEW g, NEW w \in Seq(Bytes), Ahead(g, w)
  PROVE  /\ Contents(w) \in Seq(Payload) /\ AheadOf(Payload, Contents(g), Contents(w))
         /\ Descriptors(w) \in Seq(Cfds) /\ AheadOf(Cfds, Descriptors(g), Descriptors(w))
<1>1. PICK rest \in Seq(Bytes) : g = w \o rest
  BY DEF Ahead, AheadOf
<1>2. Contents(g) = Contents(w) \o Contents(rest) /\ Descriptors(g) = Descriptors(w) \o Descriptors(rest)
  BY <1>1, ContentsConcat, DescriptorsConcat
<1>3. /\ Contents(w) \in Seq(Payload) /\ Contents(rest) \in Seq(Payload)
      /\ Descriptors(w) \in Seq(Cfds) /\ Descriptors(rest) \in Seq(Cfds)
  BY <1>1, ContentsType, DescriptorsConcat
<1> QED
  BY <1>2, <1>3 DEF AheadOf

\* What begins a sequence.
LEMMA FrontAhead ==
  ASSUME NEW S, NEW s \in Seq(S), NEW m \in 0 .. Len(s)
  PROVE  AheadOf(S, s, SubSeq(s, 1, m))
<1>1. ASSUME NEW n \in 0 .. Len(s) - m
      PROVE  /\ SubSeq(SubSeq(s, m + 1, Len(s)), 1, n) \in Seq(S)
             /\ SubSeq(s, 1, m + n) = SubSeq(s, 1, m) \o SubSeq(SubSeq(s, m + 1, Len(s)), 1, n)
  BY <1>1, MiddlePart
<1>2. PICK n \in 0 .. Len(s) - m : m + n = Len(s)
  BY LenProperties
<1>3. s = SubSeq(s, 1, m) \o SubSeq(SubSeq(s, m + 1, Len(s)), 1, n)
  BY <1>1, <1>2, SubSeqFull, Zenon
<1> QED
  BY <1>1, <1>3, Zenon DEF AheadOf

\* An open reader has a part of what the sender was given.
LEMMA ReadIsGiven ==
  ASSUME ReadInv, rstatus # "INVALID"
  PROVE  AheadOf(Payload, Contents(given), data) /\ AheadOf(Cfds, Descriptors(given), fds)
<1>1. /\ given \in Seq(Bytes) /\ wire \in Seq(Bytes) /\ Ahead(given, wire)
      /\ data \in Seq(Payload) /\ fds \in Seq(Cfds) /\ taken \in 0 .. Len(wire)
  BY DEF ReadInv, SendInv, TypeOK, Conserved, ReadTyped
<1>2. SentPart \in Seq(Bytes) /\ Ahead(wire, SentPart)
  BY <1>1, FrontAhead, SentPartType DEF Ahead, SentPart
<1>3. Ahead(given, SentPart)
  BY <1>1, <1>2, AheadTransitive DEF Ahead
<1>4. /\ Contents(SentPart) \in Seq(Payload) /\ AheadOf(Payload, Contents(given), Contents(SentPart))
      /\ AheadOf(Cfds, Descriptors(given), Descriptors(SentPart))
  BY <1>2, <1>3, ContentsAhead
<1>5. AheadOf(Payload, Contents(SentPart), data) /\ fds = Descriptors(SentPart)
  BY DEF ReadInv, Delivered
<1> QED
  BY <1>1, <1>4, <1>5, AheadTransitive

\* What a step of an open connection does to both streams.
LEMMA ConnectionMoves ==
  ASSUME ReadInv, ReadInv', rstatus # "INVALID",
         (Step /\ UNCHANGED <<protocol, rvars>>) \/ (Reader /\ UNCHANGED vars)
  PROVE  /\ Ahead(given', given)
         /\ AheadOf(Payload, data', data) /\ AheadOf(Cfds, fds', fds)
         /\ rstatus' = "INVALID" => UNCHANGED <<given, data, fds>>
<1>1. /\ given \in Seq(Bytes) /\ data \in Seq(Payload) /\ fds \in Seq(Cfds)
      /\ Ahead(given, given) /\ AheadOf(Payload, data, data) /\ AheadOf(Cfds, fds, fds)
  BY AheadSelf DEF ReadInv, SendInv, TypeOK, ReadTyped, Ahead
<1>2. CASE Step /\ UNCHANGED <<protocol, rvars>>
  BY <1>1, <1>2, StepMoves DEF ReadInv, rvars
<1>3. CASE Reader /\ UNCHANGED vars
  <2>1. given' = given
    BY <1>3 DEF vars
  <2>2. ASSUME NEW n \in 1 .. Len(Unread), ReadData(n)
        PROVE  AheadOf(Payload, data', data) /\ UNCHANGED <<rstatus, fds>>
    <3>1. Gives(n) /\ data' = data \o Contents(SubSeq(Unread, 1, n)) /\ UNCHANGED <<rstatus, fds>>
      BY <2>2 DEF ReadData
    <3>2. Contents(SubSeq(Unread, 1, n)) \in Seq(Payload)
      BY <1>3, <3>1, GivesMore
    <3> QED
      BY <3>1, <3>2 DEF AheadOf
  <2>3. ASSUME NEW n \in 1 .. Len(Unread), ReadMsg(n)
        PROVE  \/ AheadOf(Payload, data', data) /\ AheadOf(Cfds, fds', fds) /\ UNCHANGED rstatus
               \/ UNCHANGED <<data, fds>>
    <3> DEFINE got == SubSeq(Unread, 1, n)
    <3>1. Gives(n)
      BY <2>3 DEF ReadMsg
    <3>2. Contents(got) \in Seq(Payload) /\ got \in Seq(Bytes)
      BY <1>3, <3>1, GivesMore
    <3>3. Descriptors(got) \in Seq(Cfds)
      BY <3>2, DescriptorsConcat
    <3>4. \/ data' = data \o Contents(got) /\ fds' = fds \o Descriptors(got) /\ UNCHANGED rstatus
          \/ UNCHANGED <<data, fds>>
      BY <2>3 DEF ReadMsg, EndReading
    <3> QED
      BY <3>2, <3>3, <3>4 DEF AheadOf
  <2>4. CASE UNCHANGED <<data, fds>>
    BY <1>1, <2>1, <2>4
  <2>5. CASE ~UNCHANGED <<data, fds>>
    <3>1. \E n \in 1 .. Len(Unread) : ReadData(n) \/ ReadMsg(n)
      BY <1>3, <2>5 DEF Reader, ReadDropped, ReadEnd, EndReading, ReadError, ReadLimit, HalfClose, ReaderCloses
    <3>2. PICK n \in 1 .. Len(Unread) : ReadData(n) \/ ReadMsg(n)
      BY <3>1
    <3>3. AheadOf(Payload, data', data) /\ AheadOf(Cfds, fds', fds) /\ UNCHANGED rstatus
      BY <1>1, <2>2, <2>3, <2>5, <3>2
    <3> QED
      BY <1>1, <2>1, <3>3
  <2> QED
    BY <2>4, <2>5
<1> QED
  BY <1>2, <1>3

\* Both streams move forward while the reader is open.
LEMMA StreamsMove ==
  ASSUME ReadInv, ReadInv', rstatus # "INVALID",
         (Step /\ UNCHANGED <<protocol, rvars>>) \/ (Reader /\ UNCHANGED vars)
  PROVE  Delivery!Moves /\ Passing!Moves
<1>1. /\ Ahead(given', given)
      /\ AheadOf(Payload, data', data) /\ AheadOf(Cfds, fds', fds)
      /\ rstatus' = "INVALID" => UNCHANGED <<given, data, fds>>
  BY ConnectionMoves
<1>2. /\ given \in Seq(Bytes) /\ given' \in Seq(Bytes) /\ data \in Seq(Payload) /\ data' \in Seq(Payload)
      /\ fds \in Seq(Cfds) /\ fds' \in Seq(Cfds)
  BY DEF ReadInv, SendInv, TypeOK, ReadTyped
<1>3. AheadOf(Payload, Contents(given'), data') /\ AheadOf(Cfds, Descriptors(given'), fds')
  <2>1. CASE rstatus' = "INVALID"
    BY <1>1, <2>1, ReadIsGiven
  <2>2. ReadInv /\ rstatus # "INVALID"
          => AheadOf(Payload, Contents(given), data) /\ AheadOf(Cfds, Descriptors(given), fds)
    BY ReadIsGiven
  <2>3. (ReadInv /\ rstatus # "INVALID"
          => AheadOf(Payload, Contents(given), data) /\ AheadOf(Cfds, Descriptors(given), fds))'
    BY ReadIsGiven, PTL
  <2> QED
    BY <2>1, <2>3
<1>4. /\ Contents(given) \in Seq(Payload) /\ Contents(given') \in Seq(Payload)
      /\ Descriptors(given) \in Seq(Cfds) /\ Descriptors(given') \in Seq(Cfds)
      /\ AheadOf(Payload, Contents(given'), Contents(given))
      /\ AheadOf(Cfds, Descriptors(given'), Descriptors(given))
  BY <1>1, <1>2, ContentsAhead, ContentsType, DescriptorsConcat
<1>5. ASSUME NEW S, NEW w \in Seq(S), NEW g, AheadOf(S, g, w)
      PROVE  Delivery!Extends(g, w) /\ Passing!Extends(g, w)
  BY <1>5, AheadPrefix DEF Delivery!Extends, Passing!Extends
<1>6. Delivery!Moves
  <2>1. /\ Delivery!Extends(Contents(given'), Contents(given)) /\ Delivery!Extends(data', data)
        /\ Delivery!Extends(Contents(given'), data')
    BY <1>1, <1>2, <1>3, <1>4, <1>5
  <2> QED
    BY <1>4, <2>1 DEF Delivery!Moves
<1>7. Passing!Moves
  <2>1. /\ Passing!Extends(Descriptors(given'), Descriptors(given)) /\ Passing!Extends(fds', fds)
        /\ Passing!Extends(Descriptors(given'), fds')
    BY <1>1, <1>2, <1>3, <1>4, <1>5
  <2> QED
    BY <1>4, <2>1 DEF Passing!Moves
<1> QED
  BY <1>6, <1>7

\* A reader that has ended reads no more, and an open sender has not ended well.
LEMMA EndedReader ==
  ASSUME ReadInv, rstatus = "INVALID"
  PROVE  /\ ~Reader
         /\ status # "INVALID" => Phase = "aborted"
<1>1. ~Reader
  BY DEF Reader, ReadData, ReadDropped, ReadMsg, ReadEnd, ReadError, ReadLimit, HalfClose, ReaderCloses
<1>2. status # "INVALID" => rend # "EOF"
  BY DEF ReadInv, AllRead
<1> QED
  BY <1>1, <1>2 DEF Phase

\* A step of the connection is a step of both streams or none of them.
LEMMA ConnectionRefines ==
  ASSUME ReadInv, ReadInv', [ConnectionNext]_<<vars, rvars>>
  PROVE  /\ [Delivery!Next]_<<Contents(given), data, Phase>>
         /\ [Passing!Next]_<<Descriptors(given), fds, Phase>>
<1> DEFINE Sends == Step /\ UNCHANGED <<protocol, rvars>>
           Reads == Reader /\ UNCHANGED vars
<1>1. CASE rstatus # "INVALID" /\ (Sends \/ Reads)
  <2>1. Phase = "open"
    BY <1>1 DEF Phase
  <2>2. Delivery!Moves /\ Passing!Moves
    BY <1>1, StreamsMove
  <2>3. rstatus' = "INVALID" => UNCHANGED <<given, data, fds>>
    BY <1>1, ConnectionMoves
  <2>4. Phase' = IF rstatus' # "INVALID" THEN "open"
                 ELSE IF rend' = "EOF" /\ event' = "WRIDONECLOSE" THEN "done" ELSE "aborted"
    BY DEF Phase
  <2>5. CASE Phase' = "open"
    BY <2>1, <2>2, <2>5 DEF Delivery!Next, Delivery!Transfer, Passing!Next, Passing!Transfer
  <2>6. CASE Phase' = "aborted"
    BY <2>1, <2>2, <2>6 DEF Delivery!Next, Delivery!Abort, Passing!Next, Passing!Abort
  <2>7. CASE Phase' = "done"
    <3>1. rstatus' = "INVALID" /\ rend' = "EOF" /\ event' = "WRIDONECLOSE"
      BY <2>4, <2>7
    <3>2. UNCHANGED <<given, data, fds>>
      BY <2>3, <3>1
    <3>3. wire' = given' /\ data' = Contents(wire') /\ fds' = Descriptors(wire')
      BY <3>1 DEF ReadInv, AllRead, SendInv, Ended
    <3>4. data = Contents(given) /\ fds = Descriptors(given)
      BY <3>2, <3>3
    <3>5. /\ Contents(given') = Contents(given)
          /\ Descriptors(given') = Descriptors(given)
      BY <3>2
    <3> QED
      BY <2>1, <2>7, <3>2, <3>4, <3>5 DEF Delivery!Next, Delivery!Finish, Passing!Next, Passing!Finish
  <2> QED
    BY <2>4, <2>5, <2>6, <2>7
<1>2. CASE rstatus = "INVALID" /\ (Sends \/ Reads)
  <2>1. Sends
    BY <1>2, EndedReader
  <2>2. /\ status # "INVALID" /\ Ahead(given', given) /\ rstatus' = "INVALID"
        /\ UNCHANGED <<data, fds, rend>>
    BY <1>2, <2>1, StepMoves DEF ReadInv, rvars
  <2>3. Phase = "aborted"
    BY <1>2, <2>2, EndedReader
  <2>4. rend' # "EOF"
    BY <2>2 DEF ReadInv, AllRead
  <2>5. Phase' = "aborted"
    BY <2>2, <2>4 DEF Phase
  <2>6. /\ Contents(given') \in Seq(Payload) /\ Descriptors(given') \in Seq(Cfds)
        /\ Contents(given) \in Seq(Payload) /\ Descriptors(given) \in Seq(Cfds)
        /\ AheadOf(Payload, Contents(given'), Contents(given))
        /\ AheadOf(Cfds, Descriptors(given'), Descriptors(given))
    <3>1. given \in Seq(Bytes) /\ given' \in Seq(Bytes)
      BY DEF ReadInv, SendInv, TypeOK
    <3> QED
      BY <2>2, <3>1, ContentsAhead, ContentsType, DescriptorsConcat
  <2>7. /\ Delivery!Extends(Contents(given'), Contents(given))
        /\ Passing!Extends(Descriptors(given'), Descriptors(given))
    BY <2>6, AheadPrefix DEF Delivery!Extends, Passing!Extends
  <2> QED
    BY <2>2, <2>3, <2>5, <2>6, <2>7
    DEF Delivery!Next, Delivery!GiveInVain, Passing!Next, Passing!GiveInVain
<1>3. CASE Reconnect
  <2>1. /\ rstatus = "INVALID" /\ rstatus' = "OPEN" /\ given' = <<>> /\ data' = <<>> /\ fds' = <<>>
    BY <1>3 DEF Reconnect, Reopen
  <2>2. Phase # "open" /\ Phase' = "open"
    BY <2>1 DEF Phase
  <2>3. Contents(<<>>) = <<>> /\ Descriptors(<<>>) = <<>>
    BY NothingSent
  <2>4. Contents(given') = <<>> /\ Descriptors(given') = <<>>
    BY <2>1, <2>3
  <2> QED
    BY <2>1, <2>2, <2>4 DEF Delivery!Next, Delivery!Reopen, Passing!Next, Passing!Reopen
<1>4. CASE UNCHANGED <<vars, rvars>>
  BY <1>4 DEF vars, rvars, Phase
<1> QED
  BY <1>1, <1>2, <1>3, <1>4 DEF ConnectionNext

(***************************************************************************)
(* From socket_send to socket_read the bytes are a stream, and the         *)
(* descriptors of socket_sendfd are one: handed over in order, none left   *)
(* out, none twice, and all of them when both ends say that they ended     *)
(* well.                                                                   *)
(***************************************************************************)
THEOREM ConnectionDelivers == ConnectionSpec => EndToEnd
<1>1. ConnectionInit => Delivery!Init /\ Passing!Init
  <2>1. Contents(<<>>) = <<>> /\ Descriptors(<<>>) = <<>>
    BY NothingSent
  <2> QED
    BY <2>1 DEF ConnectionInit, Init, Delivery!Init, Passing!Init, Phase
<1>2. ReadInv /\ ReadInv' /\ [ConnectionNext]_<<vars, rvars>>
        => /\ [Delivery!Next]_<<Contents(given), data, Phase>>
           /\ [Passing!Next]_<<Descriptors(given), fds, Phase>>
  BY ConnectionRefines
<1> QED
  BY <1>1, <1>2, ConnectionTyped, PTL DEF ConnectionSpec, EndToEnd, Delivery!Spec, Passing!Spec
=============================================================================
