------------------------- MODULE SocketBuffer_proofs -------------------------
(***************************************************************************)
(* Proofs about the Lua buffer of received data.                           *)
(*                                                                         *)
(* A place in the list is a node and an offset in the code, and a number   *)
(* of bytes in All here: StartsAt and NodeAtHolds relate the two.          *)
(* Whatever a pop returns, what it frees ends at some place (FreeCuts),    *)
(* and the properties follow from where each pop puts that place.          *)
(***************************************************************************)
EXTENDS SocketBuffer, FlattenLemmas

-----------------------------------------------------------------------------
(* Parts of a sequence.                                                    *)

\* The part of s behind its first a elements and up to the b-th.
LEMMA PartIs ==
  ASSUME NEW S, NEW s \in Seq(S), NEW a \in Nat, NEW b \in Nat, a <= b, b <= Len(s)
  PROVE  /\ SubSeq(s, a + 1, b) \in Seq(S)
         /\ Len(SubSeq(s, a + 1, b)) = b - a
         /\ \A i \in 1 .. b - a : SubSeq(s, a + 1, b)[i] = s[a + i]
<1>1. Len(s) \in Nat /\ a + 1 \in Int /\ b \in Int /\ \A i \in a + 1 .. b : s[i] \in S
  BY LenProperties, ElementOfSeq
<1>2. /\ SubSeq(s, a + 1, b) \in Seq(S)
      /\ Len(SubSeq(s, a + 1, b)) = IF a + 1 <= b THEN b - (a + 1) + 1 ELSE 0
      /\ \A i \in 1 .. b - (a + 1) + 1 : SubSeq(s, a + 1, b)[i] = s[(a + 1) + i - 1]
  BY <1>1, SubSeqProperties
<1>3. /\ b - (a + 1) + 1 = b - a /\ (IF a + 1 <= b THEN b - (a + 1) + 1 ELSE 0) = b - a
      /\ \A i \in 1 .. b - a : (a + 1) + i - 1 = a + i
  OBVIOUS
<1> QED
  BY <1>2, <1>3

\* Two parts that meet.
LEMMA PartsJoin ==
  ASSUME NEW S, NEW s \in Seq(S), NEW a \in Nat, NEW b \in Nat, NEW c \in Nat,
         a <= b, b <= c, c <= Len(s)
  PROVE  SubSeq(s, a + 1, c) = SubSeq(s, a + 1, b) \o SubSeq(s, b + 1, c)
<1>1. Len(s) \in Nat
  BY LenProperties
<1>2. a + 1 \in 1 .. Len(s) + 1 /\ b \in (a + 1) - 1 .. Len(s) /\ c \in b .. Len(s)
  BY <1>1
<1> QED
  BY <1>2, ConcatAdjacentSubSeq

\* What is behind the first of two sequences is a part of the second.
LEMMA PartBehind ==
  ASSUME NEW S, NEW s \in Seq(S), NEW t \in Seq(S), NEW a \in Nat, a <= Len(t)
  PROVE  SubSeq(t, a + 1, Len(t)) = SubSeq(s \o t, Len(s) + a + 1, Len(s) + Len(t))
<1>1. Len(s) \in Nat /\ Len(t) \in Nat
  BY LenProperties
<1>2. /\ s \o t \in Seq(S) /\ Len(s \o t) = Len(s) + Len(t)
      /\ \A i \in 1 .. Len(s) + Len(t) :
           (s \o t)[i] = IF i <= Len(s) THEN s[i] ELSE t[i - Len(s)]
  BY ConcatProperties
<1> DEFINE p == SubSeq(t, a + 1, Len(t))
           q == SubSeq(s \o t, (Len(s) + a) + 1, Len(s) + Len(t))
<1>3. /\ p \in Seq(S) /\ Len(p) = Len(t) - a
      /\ \A i \in 1 .. Len(t) - a : p[i] = t[a + i]
  BY <1>1, PartIs
<1>4. /\ q \in Seq(S) /\ Len(q) = Len(t) - a
      /\ \A i \in 1 .. Len(t) - a : q[i] = (s \o t)[(Len(s) + a) + i]
  <2>4. PICK m \in Nat, n \in Nat : m = Len(s) + a /\ n = Len(s) + Len(t)
    BY <1>1
  <2>5. PICK u \in Seq(S) : u = s \o t
    BY <1>2
  <2>1. m = Len(s) + a /\ n = Len(s) + Len(t) /\ u = s \o t
    BY <2>4, <2>5
  <2>2. m <= n /\ n <= Len(u) /\ n - m = Len(t) - a
    BY <1>1, <1>2, <2>1
  <2>3. /\ SubSeq(u, m + 1, n) \in Seq(S) /\ Len(SubSeq(u, m + 1, n)) = n - m
        /\ \A i \in 1 .. n - m : SubSeq(u, m + 1, n)[i] = u[m + i]
    BY <2>2, PartIs
  <2> QED
    BY <2>1, <2>2, <2>3
<1> HIDE DEF p, q
<1>5. ASSUME NEW i \in 1 .. Len(t) - a PROVE p[i] = q[i]
  <2>1. /\ (Len(s) + a) + i \in 1 .. Len(s) + Len(t) /\ ~((Len(s) + a) + i <= Len(s))
        /\ (Len(s) + a) + i - Len(s) = a + i
    BY <1>1
  <2> QED
    BY <1>2, <1>3, <1>4, <2>1
<1>6. p = q
  BY <1>3, <1>4, <1>5, SeqEqual
<1> QED
  BY <1>6 DEF p, q

\* A set of naturals with an element has a least one.
LEMMA LeastElement ==
  ASSUME NEW S, S \subseteq Nat, S # {}
  PROVE  \E x \in S : \A y \in S : x <= y
<1> SUFFICES ASSUME ~ \E x \in S : \A y \in S : x <= y PROVE FALSE
  OBVIOUS
<1> DEFINE T == {n \in Nat : \A m \in 0 .. n : m \notin S}
<1>1. 0 \in T
  OBVIOUS
<1>2. ASSUME NEW n \in Nat, n \in T PROVE n + 1 \in T
  <2>1. \A m \in 0 .. n + 1 : m \in 0 .. n \/ m = n + 1
    OBVIOUS
  <2>2. ASSUME n + 1 \in S PROVE FALSE
    <3>1. PICK y \in S : ~(n + 1 <= y)
      BY <2>2
    <3>2. y \in 0 .. n
      BY <3>1
    <3> QED
      BY <1>2, <3>2
  <2> QED
    BY <1>2, <2>1, <2>2
<1>3. Nat \subseteq T
  <2> HIDE DEF T
  <2> QED
    BY <1>1, <1>2, SetInduction
<1>4. PICK x \in S : x \in Nat
  OBVIOUS
<1>5. x \in T /\ x \in 0 .. x
  BY <1>3, <1>4
<1> QED
  BY <1>5

-----------------------------------------------------------------------------
(* The list of nodes.                                                      *)

\* A block is a sequence with a byte at least.
LEMMA BlockIs ==
  ASSUME NEW d \in Blocks
  PROVE  d \in Seq(Bytes) /\ Len(d) \in 1 .. MaxNode
<1>1. PICK n \in 1 .. MaxNode : d \in [1 .. n -> Bytes]
  BY DEF Blocks
<1>2. n \in Nat
  BY SocketBufferAssumption
<1> QED
  BY <1>1, <1>2

\* The bytes of the list up to and with its k-th node.
Upto(ns, k) == FlattenSeq(SubSeq(ns, 1, k))

\* The list is the nodes before a place and those behind it.
LEMMA UptoIs ==
  ASSUME NEW ns \in Seq(Blocks), NEW k \in Nat, k <= Len(ns)
  PROVE  /\ SubSeq(ns, 1, k) \in Seq(Blocks) /\ SubSeq(ns, k + 1, Len(ns)) \in Seq(Blocks)
         /\ Upto(ns, k) \in Seq(Bytes)
         /\ FlattenSeq(SubSeq(ns, k + 1, Len(ns))) \in Seq(Bytes)
         /\ FlattenSeq(ns) = Upto(ns, k) \o FlattenSeq(SubSeq(ns, k + 1, Len(ns)))
<1>1. Len(ns) \in Nat
  BY LenProperties
<1>2. SubSeq(ns, 1, k) \in Seq(Blocks)
  <2>1. SubSeq(ns, 0 + 1, k) \in Seq(Blocks)
    BY PartIs
  <2> QED
    BY <2>1
<1>3. SubSeq(ns, k + 1, Len(ns)) \in Seq(Blocks)
  BY <1>1, PartIs
<1>4. ns = SubSeq(ns, 1, k) \o SubSeq(ns, k + 1, Len(ns))
  <2>1. 1 \in 1 .. Len(ns) + 1 /\ k \in 1 - 1 .. Len(ns) /\ Len(ns) \in k .. Len(ns)
    BY <1>1
  <2>2. SubSeq(ns, 1, k) \o SubSeq(ns, k + 1, Len(ns)) = SubSeq(ns, 1, Len(ns))
    BY <2>1, ConcatAdjacentSubSeq
  <2>3. SubSeq(ns, 1, Len(ns)) = ns
    BY SubSeqFull
  <2> QED
    BY <2>2, <2>3
<1>5. Blocks \subseteq Seq(Bytes)
  BY BlockIs
<1>6. SubSeq(ns, 1, k) \in Seq(Seq(Bytes)) /\ SubSeq(ns, k + 1, Len(ns)) \in Seq(Seq(Bytes))
  BY <1>2, <1>3, <1>5, SeqMonotonic
<1>7. FlattenSeq(SubSeq(ns, 1, k) \o SubSeq(ns, k + 1, Len(ns)))
        = FlattenSeq(SubSeq(ns, 1, k)) \o FlattenSeq(SubSeq(ns, k + 1, Len(ns)))
  BY <1>6, FlattenConcat
<1> QED
  BY <1>2, <1>3, <1>4, <1>6, <1>7, FlattenType DEF Upto

\* One node more.
LEMMA UptoNext ==
  ASSUME NEW ns \in Seq(Blocks), NEW k \in 1 .. Len(ns)
  PROVE  Upto(ns, k) = Upto(ns, k - 1) \o ns[k]
<1>1. Len(ns) \in Nat /\ k \in Nat /\ k - 1 \in Nat /\ k - 1 + 1 = k
  BY LenProperties
<1>2. ns[k] \in Blocks
  BY ElementOfSeq
<1>3. SubSeq(ns, 1, k - 1) \in Seq(Blocks)
  BY <1>1, UptoIs
<1>4. SubSeq(ns, 1, k) = SubSeq(ns, 1, k - 1) \o <<ns[k]>>
  <2>1. 1 \in 1 .. Len(ns) /\ k \in 1 .. Len(ns)
    BY <1>1
  <2> QED
    BY <2>1, SubSeqRecursiveSecond
<1>5. SubSeq(ns, 1, k - 1) \o <<ns[k]>> = Append(SubSeq(ns, 1, k - 1), ns[k])
  BY <1>2, <1>3
<1>6. SubSeq(ns, 1, k - 1) \in Seq(Seq(Bytes)) /\ ns[k] \in Seq(Bytes)
  BY <1>2, <1>3, BlockIs, SeqMonotonic
<1>7. FlattenSeq(Append(SubSeq(ns, 1, k - 1), ns[k])) = FlattenSeq(SubSeq(ns, 1, k - 1)) \o ns[k]
  BY <1>6, FlattenAppend
<1> QED
  BY <1>4, <1>5, <1>7 DEF Upto

ListTyped == nodes \in Seq(Blocks)

\* Start, without its subtraction.
LEMMA StartIs == ASSUME NEW k, NEW n, k - 1 = n PROVE Start(k) = Len(Upto(nodes, n))
  BY DEF Start, Upto

\* Where the nodes start.
LEMMA StartsAt ==
  ASSUME ListTyped
  PROVE  /\ All \in Seq(Bytes) /\ Total \in Nat /\ Len(nodes) \in Nat
         /\ Start(1) = 0 /\ Start(Len(nodes) + 1) = Total
         /\ \A k \in 1 .. Len(nodes) + 1 : Start(k) \in 0 .. Total
         /\ \A k \in 1 .. Len(nodes) :
              /\ Start(k + 1) = Start(k) + Len(nodes[k])
              /\ nodes[k] \in Seq(Bytes) /\ Len(nodes[k]) \in 1 .. MaxNode
<1> USE DEF ListTyped
<1>1. Len(nodes) \in Nat /\ MaxNode \in Nat
  BY LenProperties, SocketBufferAssumption
<1>2. All \in Seq(Bytes)
  <2>1. nodes \in Seq(Seq(Bytes))
    BY BlockIs, SeqMonotonic
  <2> QED
    BY <2>1, FlattenType DEF All
<1>3. Total \in Nat
  BY <1>2, LenProperties DEF Total
<1>4. Start(1) = 0
  <2>1. SubSeq(nodes, 1, 0) = <<>>
    BY SubSeqEmpty
  <2>2. 1 - 1 = 0
    OBVIOUS
  <2>3. Start(1) = Len(Upto(nodes, 0))
    BY <2>2, StartIs
  <2>4. Upto(nodes, 0) = <<>>
    BY <2>1, FlattenEmpty, Zenon DEF Upto
  <2> QED
    BY <2>3, <2>4, EmptySeq
<1>5. Start(Len(nodes) + 1) = Total
  <2>1. (Len(nodes) + 1) - 1 = Len(nodes) /\ SubSeq(nodes, 1, Len(nodes)) = nodes
    BY <1>1, SubSeqFull
  <2>2. Start(Len(nodes) + 1) = Len(Upto(nodes, Len(nodes)))
    BY <2>1, StartIs
  <2> QED
    BY <2>1, <2>2 DEF Upto, Total, All
<1>6. ASSUME NEW k \in 1 .. Len(nodes) + 1 PROVE Start(k) \in 0 .. Total
  <2>1. k - 1 \in Nat /\ k - 1 <= Len(nodes)
    BY <1>1
  <2>2. /\ Upto(nodes, k - 1) \in Seq(Bytes)
        /\ FlattenSeq(SubSeq(nodes, k - 1 + 1, Len(nodes))) \in Seq(Bytes)
        /\ All = Upto(nodes, k - 1) \o FlattenSeq(SubSeq(nodes, k - 1 + 1, Len(nodes)))
    BY <2>1, UptoIs DEF All
  <2> QED
    BY <2>2, ConcatProperties, LenProperties DEF Start, Upto, Total
<1>7. ASSUME NEW k \in 1 .. Len(nodes)
      PROVE  /\ Start(k + 1) = Start(k) + Len(nodes[k])
             /\ nodes[k] \in Seq(Bytes) /\ Len(nodes[k]) \in 1 .. MaxNode
  <2>1. nodes[k] \in Seq(Bytes) /\ Len(nodes[k]) \in 1 .. MaxNode
    BY ElementOfSeq, BlockIs
  <2>2. k - 1 \in Nat /\ k - 1 <= Len(nodes) /\ (k + 1) - 1 = k
    BY <1>1
  <2>3. Upto(nodes, k - 1) \in Seq(Bytes)
    BY <2>2, UptoIs
  <2>4. Upto(nodes, k) = Upto(nodes, k - 1) \o nodes[k]
    BY UptoNext
  <2>5. Len(Upto(nodes, k)) = Len(Upto(nodes, k - 1)) + Len(nodes[k])
    BY <2>1, <2>3, <2>4, ConcatProperties
  <2>6. Start(k) = Len(Upto(nodes, k - 1)) /\ Start(k + 1) = Len(Upto(nodes, k))
    BY <2>2, StartIs
  <2> QED
    BY <2>1, <2>5, <2>6
<1> QED
  BY <1>1, <1>2, <1>3, <1>4, <1>5, <1>6, <1>7

\* Every byte is in the node that NodeAt names.
LEMMA NodeAtHolds ==
  ASSUME ListTyped, NEW p \in Nat, p < Total
  PROVE  /\ NodeAt(p) \in 1 .. Len(nodes)
         /\ Start(NodeAt(p)) <= p /\ p < Start(NodeAt(p)) + Len(nodes[NodeAt(p)])
<1> DEFINE In(k) == Start(k) <= p /\ p < Start(k) + Len(nodes[k])
           T == {n \in Nat : n <= Len(nodes) /\ p < Start(n + 1) =>
                               \E k \in 1 .. Len(nodes) : In(k)}
<1> SUFFICES \E k \in 1 .. Len(nodes) : In(k)
  BY DEF NodeAt
<1>1. 0 \in T
  BY StartsAt
<1>2. ASSUME NEW n \in Nat, n \in T PROVE n + 1 \in T
  <2> SUFFICES ASSUME n + 1 <= Len(nodes), p < Start(n + 1 + 1)
               PROVE  \E k \in 1 .. Len(nodes) : In(k)
    OBVIOUS
  <2>1. n + 1 \in 1 .. Len(nodes) /\ n <= Len(nodes) /\ n + 1 \in 1 .. Len(nodes) + 1
    BY StartsAt
  <2>2. Start(n + 1 + 1) = Start(n + 1) + Len(nodes[n + 1]) /\ Start(n + 1) \in Nat
    BY <2>1, StartsAt
  <2>3. CASE p < Start(n + 1)
    BY <1>2, <2>1, <2>3
  <2>4. CASE ~(p < Start(n + 1))
    BY <2>1, <2>2, <2>4
  <2> QED
    BY <2>3, <2>4
<1>3. Nat \subseteq T
  <2> HIDE DEF T
  <2> QED
    BY <1>1, <1>2, SetInduction
<1> QED
  BY <1>3, StartsAt

-----------------------------------------------------------------------------
(* What freebuffer leaves.                                                 *)

\* The invariant, but for the bounds of the types.
BufOK ==
  /\ ListTyped
  /\ offset \in Nat
  /\ size = Total - offset
  /\ offset < (IF nodes = <<>> THEN 1 ELSE Len(nodes[1]))

\* The offset is in the list.
LEMMA OffsetIn ==
  ASSUME BufOK
  PROVE  /\ offset \in 0 .. Total /\ offset \in 0 .. MaxNode - 1 /\ Total \in Nat
         /\ size = Total - offset /\ size \in Nat
         /\ nodes = <<>> => Total = 0
         /\ nodes # <<>> => Len(nodes) \in Nat \ {0} /\ offset < Total
<1>1. MaxNode \in Nat \ {0}
  BY SocketBufferAssumption
<1>2. CASE nodes = <<>>
  <2>1. Len(nodes) = 0
    BY <1>2, EmptySeq
  <2>2. Total = 0
    <3>1. Start(0 + 1) = Total /\ Start(1) = 0
      BY <2>1, StartsAt DEF BufOK
    <3> QED
      BY <3>1
  <2> QED
    BY <1>1, <1>2, <2>2 DEF BufOK
<1>3. CASE nodes # <<>>
  <2>1. Len(nodes) \in Nat \ {0} /\ 1 \in 1 .. Len(nodes) /\ 1 + 1 \in 1 .. Len(nodes) + 1
    BY <1>3, EmptySeq DEF BufOK, ListTyped
  <2>2. /\ Start(1) = 0 /\ Start(1 + 1) = Start(1) + Len(nodes[1])
        /\ Len(nodes[1]) \in 1 .. MaxNode /\ Start(1 + 1) \in 0 .. Total /\ Total \in Nat
    BY <2>1, StartsAt DEF BufOK
  <2> QED
    BY <1>1, <1>3, <2>1, <2>2 DEF BufOK
<1> QED
  BY <1>2, <1>3

\* The first j nodes go, and a bytes of the next.
LEMMA DropIs ==
  ASSUME ListTyped, NEW j \in Nat, j <= Len(nodes), NEW a \in Nat,
         nodes' = SubSeq(nodes, j + 1, Len(nodes)), offset' = a,
         a <= Total - Start(j + 1)
  PROVE  /\ ListTyped' /\ Total' = Total - Start(j + 1)
         /\ Content' = SubSeq(All, Start(j + 1) + a + 1, Total)
<1>1. /\ nodes' \in Seq(Blocks)
      /\ Upto(nodes, j) \in Seq(Bytes) /\ All' \in Seq(Bytes)
      /\ All = Upto(nodes, j) \o All'
  BY UptoIs DEF ListTyped, All
<1>2. Start(j + 1) = Len(Upto(nodes, j))
  <2>1. (j + 1) - 1 = j
    OBVIOUS
  <2> QED
    BY <2>1, StartIs
<1> DEFINE u == Upto(nodes, j)
           v == All'
<1>3. u \in Seq(Bytes) /\ v \in Seq(Bytes) /\ All = u \o v /\ Start(j + 1) = Len(u)
  BY <1>1, <1>2
<1>4. Total' = Len(v) /\ Content' = SubSeq(v, a + 1, Len(v))
  BY DEF Total, Content
<1> HIDE DEF u, v
<1>5. Total = Len(u) + Len(v) /\ Len(u) \in Nat /\ Len(v) \in Nat
  BY <1>3, ConcatProperties, LenProperties DEF Total
<1>6. SubSeq(v, a + 1, Len(v)) = SubSeq(u \o v, Len(u) + a + 1, Len(u) + Len(v))
  <2>1. a <= Len(v)
    BY <1>3, <1>5
  <2> QED
    BY <1>3, <2>1, PartBehind
<1>7. Total' = Total - Start(j + 1)
  BY <1>3, <1>4, <1>5
<1>8. SubSeq(u \o v, Len(u) + a + 1, Len(u) + Len(v)) = SubSeq(All, Start(j + 1) + a + 1, Total)
  BY <1>3, <1>5, Zenon
<1> QED
  BY <1>1, <1>4, <1>6, <1>7, <1>8 DEF ListTyped

\* What is freed ends at place e.
Cut(e) ==
  /\ BufOK'
  /\ size' = Total - e
  /\ Content' = SubSeq(All, e + 1, Total)

\* Its parts, with e a name of its own.
LEMMA CutIs ==
  ASSUME NEW e, ListTyped', offset' \in Nat, size' = Total - e, Total - e = Total' - offset',
         offset' < (IF nodes' = <<>> THEN 1 ELSE Len(nodes'[1])),
         Content' = SubSeq(All, e + 1, Total)
  PROVE  Cut(e)
BY DEF Cut, BufOK

\* freebuffer frees what is before its place, inside a block or at the end
\* of one, and keeps size and offset right.
LEMMA FreeCuts ==
  ASSUME BufOK, NEW k \in 1 .. Len(nodes), NEW end \in 1 .. Len(nodes[k]), FreeBuffer(k, end)
  PROVE  Cut(Start(k) + end) /\ Start(k) + end \in 0 .. Total
<1>1. ListTyped
  BY DEF BufOK
<1>2. /\ Len(nodes) \in Nat /\ k \in Nat /\ k - 1 \in Nat /\ k - 1 <= Len(nodes) /\ (k - 1) + 1 = k
      /\ k <= Len(nodes) /\ k + 1 \in 1 .. Len(nodes) + 1 /\ k \in 1 .. Len(nodes) + 1
  BY <1>1, StartsAt
<1>3. /\ Start(k + 1) = Start(k) + Len(nodes[k]) /\ Len(nodes[k]) \in Nat \ {0}
      /\ Start(k) \in Nat /\ Start(k + 1) \in 0 .. Total /\ Total \in Nat
  BY <1>1, <1>2, StartsAt
<1>4. end \in Nat /\ end > 0 /\ end <= Len(nodes[k]) /\ Start(k) + end \in 0 .. Total
  BY <1>3
<1>5. size = Total - offset /\ offset \in Nat
  BY DEF BufOK
<1>6. size' = Total - (Start(k) + end)
  BY <1>3, <1>4, <1>5 DEF FreeBuffer
<1>9. PICK e \in 0 .. Total : e = Start(k) + end
  BY <1>4
<1> SUFFICES Cut(e)
  BY <1>4, <1>9
<1>7. CASE Len(nodes[k]) = end
  <2>1. nodes' = SubSeq(nodes, k + 1, Len(nodes)) /\ offset' = 0
    BY <1>7 DEF FreeBuffer
  <2>2. 0 <= Total - Start(k + 1)
    BY <1>3
  <2>3. /\ ListTyped' /\ Total' = Total - Start(k + 1)
        /\ Content' = SubSeq(All, Start(k + 1) + 0 + 1, Total)
    BY <1>1, <1>2, <2>1, <2>2, DropIs
  <2>6. Start(k + 1) + 0 + 1 = e + 1 /\ Start(k + 1) = e
    BY <1>3, <1>7, <1>9
  <2>4. Content' = SubSeq(All, e + 1, Total) /\ Total' = Total - e
    BY <2>3, <2>6, Zenon
  <2>5. 0 < (IF nodes' = <<>> THEN 1 ELSE Len(nodes'[1]))
    <3>1. CASE nodes' = <<>>
      BY <3>1
    <3>2. CASE nodes' # <<>>
      <4>1. Len(nodes') \in Nat \ {0}
        BY <2>3, <3>2, EmptySeq DEF ListTyped
      <4>2. nodes'[1] \in Blocks
        BY <2>3, <4>1, ElementOfSeq DEF ListTyped
      <4>3. Len(nodes'[1]) \in 1 .. MaxNode /\ MaxNode \in Nat
        BY <4>2, BlockIs, SocketBufferAssumption
      <4> QED
        BY <3>2, <4>3
    <3> QED
      BY <3>1, <3>2
  <2> QED
    <3>1. offset' \in Nat /\ offset' < (IF nodes' = <<>> THEN 1 ELSE Len(nodes'[1]))
      BY <2>1, <2>5
    <3>2. size' = Total - e /\ Total - e = Total' - offset'
      BY <1>3, <1>6, <1>9, <2>1, <2>4
    <3> QED
      BY <2>3, <2>4, <3>1, <3>2, CutIs
<1>8. CASE Len(nodes[k]) # end
  <2>1. nodes' = SubSeq(nodes, k, Len(nodes)) /\ offset' = end
    BY <1>8 DEF FreeBuffer
  <2>2. PICK j \in Nat : j + 1 = k /\ j <= Len(nodes)
    BY <1>2
  <2>3. end <= Total - Start(j + 1)
    BY <1>3, <1>4, <2>2
  <2>4. nodes' = SubSeq(nodes, j + 1, Len(nodes))
    BY <2>1, <2>2
  <2>5. /\ ListTyped' /\ Total' = Total - Start(j + 1)
        /\ Content' = SubSeq(All, Start(j + 1) + end + 1, Total)
    BY <1>1, <1>4, <2>1, <2>2, <2>3, <2>4, DropIs
  <2>8. Start(j + 1) + end + 1 = e + 1 /\ Start(j + 1) = Start(k)
    BY <1>3, <1>4, <1>9, <2>2
  <2>6. ListTyped' /\ Total' = Total - Start(k) /\ Content' = SubSeq(All, e + 1, Total)
    BY <2>5, <2>8, Zenon
  <2>7. nodes' # <<>> /\ nodes'[1] = nodes[k]
    <3>1. Len(nodes) \in k .. Len(nodes) /\ nodes \in Seq(Blocks)
      BY <1>1, <1>2 DEF ListTyped
    <3>2. \A i \in k .. Len(nodes) : nodes[i] \in Blocks
      BY <1>2, <3>1, ElementOfSeq
    <3>3. /\ Len(SubSeq(nodes, k, Len(nodes))) = IF k <= Len(nodes) THEN Len(nodes) - k + 1 ELSE 0
          /\ \A i \in 1 .. Len(nodes) - k + 1 : SubSeq(nodes, k, Len(nodes))[i] = nodes[k + i - 1]
      BY <1>2, <3>2, SubSeqProperties
    <3>4. Len(nodes') # 0
      BY <1>2, <2>1, <3>3
    <3>5. 1 \in 1 .. Len(nodes) - k + 1 /\ k + 1 - 1 = k
      BY <1>2
    <3>6. nodes'[1] = nodes[k]
      BY <2>1, <3>3, <3>5
    <3> QED
      BY <3>4, <3>6, EmptySeq
  <2> QED
    <3>1. offset' \in Nat /\ offset' < (IF nodes' = <<>> THEN 1 ELSE Len(nodes'[1]))
      BY <1>3, <1>4, <1>8, <2>1, <2>7
    <3>2. size' = Total - e
      BY <1>6, <1>9
    <3>3. Total - e = Total' - offset'
      <4>1. PICK t \in Nat, u \in Nat : t = Total /\ u = Start(k)
        BY <1>3
      <4>2. e = u + end /\ Total' = t - u /\ offset' = end
        BY <1>9, <2>1, <2>6, <4>1
      <4> QED
        BY <1>4, <4>1, <4>2
    <3> QED
      BY <2>6, <3>1, <3>2, <3>3, CutIs
<1> QED
  BY <1>7, <1>8

-----------------------------------------------------------------------------
(* checksep: its recursion ends, since a comparison takes a byte at least. *)

\* A function on lo .. hi that refers to itself further on only.
Recurs(f, m, hi, stop, val, nxt) ==
  f = [q \in m .. hi |-> IF q \in stop THEN val[q] ELSE f[nxt[q]]]

\* There is such a function: it is extended downwards from hi.
LEMMA RecursExists ==
  ASSUME NEW lo \in Nat, NEW hi \in Int, lo <= hi + 1, NEW stop, NEW val, NEW nxt,
         \A q \in lo .. hi : q \notin stop => nxt[q] \in q + 1 .. hi
  PROVE  \E f : Recurs(f, lo, hi, stop, val, nxt)
<1> DEFINE P(m) == \E f : Recurs(f, m, hi, stop, val, nxt)
           T == {d \in Nat : d <= hi + 1 - lo => P(hi + 1 - d)}
<1>1. 0 \in T
  <2>1. Recurs([q \in hi + 1 .. hi |-> 0], hi + 1, hi, stop, val, nxt)
    BY DEF Recurs
  <2>2. hi + 1 - 0 = hi + 1
    OBVIOUS
  <2> QED
    BY <2>1, <2>2
<1>2. ASSUME NEW d \in Nat, d \in T PROVE d + 1 \in T
  <2> SUFFICES ASSUME d + 1 <= hi + 1 - lo PROVE P(hi + 1 - (d + 1))
    OBVIOUS
  <2>1. PICK m \in Int : m = hi + 1 - d
    OBVIOUS
  <2>2. hi + 1 - (d + 1) = m - 1 /\ m - 1 \in Int /\ lo <= m - 1 /\ m - 1 <= hi
    BY <2>1
  <2>3. PICK f : Recurs(f, m, hi, stop, val, nxt)
    BY <1>2, <2>1
  <2> DEFINE g == [q \in m - 1 .. hi |->
                     IF q = m - 1 THEN (IF q \in stop THEN val[q] ELSE f[nxt[q]]) ELSE f[q]]
  <2>4. ASSUME NEW q \in m - 1 .. hi
        PROVE  g[q] = IF q \in stop THEN val[q] ELSE g[nxt[q]]
    <3>1. q \in lo .. hi /\ q \in Int
      BY <2>2
    <3>2. q \notin stop => nxt[q] \in q + 1 .. hi
      BY <3>1
    <3>3. q \notin stop => nxt[q] \in m .. hi
      BY <2>2, <3>1, <3>2
    <3>4. \A r \in m .. hi : g[r] = f[r]
      BY <2>2
    <3>5. CASE q = m - 1
      BY <3>3, <3>4, <3>5
    <3>6. CASE q # m - 1
      <4>1. q \in m .. hi
        BY <2>1, <3>1, <3>6
      <4>2. f[q] = IF q \in stop THEN val[q] ELSE f[nxt[q]]
        BY <2>3, <4>1 DEF Recurs
      <4> QED
        BY <3>3, <3>4, <4>1, <4>2
    <3> QED
      BY <3>5, <3>6
  <2>5. g = [q \in m - 1 .. hi |-> g[q]]
    OBVIOUS
  <2> HIDE DEF g
  <2>6. Recurs(g, m - 1, hi, stop, val, nxt)
    BY <2>4, <2>5 DEF Recurs
  <2> QED
    BY <2>2, <2>6
<1>3. Nat \subseteq T
  <2> HIDE DEF T
  <2> QED
    BY <1>1, <1>2, SetInduction
<1>4. PICK d \in Nat : d = hi + 1 - lo
  OBVIOUS
<1>5. hi + 1 - d = lo /\ d <= hi + 1 - lo
  BY <1>4
<1>7. d \in T
  <2> HIDE DEF T
  <2> QED
    BY <1>3
<1>6. P(hi + 1 - d)
  BY <1>5, <1>7
<1> QED
  BY <1>5, <1>6

Memory(sep, beyond) == sep \o <<NUL>> \o beyond

\* How much is compared at place q.
Compared(q, l) ==
  LET left == Start(NodeAt(q) + 1) - q IN IF left > l THEN l ELSE left

Differs(n, q, sz, sep, beyond) ==
  SubSeq(All, q + 1, q + sz) # SubSeq(Memory(sep, beyond), n + 1, n + sz)

\* One iteration of checksep.
Compares(f, p, q, sz, sep, beyond) ==
  IF Differs(q - p, q, sz, sep, beyond) THEN -1
  ELSE IF q - p + sz >= Len(sep) THEN q + sz
  ELSE IF q + sz = Total THEN -1
  ELSE f[q + sz]

Matches(f, p, sep, beyond) ==
  f = [q \in p .. Total - 1 |-> Compares(f, p, q, Compared(q, Len(sep)), sep, beyond)]

\* A comparison takes a byte at least and stays in its node.
LEMMA ComparedIs ==
  ASSUME ListTyped, NEW q \in Nat, q < Total, NEW l \in Nat \ {0}
  PROVE  /\ Compared(q, l) \in 1 .. l /\ q + Compared(q, l) <= Total
         /\ q + l <= Start(NodeAt(q) + 1) => Compared(q, l) = l
<1>1. /\ NodeAt(q) \in 1 .. Len(nodes)
      /\ Start(NodeAt(q)) <= q /\ q < Start(NodeAt(q)) + Len(nodes[NodeAt(q)])
  BY NodeAtHolds
<1>2. NodeAt(q) + 1 \in 1 .. Len(nodes) + 1 /\ Total \in Nat
  BY <1>1, StartsAt
<1>3. /\ Start(NodeAt(q) + 1) = Start(NodeAt(q)) + Len(nodes[NodeAt(q)])
      /\ Start(NodeAt(q) + 1) \in 0 .. Total
  BY <1>1, <1>2, StartsAt
<1> DEFINE left == Start(NodeAt(q) + 1) - q
<1>4. left \in Nat \ {0} /\ q + left <= Total /\ left = Start(NodeAt(q) + 1) - q
  BY <1>1, <1>2, <1>3
<1>5. Start(NodeAt(q) + 1) \in Nat
  BY <1>2, <1>3
<1>6. Compared(q, l) = IF left > l THEN l ELSE left
  BY DEF Compared
<1> HIDE DEF left
<1> QED
  BY <1>2, <1>4, <1>5, <1>6

\* The function that checksep computes.
LEMMA MatchExists ==
  ASSUME ListTyped, NEW p \in Nat, p < Total, NEW sep, Len(sep) \in Nat \ {0}, NEW beyond
  PROVE  \E f : Matches(f, p, sep, beyond)
<1> DEFINE sz(q) == Compared(q, Len(sep))
           bad(q) == Differs(q - p, q, sz(q), sep, beyond)
           over(q) == q - p + sz(q) >= Len(sep)
           stop == {q \in p .. Total - 1 : bad(q) \/ over(q) \/ q + sz(q) = Total}
           val == [q \in p .. Total - 1 |-> IF bad(q) \/ ~over(q) THEN -1 ELSE q + sz(q)]
           nxt == [q \in p .. Total - 1 |-> q + sz(q)]
<1>1. Total \in Nat /\ Total - 1 \in Int /\ p <= Total - 1 + 1
  BY StartsAt
<1>2. ASSUME NEW q \in p .. Total - 1, q \notin stop PROVE nxt[q] \in q + 1 .. Total - 1
  <2>1. q \in Nat /\ q < Total
    BY <1>1
  <2>2. sz(q) \in 1 .. Len(sep) /\ q + sz(q) <= Total
    BY <2>1, ComparedIs
  <2>3. q + sz(q) # Total /\ nxt[q] = q + sz(q)
    BY <1>2
  <2> HIDE DEF sz, nxt, stop
  <2> QED
    BY <1>1, <2>1, <2>2, <2>3
<1>3. PICK f : Recurs(f, p, Total - 1, stop, val, nxt)
  <2> HIDE DEF stop, val, nxt
  <2> QED
    BY <1>1, <1>2, RecursExists
<1>4. ASSUME NEW q \in p .. Total - 1
      PROVE  (IF q \in stop THEN val[q] ELSE f[nxt[q]]) = Compares(f, p, q, sz(q), sep, beyond)
  <2>1. /\ q \in stop <=> bad(q) \/ over(q) \/ q + sz(q) = Total
        /\ val[q] = IF bad(q) \/ ~over(q) THEN -1 ELSE q + sz(q)
        /\ nxt[q] = q + sz(q)
    OBVIOUS
  <2>2. Compares(f, p, q, sz(q), sep, beyond)
          = IF bad(q) THEN -1 ELSE IF over(q) THEN q + sz(q)
            ELSE IF q + sz(q) = Total THEN -1 ELSE f[q + sz(q)]
    BY DEF Compares
  <2> HIDE DEF stop, val, nxt, bad, over, sz
  <2> QED
    BY <2>1, <2>2
<1>5. f = [q \in p .. Total - 1 |-> IF q \in stop THEN val[q] ELSE f[nxt[q]]]
  BY <1>3 DEF Recurs
<1>6. f = [q \in p .. Total - 1 |-> Compares(f, p, q, sz(q), sep, beyond)]
  <2> HIDE DEF stop, val, nxt, bad, over, sz
  <2> QED
    BY <1>4, <1>5
<1> QED
  BY <1>6 DEF Matches

\* checksep returns what an iteration at its first place returns.
LEMMA CheckSepIs ==
  ASSUME ListTyped, NEW p \in Nat, p < Total, NEW sep, Len(sep) \in Nat \ {0}, NEW beyond
  PROVE  \E f : /\ CheckSep(p, sep, beyond) = f[p]
                /\ \A q \in p .. Total - 1 :
                     f[q] = Compares(f, p, q, Compared(q, Len(sep)), sep, beyond)
<1> DEFINE f == CHOOSE g : Matches(g, p, sep, beyond)
<1>1. Matches(f, p, sep, beyond)
  BY MatchExists
<1>2. CheckSep(p, sep, beyond) = f[p]
  BY DEF CheckSep, Matches, Compares, Compared, Differs, Memory
<1> HIDE DEF f
<1>3. \A q \in p .. Total - 1 : f[q] = Compares(f, p, q, Compared(q, Len(sep)), sep, beyond)
  BY <1>1 DEF Matches
<1> QED
  BY <1>2, <1>3

\* A separator that is found ends behind its place, in the list.
LEMMA SepEnds ==
  ASSUME ListTyped, NEW p \in Nat, p < Total, NEW sep, Len(sep) \in Nat \ {0}, NEW beyond,
         CheckSep(p, sep, beyond) # -1
  PROVE  CheckSep(p, sep, beyond) \in p + 1 .. Total
<1>1. Total \in Nat
  BY StartsAt
<1>2. PICK f : /\ CheckSep(p, sep, beyond) = f[p]
               /\ \A q \in p .. Total - 1 :
                    f[q] = Compares(f, p, q, Compared(q, Len(sep)), sep, beyond)
  BY CheckSepIs
<1> DEFINE T == {d \in Nat : \A q \in p .. Total - 1 :
                               Total - q <= d /\ f[q] # -1 => f[q] \in q + 1 .. Total}
<1>3. 0 \in T
  BY <1>1
<1>4. ASSUME NEW d \in Nat, d \in T PROVE d + 1 \in T
  <2> SUFFICES ASSUME NEW q \in p .. Total - 1, Total - q <= d + 1, f[q] # -1
               PROVE  f[q] \in q + 1 .. Total
    OBVIOUS
  <2>1. q \in Nat /\ q < Total
    BY <1>1
  <2>2. PICK sz : sz = Compared(q, Len(sep))
    OBVIOUS
  <2>3. sz \in Nat /\ sz >= 1 /\ q + sz <= Total
    BY <2>1, <2>2, ComparedIs
  <2>4. f[q] = q + sz \/ (q + sz # Total /\ f[q] = f[q + sz])
    BY <1>2, <2>2 DEF Compares
  <2>5. CASE f[q] = q + sz
    BY <1>1, <2>1, <2>3, <2>5
  <2>6. CASE q + sz # Total /\ f[q] = f[q + sz]
    <3>1. q + sz \in p .. Total - 1 /\ Total - (q + sz) <= d
      BY <1>1, <2>1, <2>3, <2>6
    <3>2. f[q + sz] \in (q + sz) + 1 .. Total
      BY <1>4, <2>6, <3>1
    <3> QED
      BY <1>1, <2>1, <2>3, <2>6, <3>2
  <2> QED
    BY <2>4, <2>5, <2>6
<1>5. Nat \subseteq T
  <2> HIDE DEF T
  <2> QED
    BY <1>3, <1>4, SetInduction
<1>6. Total - p \in T /\ p \in p .. Total - 1
  <2> HIDE DEF T
  <2> QED
    BY <1>1, <1>5
<1> QED
  BY <1>1, <1>2, <1>6

\* What memcmp reads: the separator, its NUL, and what is behind.
LEMMA MemoryIs ==
  ASSUME NEW sep \in Seq(Bytes), Len(sep) \in Nat \ {0},
         NEW beyond \in [1 .. Len(sep) - 2 -> Bytes]
  PROVE  /\ Memory(sep, beyond) \in Seq(Bytes \cup {NUL})
         /\ Len(Memory(sep, beyond)) \in Nat
         /\ Len(Memory(sep, beyond)) >= Len(sep) + 1
         /\ Len(Memory(sep, beyond)) >= 2 * Len(sep) - 1
         /\ \A i \in 1 .. Len(sep) : Memory(sep, beyond)[i] = sep[i]
         /\ Memory(sep, beyond)[Len(sep) + 1] = NUL
<1> DEFINE B == Bytes \cup {NUL}
<1>1. PICK l \in Nat \ {0} : l = Len(sep)
  OBVIOUS
<1>2. sep \in Seq(B) /\ <<NUL>> \in Seq(B) /\ Len(<<NUL>>) = 1 /\ <<NUL>>[1] = NUL
  <2>1. Bytes \subseteq B
    OBVIOUS
  <2>2. sep \in Seq(B)
    BY <2>1, SeqMonotonic
  <2>3. <<NUL>> \in Seq(B) /\ Len(<<NUL>>) = 1 /\ <<NUL>>[1] = NUL
    OBVIOUS
  <2> QED
    BY <2>2, <2>3
<1>3. beyond \in Seq(B) /\ Len(beyond) \in Nat /\ Len(beyond) >= l - 2
  <2>1. CASE l >= 2
    <3>1. l - 2 \in Nat /\ beyond \in [1 .. l - 2 -> B]
      BY <1>1, <2>1
    <3> QED
      BY <3>1
  <2>2. CASE l < 2
    <3>1. 1 .. Len(sep) - 2 = 1 .. 0
      BY <1>1, <2>2
    <3>2. beyond \in [1 .. 0 -> B]
      BY <3>1
    <3> QED
      BY <1>1, <2>2, <3>2
  <2> QED
    BY <2>1, <2>2
<1>4. PICK m \in Seq(B) : m = sep \o <<NUL>>
  BY <1>2, ConcatProperties
<1>5. Len(m) = l + 1 /\ \A i \in 1 .. l + 1 : m[i] = IF i <= l THEN sep[i] ELSE <<NUL>>[i - l]
  <2>1. /\ Len(sep \o <<NUL>>) = Len(sep) + Len(<<NUL>>)
        /\ \A i \in 1 .. Len(sep) + Len(<<NUL>>) :
             (sep \o <<NUL>>)[i] = IF i <= Len(sep) THEN sep[i] ELSE <<NUL>>[i - Len(sep)]
    BY <1>2, ConcatProperties
  <2> QED
    BY <1>1, <1>2, <1>4, <2>1
<1>6. (\A i \in 1 .. l : m[i] = sep[i]) /\ m[l + 1] = NUL
  <2>1. \A i \in 1 .. l : i \in 1 .. l + 1 /\ i <= l
    OBVIOUS
  <2>2. l + 1 \in 1 .. l + 1 /\ ~(l + 1 <= l) /\ l + 1 - l = 1
    OBVIOUS
  <2> QED
    BY <1>2, <1>5, <2>1, <2>2
<1>7. Memory(sep, beyond) = m \o beyond
  BY <1>4 DEF Memory
<1>8. /\ m \o beyond \in Seq(B) /\ Len(m \o beyond) = (l + 1) + Len(beyond)
      /\ \A i \in 1 .. (l + 1) + Len(beyond) :
           (m \o beyond)[i] = IF i <= l + 1 THEN m[i] ELSE beyond[i - (l + 1)]
  <2> HIDE DEF B
  <2>1. /\ m \o beyond \in Seq(B) /\ Len(m \o beyond) = Len(m) + Len(beyond)
        /\ \A i \in 1 .. Len(m) + Len(beyond) :
             (m \o beyond)[i] = IF i <= Len(m) THEN m[i] ELSE beyond[i - Len(m)]
    BY <1>3, ConcatProperties
  <2>2. Len(m) = l + 1
    BY <1>5
  <2> QED
    BY <2>1, <2>2, Zenon
<1>9. \A i \in 1 .. l + 1 : i \in 1 .. (l + 1) + Len(beyond) /\ i <= l + 1
  BY <1>3
<1>10. \A i \in 1 .. l + 1 : (m \o beyond)[i] = m[i]
  BY <1>8, <1>9
<1>11. (\A i \in 1 .. l : i \in 1 .. l + 1) /\ l + 1 \in 1 .. l + 1
  OBVIOUS
<1>12. Len(m \o beyond) \in Nat /\ Len(m \o beyond) >= l + 1 /\ Len(m \o beyond) >= 2 * l - 1
  BY <1>3, <1>8
<1> QED
  BY <1>1, <1>6, <1>7, <1>8, <1>10, <1>11, <1>12

\* A comparison that succeeds, byte by byte.
LEMMA AgreeIs ==
  ASSUME ListTyped, NEW sep \in Seq(Bytes), Len(sep) \in Nat \ {0},
         NEW beyond \in [1 .. Len(sep) - 2 -> Bytes],
         NEW n \in Nat, n < Len(sep), NEW q \in Nat, NEW sz \in 1 .. Len(sep), q + sz <= Total
  PROVE  Differs(n, q, sz, sep, beyond) <=>
           ~ \A j \in 1 .. sz : All[q + j] = Memory(sep, beyond)[n + j]
<1> DEFINE B == Bytes \cup {NUL}
<1>1. PICK mem \in Seq(B) : mem = Memory(sep, beyond)
  BY MemoryIs
<1>2. Len(mem) \in Nat /\ Len(mem) >= 2 * Len(sep) - 1
  BY <1>1, MemoryIs
<1>3. All \in Seq(B) /\ Len(All) = Total /\ Total \in Nat
  <2>1. All \in Seq(Bytes) /\ Total \in Nat
    BY StartsAt
  <2>2. Bytes \subseteq B
    OBVIOUS
  <2> QED
    BY <2>1, <2>2, SeqMonotonic DEF Total
<1>4. PICK b \in Nat, c \in Nat : b = q + sz /\ c = n + sz
  OBVIOUS
<1>5. q <= b /\ b <= Len(All) /\ b - q = sz /\ n <= c /\ c <= Len(mem) /\ c - n = sz
  BY <1>2, <1>3, <1>4
<1> DEFINE x == SubSeq(All, q + 1, b)
           y == SubSeq(mem, n + 1, c)
<1>6. x \in Seq(B) /\ Len(x) = sz /\ \A j \in 1 .. sz : x[j] = All[q + j]
  BY <1>3, <1>5, PartIs
<1>7. y \in Seq(B) /\ Len(y) = sz /\ \A j \in 1 .. sz : y[j] = mem[n + j]
  BY <1>5, PartIs
<1>8. Differs(n, q, sz, sep, beyond) <=> x # y
  BY <1>1, <1>4 DEF Differs
<1> HIDE DEF x, y
<1>9. x = y <=> \A j \in 1 .. sz : x[j] = y[j]
  BY <1>6, <1>7, SeqEqual
<1>10. (\A j \in 1 .. sz : x[j] = y[j]) <=> \A j \in 1 .. sz : All[q + j] = mem[n + j]
  BY <1>6, <1>7
<1> QED
  BY <1>1, <1>8, <1>9, <1>10

\* Nothing in the data can be taken for what is behind the separator: there
\* are no zero bytes, or checksep looks at one byte only.
Exact(sep) == NUL \notin Bytes \/ Len(sep) = 1

\* Then what checksep finds is the separator.
LEMMA SepMatches ==
  ASSUME ListTyped, NEW p \in Nat, p < Total,
         NEW sep \in Seq(Bytes), Len(sep) \in Nat \ {0}, Exact(sep),
         NEW beyond \in [1 .. Len(sep) - 2 -> Bytes],
         CheckSep(p, sep, beyond) # -1
  PROVE  /\ CheckSep(p, sep, beyond) = p + Len(sep)
         /\ \A i \in 1 .. Len(sep) : All[p + i] = sep[i]
<1>1. Total \in Nat /\ \A i \in 1 .. Total : All[i] \in Bytes
  BY StartsAt, ElementOfSeq DEF Total
<1>2. PICK f : /\ CheckSep(p, sep, beyond) = f[p]
               /\ \A q \in p .. Total - 1 :
                    f[q] = Compares(f, p, q, Compared(q, Len(sep)), sep, beyond)
  BY CheckSepIs
<1>3. PICK l \in Nat \ {0} : l = Len(sep)
  OBVIOUS
<1>4. PICK mem : mem = Memory(sep, beyond)
  OBVIOUS
<1>5. (\A i \in 1 .. l : mem[i] = sep[i]) /\ mem[l + 1] = NUL
  BY <1>3, <1>4, MemoryIs
<1> DEFINE Same(n) == \A i \in 1 .. n : All[p + i] = sep[i]
           T == {d \in Nat : \A q \in p .. Total - 1 :
                   Total - q <= d /\ q - p < l /\ Same(q - p) /\ f[q] # -1 =>
                     f[q] = p + l /\ Same(l)}
<1>6. 0 \in T
  BY <1>1
<1>7. ASSUME NEW d \in Nat, d \in T PROVE d + 1 \in T
  <2> SUFFICES ASSUME NEW q \in p .. Total - 1, Total - q <= d + 1, q - p < l, Same(q - p), f[q] # -1
               PROVE  f[q] = p + l /\ Same(l)
    OBVIOUS
  <2>1. q \in Nat /\ q < Total
    BY <1>1
  <2>2. PICK sz : sz = Compared(q, l)
    OBVIOUS
  <2>3. sz \in 1 .. l /\ q + sz <= Total
    BY <2>1, <2>2, ComparedIs
  <2>4. PICK n \in Nat : n = q - p /\ n < l /\ q = p + n
    BY <2>1
  <2>5. /\ ~Differs(n, q, sz, sep, beyond)
        /\ \/ n + sz >= l /\ f[q] = q + sz
           \/ n + sz < l /\ q + sz # Total /\ f[q] = f[q + sz]
    BY <1>2, <1>3, <2>2, <2>3, <2>4 DEF Compares
  <2>6. \A j \in 1 .. sz : All[q + j] = mem[n + j]
    BY <1>3, <1>4, <2>1, <2>3, <2>4, <2>5, AgreeIs
  <2>7. n + sz <= l
    <3> SUFFICES ASSUME n + sz > l PROVE FALSE
      BY <2>3
    <3>4. NUL \notin Bytes
      <4>1. l # 1
        BY <2>3, <2>4
      <4> QED
        BY <1>3, <4>1 DEF Exact
    <3>1. PICK j \in 1 .. sz : n + j = l + 1
      <4>1. l + 1 - n \in 1 .. sz /\ n + (l + 1 - n) = l + 1
        BY <2>3, <2>4
      <4> QED
        BY <4>1
    <3>2. All[q + j] = NUL
      BY <1>5, <2>6, <3>1
    <3>3. q + j \in 1 .. Total
      BY <1>1, <2>1, <2>3
    <3> QED
      BY <1>1, <3>2, <3>3, <3>4
  <2>8. Same(n + sz)
    <3> SUFFICES ASSUME NEW i \in 1 .. n + sz PROVE All[p + i] = sep[i]
      OBVIOUS
    <3>1. i \in Nat /\ sz \in Nat
      BY <2>3
    <3>2. CASE i <= n
      BY <2>4, <3>1, <3>2
    <3>3. CASE i > n
      <4>1. PICK j \in 1 .. sz : i = n + j
        <5>1. i - n \in 1 .. sz /\ i = n + (i - n)
          BY <2>3, <3>1, <3>3
        <5> QED
          BY <5>1
      <4>2. q + j = p + i /\ i \in 1 .. l
        BY <2>3, <2>4, <2>7, <3>1, <4>1
      <4> QED
        BY <1>5, <2>6, <4>1, <4>2
    <3> QED
      BY <3>1, <3>2, <3>3
  <2> HIDE DEF Same
  <2>9. CASE n + sz >= l /\ f[q] = q + sz
    <3>1. n + sz = l /\ q + sz = p + l
      BY <2>3, <2>4, <2>7, <2>9
    <3> QED
      BY <2>8, <2>9, <3>1
  <2>10. CASE n + sz < l /\ q + sz # Total /\ f[q] = f[q + sz]
    <3>1. PICK r \in p .. Total - 1 : r = q + sz
      BY <1>1, <2>1, <2>3, <2>4, <2>10
    <3>2. Total - r <= d /\ r - p < l /\ r - p = n + sz /\ f[r] # -1 /\ f[q] = f[r]
      BY <1>1, <2>1, <2>3, <2>4, <2>10, <3>1
    <3>3. f[r] = p + l /\ Same(l)
      BY <1>7, <2>8, <3>2
    <3> QED
      BY <3>2, <3>3
  <2> QED
    BY <2>5, <2>9, <2>10
<1>8. Nat \subseteq T
  <2> HIDE DEF T
  <2> QED
    BY <1>6, <1>7, SetInduction
<1>9. Total - p \in T /\ p \in p .. Total - 1
  <2> HIDE DEF T
  <2> QED
    BY <1>1, <1>8
<1>10. p - p = 0 /\ Same(0) /\ 0 < l
  OBVIOUS
<1> QED
  BY <1>1, <1>2, <1>3, <1>9, <1>10

\* A separator within one node is found.
LEMMA SepFound ==
  ASSUME ListTyped, NEW p \in Nat, p < Total,
         NEW sep \in Seq(Bytes), Len(sep) \in Nat \ {0},
         NEW beyond \in [1 .. Len(sep) - 2 -> Bytes],
         Unsplit(sep, p)
  PROVE  CheckSep(p, sep, beyond) # -1
<1>1. Total \in Nat /\ All \in Seq(Bytes) /\ Len(All) = Total
  BY StartsAt DEF Total
<1>2. PICK f : /\ CheckSep(p, sep, beyond) = f[p]
               /\ \A q \in p .. Total - 1 :
                    f[q] = Compares(f, p, q, Compared(q, Len(sep)), sep, beyond)
  BY CheckSepIs
<1>3. PICK l \in Nat \ {0} : l = Len(sep)
  OBVIOUS
<1>4. p + l <= Total /\ SubSeq(All, p + 1, p + l) = sep /\ NodeAt(p) = NodeAt(p + l - 1)
  BY <1>3 DEF Unsplit, Occurs
<1>5. PICK z \in Nat : z = p + l - 1 /\ z < Total /\ z + 1 = p + l
  BY <1>1, <1>4
<1>6. /\ NodeAt(z) \in 1 .. Len(nodes)
      /\ z < Start(NodeAt(z)) + Len(nodes[NodeAt(z)])
  BY <1>5, NodeAtHolds
<1>7. /\ Start(NodeAt(z) + 1) = Start(NodeAt(z)) + Len(nodes[NodeAt(z)])
      /\ Start(NodeAt(z) + 1) \in Nat
  <2>1. NodeAt(z) + 1 \in 1 .. Len(nodes) + 1
    BY <1>6, StartsAt
  <2> QED
    BY <1>1, <1>6, <2>1, StartsAt
<1>8. p + l <= Start(NodeAt(p) + 1)
  <2>1. NodeAt(p) = NodeAt(z)
    BY <1>4, <1>5
  <2>2. p + l <= Start(NodeAt(z) + 1)
    BY <1>5, <1>6, <1>7
  <2> QED
    BY <2>1, <2>2
<1>9. Compared(p, l) = l
  BY <1>8, ComparedIs
<1>10. ~Differs(0, p, l, sep, beyond)
  <2>1. \A j \in 1 .. l : Memory(sep, beyond)[0 + j] = sep[j]
    BY <1>3, MemoryIs
  <2>2. PICK b \in Nat : b = p + l
    OBVIOUS
  <2>3. b - p = l /\ p <= b /\ b <= Len(All)
    BY <1>1, <1>4, <2>2
  <2>4. \A j \in 1 .. b - p : SubSeq(All, p + 1, b)[j] = All[p + j]
    BY <1>1, <2>3, PartIs
  <2>5. \A j \in 1 .. l : sep[j] = All[p + j]
    BY <1>4, <2>2, <2>3, <2>4
  <2>6. \A j \in 1 .. l : All[p + j] = Memory(sep, beyond)[0 + j]
    BY <2>1, <2>5
  <2>7. 0 < Len(sep) /\ l \in 1 .. Len(sep)
    BY <1>3
  <2> QED
    BY <1>4, <2>6, <2>7, AgreeIs
<1>11. p \in p .. Total - 1 /\ p - p = 0
  BY <1>1
<1>12. f[p] = p + l
  BY <1>2, <1>3, <1>9, <1>10, <1>11 DEF Compares
<1> QED
  BY <1>2, <1>12

-----------------------------------------------------------------------------
(* What the pops take.                                                     *)

\* A pop that ends behind the byte at place z.
LEMMA CutBehind ==
  ASSUME BufOK, NEW z \in Nat, z < Total, NEW e, e = z + 1,
         NEW end, end = e - Start(NodeAt(z)), FreeBuffer(NodeAt(z), end)
  PROVE  Cut(e) /\ e \in 1 .. Total
<1>1. ListTyped
  BY DEF BufOK
<1>2. PICK k \in 1 .. Len(nodes) :
        k = NodeAt(z) /\ Start(k) <= z /\ z < Start(k) + Len(nodes[k])
  BY <1>1, NodeAtHolds
<1>3. k \in 1 .. Len(nodes) + 1 /\ Total \in Nat /\ Len(nodes[k]) \in Nat
  BY <1>1, <1>2, StartsAt
<1>4. Start(k) \in Nat
  BY <1>1, <1>3, StartsAt
<1>5. end \in 1 .. Len(nodes[k]) /\ Start(k) + end = e
  BY <1>2, <1>3, <1>4
<1>6. Cut(Start(k) + end)
  BY <1>2, <1>5, FreeCuts
<1> QED
  BY <1>3, <1>5, <1>6

\* The result of a pop, by its last place.
LEMMA PackIs ==
  ASSUME BufOK, NEW k, NEW end, NEW e \in offset .. Total, Start(k) + end = e
  PROVE  /\ PushPack(k, end) = SubSeq(All, offset + 1, e)
         /\ PushPack(k, end) \in Seq(Bytes) /\ Len(PushPack(k, end)) = e - offset
<1>1. All \in Seq(Bytes) /\ Len(All) = Total /\ Total \in Nat /\ offset \in Nat
  BY StartsAt DEF BufOK, Total
<1>2. e \in Nat /\ offset <= e /\ e <= Len(All)
  BY <1>1
<1>3. SubSeq(All, offset + 1, e) \in Seq(Bytes) /\ Len(SubSeq(All, offset + 1, e)) = e - offset
  BY <1>1, <1>2, PartIs
<1>4. PushPack(k, end) = SubSeq(All, offset + 1, e)
  BY DEF PushPack
<1> QED
  BY <1>3, <1>4

\* The bytes up to place p are returned, those up to place e are freed.
Pops(p, e) ==
  /\ p \in offset .. Total /\ e \in p .. Total
  /\ ret' = SubSeq(All, offset + 1, p)
  /\ ret' \in Seq(Bytes) /\ Len(ret') = p - offset
  /\ Cut(e)

\* readn with each outcome.
LEMMA ReadNPops ==
  ASSUME BufOK, NEW n \in Nat, ReadN(n)
  PROVE  \/ n = 0 /\ ret' = <<>> /\ UNCHANGED <<nodes, offset, size>>
         \/ n > 0 /\ size < n /\ Nothing
         \/ n > 0 /\ size >= n /\ Pops(offset + n, offset + n)
<1>1. CASE n > 0 /\ size >= n /\ LET k   == NodeAt(offset + n - 1)
                                     end == offset + n - Start(k)
                                 IN ret' = PushPack(k, end) /\ FreeBuffer(k, end)
  <2>1. offset \in Nat /\ Total \in Nat /\ offset + n <= Total
    BY <1>1, OffsetIn
  <2>2. PICK z \in Nat, e \in Nat :
          z = offset + n - 1 /\ e = offset + n /\ e = z + 1 /\ z < Total
    BY <1>1, <2>1
  <2>3. PICK k : /\ k = NodeAt(z)
                 /\ ret' = PushPack(k, offset + n - Start(k))
                 /\ FreeBuffer(k, offset + n - Start(k))
    <3>1. PICK k : /\ k = NodeAt(offset + n - 1)
                   /\ ret' = PushPack(k, offset + n - Start(k))
                   /\ FreeBuffer(k, offset + n - Start(k))
      BY <1>1, Zenon
    <3> QED
      BY <2>2, <3>1, Zenon
  <2>4. Start(k) \in Nat
    <3>1. ListTyped
      BY DEF BufOK
    <3>2. k \in 1 .. Len(nodes)
      BY <2>2, <2>3, <3>1, NodeAtHolds
    <3>3. k \in 1 .. Len(nodes) + 1
      BY <3>1, <3>2, StartsAt
    <3> QED
      BY <2>1, <3>1, <3>3, StartsAt
  <2>5. PICK end : end = offset + n - Start(k)
    OBVIOUS
  <2>6. end = e - Start(NodeAt(z)) /\ Start(k) + end = e /\ e \in offset .. Total
    BY <2>1, <2>2, <2>3, <2>4, <2>5
  <2>7. ret' = PushPack(k, end) /\ FreeBuffer(NodeAt(z), end)
    BY <2>3, <2>5, Zenon
  <2>8. Cut(e)
    BY <2>2, <2>6, <2>7, CutBehind
  <2>9. Pops(e, e)
    BY <2>1, <2>6, <2>7, <2>8, PackIs DEF Pops
  <2> QED
    BY <1>1, <2>2, <2>9
<1> QED
  BY <1>1 DEF ReadN

\* The last node ends where the list does.
LEMMA LastEnds ==
  ASSUME BufOK, nodes # <<>>
  PROVE  /\ Len(nodes) \in 1 .. Len(nodes) /\ Last(nodes) = nodes[Len(nodes)]
         /\ Len(nodes[Len(nodes)]) \in Nat \ {0}
         /\ Start(Len(nodes)) + Len(nodes[Len(nodes)]) = Total
         /\ offset < Total
<1>1. PICK n \in Nat \ {0} : n = Len(nodes) /\ n \in 1 .. Len(nodes)
  BY OffsetIn
<1>2. Start(n + 1) = Start(n) + Len(nodes[n]) /\ Start(n + 1) = Total /\ Len(nodes[n]) \in 1 .. MaxNode
  BY <1>1, StartsAt DEF BufOK
<1>3. MaxNode \in Nat
  BY SocketBufferAssumption
<1> QED
  BY <1>1, <1>2, <1>3, OffsetIn DEF Last

\* readall with each outcome.
LEMMA ReadAllPops ==
  ASSUME BufOK, ReadAll
  PROVE  \/ nodes = <<>> /\ Nothing
         \/ nodes # <<>> /\ Pops(Total, Total)
<1>1. CASE nodes # <<>>
  <2>1. PICK n \in 1 .. Len(nodes), m \in Nat \ {0} :
          /\ n = Len(nodes) /\ m = Len(Last(nodes)) /\ m = Len(nodes[n])
          /\ Start(n) + m = Total
    BY <1>1, LastEnds
  <2>2. ret' = PushPack(n, m) /\ FreeBuffer(n, m)
    BY <1>1, <2>1 DEF ReadAll
  <2>3. m \in 1 .. Len(nodes[n])
    BY <2>1
  <2>4. Cut(Start(n) + m)
    BY <2>2, <2>3, FreeCuts
  <2>5. Total \in offset .. Total /\ Total \in Total .. Total
    BY OffsetIn
  <2> QED
    BY <1>1, <2>1, <2>2, <2>4, <2>5, PackIs DEF Pops
<1> QED
  BY <1>1 DEF ReadAll

\* ldetach of a single untouched block frees that block.
LEMMA DetachPops ==
  ASSUME BufOK, ~AnyDetach, Detach
  PROVE  \/ size <= 0 /\ Nothing
         \/ size > 0 /\ Pops(Total, Total)
<1>1. CASE size > 0 /\ Len(nodes) = 1 /\ offset = 0 /\ ret' = Content /\ FreeBuffer(Len(nodes), size)
  <2>1. nodes # <<>>
    BY <1>1, EmptySeq
  <2>2. Start(1) + Len(nodes[1]) = Total /\ Len(nodes[1]) \in Nat \ {0} /\ 1 \in 1 .. Len(nodes)
    BY <1>1, <2>1, LastEnds
  <2>3. Start(1) = 0 /\ size = Total /\ Total \in Nat
    BY <1>1, OffsetIn, StartsAt DEF BufOK
  <2>4. PICK m : m = size /\ m = Len(nodes[1]) /\ m = Total /\ m \in Nat \ {0} /\ FreeBuffer(1, m)
    BY <1>1, <2>2, <2>3
  <2>5. m \in 1 .. Len(nodes[1]) /\ Start(1) + m = m
    BY <2>3, <2>4
  <2>6. Cut(Start(1) + m)
    BY <2>2, <2>4, <2>5, FreeCuts
  <2>7. ret' = PushPack(1, m)
    <3>1. ret' = SubSeq(All, offset + 1, Total)
      BY <1>1 DEF Content
    <3> QED
      BY <2>4, <2>5, <3>1 DEF PushPack
  <2>8. m \in offset .. Total /\ m \in m .. Total /\ Start(1) + m = m
    BY <1>1, <2>3, <2>4
  <2>9. Pops(m, m)
    BY <2>5, <2>6, <2>7, <2>8, PackIs DEF Pops
  <2> QED
    BY <1>1, <2>4, <2>9
<1> QED
  BY <1>1 DEF Detach

\* A separator is not empty.
LEMMA SepIs ==
  ASSUME NEW sep \in Seps
  PROVE  sep \in Seq(Bytes) /\ Len(sep) \in Nat \ {0}
<1>1. sep \in Seq(Bytes) /\ sep # <<>>
  BY SocketBufferAssumption
<1> QED
  BY <1>1, EmptySeq, LenProperties

\* Where checksep succeeds.
Found(sep, beyond) == {p \in offset .. Total - 1 : CheckSep(p, sep, beyond) # -1}

\* The pop ends at the first place that checksep accepts, which no separator
\* within one node is before.
PopsAtSep(sep, p, e) ==
  /\ p < e /\ Pops(p, e)
  /\ \A q \in offset .. Total - 1 : Unsplit(sep, q) => p <= q
  /\ Exact(sep) => e = p + Len(sep) /\ \A i \in 1 .. Len(sep) : All[p + i] = sep[i]

\* readsep with each outcome.
LEMMA ReadSepPops ==
  ASSUME BufOK, NEW sep \in Seps, ReadSep(sep)
  PROVE  \/ Nothing /\ \A q \in offset .. Total - 1 : ~Unsplit(sep, q)
         \/ \E p, e : PopsAtSep(sep, p, e)
<1>1. ListTyped /\ offset \in Nat /\ Total \in Nat /\ offset <= Total
  BY OffsetIn DEF BufOK
<1>2. sep \in Seq(Bytes) /\ Len(sep) \in Nat \ {0}
  BY SepIs
<1>3. PICK beyond \in [1 .. Len(sep) - 2 -> Bytes] :
        LET found == Found(sep, beyond)
            first == CHOOSE p \in found : \A q \in found : p <= q
            end   == CheckSep(first, sep, beyond)
            k     == NodeAt(end - 1)
        IN \/ /\ found # {}
              /\ ret' = PushPack(NodeAt(first), first - Start(NodeAt(first)))
              /\ FreeBuffer(k, end - Start(k))
           \/ /\ found = {}
              /\ Nothing
  BY Zenon DEF ReadSep, Found
<1>4. \A q \in offset .. Total - 1 : q \in Nat /\ q < Total
  BY <1>1
<1>5. \A q \in offset .. Total - 1 : Unsplit(sep, q) => q \in Found(sep, beyond)
  BY <1>1, <1>2, <1>4, SepFound DEF Found
<1>6. CASE Found(sep, beyond) = {}
  <2>1. Nothing
    BY <1>3, <1>6, Zenon
  <2> QED
    BY <1>5, <1>6, <2>1
<1>7. CASE Found(sep, beyond) # {}
  <2> DEFINE first == CHOOSE p \in Found(sep, beyond) : \A q \in Found(sep, beyond) : p <= q
  <2>1. PICK p \in Found(sep, beyond) : p = first /\ \A q \in Found(sep, beyond) : p <= q
    <3>1. Found(sep, beyond) \subseteq Nat
      BY <1>4 DEF Found
    <3> QED
      BY <1>7, <3>1, LeastElement
  <2>2. p \in offset .. Total - 1 /\ p \in Nat /\ p < Total /\ CheckSep(p, sep, beyond) # -1
    BY <1>4, <2>1 DEF Found
  <2>3. PICK e : e = CheckSep(p, sep, beyond)
    OBVIOUS
  <2>4. e \in p + 1 .. Total
    BY <1>1, <1>2, <2>2, <2>3, SepEnds
  <2>5. /\ ret' = PushPack(NodeAt(p), p - Start(NodeAt(p)))
        /\ FreeBuffer(NodeAt(e - 1), e - Start(NodeAt(e - 1)))
    BY <1>3, <1>7, <2>1, <2>3, Zenon
  <2>6. PICK z \in Nat : z = e - 1 /\ z < Total /\ e = z + 1
    BY <1>1, <2>2, <2>4
  <2>7. PICK end : end = e - Start(NodeAt(z)) /\ FreeBuffer(NodeAt(z), end)
    BY <2>5, <2>6, Zenon
  <2>8. Cut(e)
    BY <2>6, <2>7, CutBehind
  <2>9. Start(NodeAt(p)) \in Nat
    <3>1. NodeAt(p) \in 1 .. Len(nodes)
      BY <1>1, <2>2, NodeAtHolds
    <3>2. NodeAt(p) \in 1 .. Len(nodes) + 1
      BY <1>1, <3>1, StartsAt
    <3> QED
      BY <1>1, <3>2, StartsAt
  <2>10. PICK w : w = p - Start(NodeAt(p)) /\ ret' = PushPack(NodeAt(p), w)
    BY <2>5, Zenon
  <2>11. Start(NodeAt(p)) + w = p /\ p \in offset .. Total /\ e \in p .. Total /\ p < e
    BY <1>1, <2>2, <2>4, <2>9, <2>10
  <2>12. Pops(p, e)
    BY <2>8, <2>10, <2>11, PackIs DEF Pops
  <2>13. \A q \in offset .. Total - 1 : Unsplit(sep, q) => p <= q
    BY <1>5, <2>1
  <2>14. Exact(sep) => e = p + Len(sep) /\ \A i \in 1 .. Len(sep) : All[p + i] = sep[i]
    BY <1>1, <1>2, <2>2, <2>3, SepMatches
  <2>15. PopsAtSep(sep, p, e)
    BY <2>11, <2>12, <2>13, <2>14 DEF PopsAtSep
  <2> QED
    BY <2>15
<1> QED
  BY <1>6, <1>7

\* What is behind the offset.
LEMMA ContentIs ==
  ASSUME BufOK
  PROVE  /\ Content \in Seq(Bytes) /\ Len(Content) = Total - offset /\ Len(Content) = size
         /\ \A i \in 1 .. Total - offset : Content[i] = All[offset + i]
<1>1. All \in Seq(Bytes) /\ Len(All) = Total /\ Total \in Nat /\ offset \in Nat /\ offset <= Total
  BY OffsetIn, StartsAt DEF BufOK, Total
<1>2. size = Total - offset
  BY DEF BufOK
<1> QED
  BY <1>1, <1>2, PartIs DEF Content

\* A block is put behind what there is.
LEMMA PushAdds ==
  ASSUME BufOK, NEW data \in Blocks, Push(data)
  PROVE  /\ BufOK'
         /\ Content' \in Seq(Bytes) /\ Len(Content') > Len(Content)
         /\ SubSeq(Content', 1, Len(Content)) = Content
<1>1. /\ nodes \in Seq(Blocks) /\ ListTyped /\ offset \in 0 .. Total /\ Total \in Nat
      /\ size = Total - offset
  BY OffsetIn DEF BufOK, ListTyped
<1>2. data \in Seq(Bytes) /\ Len(data) \in 1 .. MaxNode /\ MaxNode \in Nat
  BY BlockIs, SocketBufferAssumption
<1>3. PICK m \in Nat \ {0} : m = Len(data)
  BY <1>2
<1>4. nodes' = Append(nodes, data) /\ offset' = offset /\ size' = size + m
  BY <1>3 DEF Push
<1>5. PICK u \in Seq(Bytes), v \in Seq(Bytes) : u = All /\ v = All' /\ v = u \o data
  <2>1. nodes \in Seq(Seq(Bytes))
    BY <1>1, BlockIs, SeqMonotonic
  <2>2. All' = All \o data
    BY <1>2, <1>4, <2>1, FlattenAppend DEF All
  <2>3. All \in Seq(Bytes)
    BY <1>1, StartsAt
  <2> QED
    BY <1>2, <2>2, <2>3, ConcatProperties
<1>6. PICK t \in Nat : t = Total + m /\ t = Total' /\ Len(u) = Total /\ Len(v) = t
  BY <1>1, <1>2, <1>3, <1>5, ConcatProperties DEF Total
<1>7. \A i \in 1 .. Total : v[i] = u[i]
  <2>1. \A i \in 1 .. Len(u) + Len(data) : (u \o data)[i] = IF i <= Len(u) THEN u[i] ELSE data[i - Len(u)]
    BY <1>2, <1>5, ConcatProperties
  <2>2. \A i \in 1 .. Total : i \in 1 .. Len(u) + Len(data) /\ i <= Len(u)
    BY <1>1, <1>3, <1>6
  <2> QED
    BY <1>5, <2>1, <2>2
<1>8. BufOK'
  <2>1. nodes' \in Seq(Blocks)
    BY <1>1, <1>4, AppendProperties
  <2>2. nodes' # <<>> /\ (nodes # <<>> => nodes'[1] = nodes[1]) /\ (nodes = <<>> => nodes'[1] = data)
    <3>1. /\ Append(nodes, data) # <<>> /\ Len(nodes) \in Nat
          /\ \A i \in 1 .. Len(nodes) : Append(nodes, data)[i] = nodes[i]
          /\ Append(nodes, data)[Len(nodes) + 1] = data
      BY <1>1, AppendProperties, LenProperties
    <3>2. nodes # <<>> => 1 \in 1 .. Len(nodes)
      BY <1>1, <3>1, EmptySeq
    <3>3. nodes = <<>> => Len(nodes) + 1 = 1
      BY EmptySeq
    <3> QED
      BY <1>4, <3>1, <3>2, <3>3
  <2>3. offset < Len(nodes'[1])
    <3>1. CASE nodes = <<>>
      <4>1. offset < 1
        BY <3>1 DEF BufOK
      <4> QED
        BY <1>1, <1>3, <2>2, <3>1, <4>1
    <3>2. CASE nodes # <<>>
      BY <2>2, <3>2 DEF BufOK
    <3> QED
      BY <3>1, <3>2
  <2>4. offset' \in Nat /\ size' = Total' - offset'
    <3>1. offset \in Nat /\ size' = t - offset
      BY <1>1, <1>4, <1>6
    <3> QED
      BY <1>4, <1>6, <3>1
  <2> QED
    BY <1>4, <2>1, <2>2, <2>3, <2>4 DEF BufOK, ListTyped
<1>9. PICK c \in Seq(Bytes), d \in Seq(Bytes) :
        /\ c = Content /\ Len(c) = Total - offset /\ \A i \in 1 .. Total - offset : c[i] = u[offset + i]
        /\ d = Content' /\ Len(d) = t - offset /\ \A i \in 1 .. t - offset : d[i] = v[offset + i]
  <2>1. /\ Content \in Seq(Bytes) /\ Len(Content) = Total - offset
        /\ \A i \in 1 .. Total - offset : Content[i] = u[offset + i]
    BY <1>5, ContentIs
  <2>2. Content' = SubSeq(v, offset + 1, t)
    BY <1>4, <1>5, <1>6 DEF Content
  <2>3. offset \in Nat /\ offset <= t /\ t <= Len(v)
    BY <1>1, <1>6
  <2>4. /\ SubSeq(v, offset + 1, t) \in Seq(Bytes) /\ Len(SubSeq(v, offset + 1, t)) = t - offset
        /\ \A i \in 1 .. t - offset : SubSeq(v, offset + 1, t)[i] = v[offset + i]
    BY <2>3, PartIs
  <2> QED
    BY <2>1, <2>2, <2>4
<1>10. PICK n \in Nat :
         /\ n = Len(c) /\ n = Total - offset
         /\ 0 <= n /\ n <= Len(d) /\ n < Len(d) /\ n - 0 = n
  <2>1. PICK n \in Nat : n = Total - offset
    BY <1>1
  <2>2. t - offset > n /\ t - offset \in Nat
    BY <1>1, <1>6, <2>1
  <2> QED
    BY <1>9, <2>1, <2>2
<1>11. SubSeq(d, 1, n) = c
  <2> DEFINE x == SubSeq(d, 0 + 1, n)
  <2>1. x \in Seq(Bytes) /\ Len(x) = n /\ \A i \in 1 .. n : x[i] = d[0 + i]
    BY <1>10, PartIs
  <2>2. ASSUME NEW i \in 1 .. n PROVE x[i] = c[i]
    <3>1. /\ 0 + i = i /\ i \in 1 .. t - offset /\ i \in 1 .. Total - offset
          /\ offset + i \in 1 .. Total
      BY <1>1, <1>6, <1>10
    <3> HIDE DEF x
    <3> QED
      BY <1>7, <1>9, <2>1, <3>1
  <2>3. x = c
    <3> HIDE DEF x
    <3> QED
      BY <1>10, <2>1, <2>2, SeqEqual
  <2> QED
    BY <2>3
<1> QED
  BY <1>8, <1>9, <1>10, <1>11

-----------------------------------------------------------------------------
(* The invariant.                                                          *)

\* BufOK and the bounds of the model.
Bounded == BufOK /\ size \in 0 .. MaxSize /\ ret \in Seq(Bytes) \cup {Nil}

\* The run's invariant says the same.
LEMMA SizeIsBounded == SizeIsContent <=> Bounded
<1>1. ASSUME SizeIsContent PROVE Bounded
  <2>1. MaxNode \in Nat
    BY SocketBufferAssumption
  <2> QED
    BY <1>1, <2>1 DEF SizeIsContent, TypeOK, Bounded, BufOK, ListTyped
<1>2. ASSUME Bounded PROVE SizeIsContent
  <2>1. BufOK
    BY <1>2 DEF Bounded
  <2>2. offset \in 0 .. MaxNode - 1
    BY <2>1, OffsetIn
  <2> QED
    BY <1>2, <2>1, <2>2 DEF SizeIsContent, TypeOK, Bounded, BufOK, ListTyped
<1> QED
  BY <1>1, <1>2

\* A new buffer is empty.
LEMMA InitBounded == ASSUME Init PROVE Bounded /\ Content = <<>>
<1>1. All = <<>> /\ Total = 0
  BY FlattenEmpty, EmptySeq DEF Init, All, Total
<1>2. MaxSize \in Nat /\ nodes \in Seq(Blocks)
  BY SocketBufferAssumption, EmptySeq DEF Init
<1>3. BufOK
  BY <1>1, <1>2 DEF Init, BufOK, ListTyped
<1>4. Len(Content) = 0 /\ Content \in Seq(Bytes)
  BY <1>1, <1>3, ContentIs DEF Init
<1>5. Content = <<>>
  BY <1>4, EmptySeq
<1> QED
  BY <1>2, <1>3, <1>5 DEF Bounded, Init

\* A pop keeps the invariant.
LEMMA PopsBounded == ASSUME Bounded, NEW p, NEW e, Pops(p, e) PROVE Bounded'
<1>1. BufOK /\ size \in 0 .. MaxSize /\ MaxSize \in Nat
  BY SocketBufferAssumption DEF Bounded
<1>2. size = Total - offset /\ offset \in 0 .. Total /\ Total \in Nat
  BY <1>1, OffsetIn
<1>3. BufOK' /\ size' = Total - e /\ ret' \in Seq(Bytes) /\ p \in offset .. Total /\ e \in p .. Total
  BY DEF Pops, Cut
<1>4. size' \in 0 .. MaxSize
  BY <1>1, <1>2, <1>3
<1> QED
  BY <1>3, <1>4 DEF Bounded

\* A call that leaves the list alone.
LEMMA SameBounded ==
  ASSUME Bounded, UNCHANGED <<nodes, offset, size>>
  PROVE  Content' = Content /\ (ret' \in Seq(Bytes) \cup {Nil} => Bounded')
BY DEF Bounded, BufOK, ListTyped, Content, All, Total

\* Every call keeps the invariant.
LEMMA NextBounded == ASSUME ~AnyDetach, Bounded, Next PROVE Bounded'
<1>1. BufOK
  BY DEF Bounded
<1>2. ASSUME Nothing PROVE Bounded'
  BY <1>2, SameBounded DEF Nothing
<1>3. ASSUME NEW data \in Blocks, size + Len(data) <= MaxSize, Push(data) PROVE Bounded'
  <2>1. BufOK'
    BY <1>1, <1>3, PushAdds
  <2>2. size' \in 0 .. MaxSize
    <3>1. Len(data) \in 1 .. MaxNode
      BY BlockIs
    <3> QED
      BY <1>3, <3>1, SocketBufferAssumption DEF Bounded, Push
  <2>3. ret' = Nil
    BY <1>3 DEF Push
  <2> QED
    BY <2>1, <2>2, <2>3 DEF Bounded
<1>4. ASSUME NEW sep \in Seps, ReadSep(sep) PROVE Bounded'
  <2>1. Nothing \/ \E p, e : Pops(p, e)
    BY <1>1, <1>4, ReadSepPops DEF PopsAtSep
  <2> QED
    BY <1>2, <2>1, PopsBounded
<1>5. ASSUME NEW n \in 0 .. MaxSize + 1, ReadN(n) PROVE Bounded'
  <2>1. n \in Nat
    BY SocketBufferAssumption
  <2>2. \/ ret' = <<>> /\ UNCHANGED <<nodes, offset, size>>
        \/ Nothing
        \/ \E p, e : Pops(p, e)
    BY <1>1, <1>5, <2>1, ReadNPops
  <2>3. <<>> \in Seq(Bytes)
    BY EmptySeq
  <2> QED
    BY <1>2, <2>2, <2>3, PopsBounded, SameBounded
<1>6. ASSUME ReadAll PROVE Bounded'
  <2>1. Nothing \/ \E p, e : Pops(p, e)
    BY <1>1, <1>6, ReadAllPops
  <2> QED
    BY <1>2, <2>1, PopsBounded
<1>7. ASSUME Detach PROVE Bounded'
  <2>1. Nothing \/ \E p, e : Pops(p, e)
    BY <1>1, <1>7, DetachPops
  <2> QED
    BY <1>2, <2>1, PopsBounded
<1> QED
  BY <1>3, <1>4, <1>5, <1>6, <1>7 DEF Next

\* The invariant holds of every history of calls.
LEMMA AlwaysBounded == ASSUME ~AnyDetach PROVE Spec => []Bounded
<1>1. Init => Bounded
  BY InitBounded
<1>2. Bounded /\ [Next]_vars => Bounded'
  <2> SUFFICES ASSUME Bounded, [Next]_vars PROVE Bounded'
    OBVIOUS
  <2>1. CASE Next
    BY <2>1, NextBounded
  <2>2. CASE UNCHANGED vars
    <3>1. UNCHANGED <<nodes, offset, size>> /\ ret' = ret
      BY <2>2 DEF vars
    <3>2. ret' \in Seq(Bytes) \cup {Nil}
      BY <3>1 DEF Bounded
    <3> QED
      BY <3>1, <3>2, SameBounded
  <2> QED
    BY <2>1, <2>2
<1> QED
  BY <1>1, <1>2, PTL DEF Spec

-----------------------------------------------------------------------------
(* Theorems.                                                               *)

\* The size counts the bytes behind the offset and the offset lies in the
\* first node, whatever is pushed and popped, as long as a buffer is detached
\* only while it is one whole block (ldetach is wrong otherwise).
THEOREM SizeKept == ASSUME ~AnyDetach PROVE Spec => []SizeIsContent
BY AlwaysBounded, SizeIsBounded, PTL

\* readn succeeds exactly when there are that many bytes, over however many
\* nodes, and readall leaves nothing.
THEOREM CountsRight == ASSUME ~AnyDetach PROVE Spec => PopsCount
<1> DEFINE A == /\ \A n \in 0 .. MaxSize + 1 : ReadN(n) =>
                     IF n <= Len(Content) THEN ret' # Nil /\ Len(ret') = n ELSE ret' = Nil
                /\ ReadAll => Content' = <<>> /\ (ret' = Nil <=> Content = <<>>)
<1>1. ASSUME Bounded PROVE A
  <2>1. BufOK
    BY <1>1 DEF Bounded
  <2>2. /\ Content \in Seq(Bytes) /\ Len(Content) = size /\ size \in Nat /\ Total \in Nat
        /\ offset \in 0 .. Total /\ size = Total - offset
    BY <2>1, ContentIs, OffsetIn
  <2>3. Nil \notin Seq(Bytes)
    BY SocketBufferAssumption
  <2>4. ASSUME NEW n \in 0 .. MaxSize + 1, ReadN(n)
        PROVE  IF n <= Len(Content) THEN ret' # Nil /\ Len(ret') = n ELSE ret' = Nil
    <3>1. n \in Nat
      BY SocketBufferAssumption
    <3>2. CASE n = 0 /\ ret' = <<>>
      <4>1. PICK r \in Seq(Bytes) : r = ret' /\ Len(r) = 0
        BY <3>2, EmptySeq
      <4>3. n = 0
        BY <3>2
      <4>2. r # Nil
        BY <2>3, <4>1
      <4>4. Len(r) = n
        BY <4>1, <4>3
      <4>5. n <= Len(Content)
        BY <2>2, <4>3
      <4> QED
        BY <4>1, <4>2, <4>4, <4>5
    <3>3. CASE size < n /\ Nothing
      BY <2>2, <3>1, <3>3 DEF Nothing
    <3>4. CASE size >= n /\ Pops(offset + n, offset + n)
      <4>1. ret' \in Seq(Bytes) /\ Len(ret') = n
        BY <2>2, <3>1, <3>4 DEF Pops
      <4> QED
        BY <2>2, <2>3, <3>1, <3>4, <4>1
    <3>5. \/ n = 0 /\ ret' = <<>>
          \/ size < n /\ Nothing
          \/ size >= n /\ Pops(offset + n, offset + n)
      BY <2>1, <2>4, <3>1, ReadNPops
    <3> QED
      BY <3>2, <3>3, <3>4, <3>5
  <2>5. ASSUME ReadAll PROVE Content' = <<>> /\ (ret' = Nil <=> Content = <<>>)
    <3>1. CASE nodes = <<>> /\ Nothing
      <4>1. size = 0
        BY <2>1, <2>2, <3>1, OffsetIn
      <4>2. Content = <<>>
        BY <2>2, <4>1, EmptySeq
      <4>3. Content' = Content /\ ret' = Nil
        BY <1>1, <3>1, SameBounded DEF Nothing
      <4> QED
        BY <4>2, <4>3
    <3>2. CASE nodes # <<>> /\ Pops(Total, Total)
      <4>1. Content # <<>>
        <5>1. offset < Total
          BY <2>1, <3>2, OffsetIn
        <5> QED
          BY <2>2, <5>1, EmptySeq
      <4>2. ret' # Nil
        BY <2>3, <3>2 DEF Pops
      <4>3. Content' = <<>>
        <5>1. Content' = SubSeq(All, Total + 1, Total)
          BY <3>2 DEF Pops, Cut
        <5>2. All \in Seq(Bytes) /\ Len(All) = Total
          BY <2>1, StartsAt DEF BufOK, Total
        <5>3. Content' \in Seq(Bytes) /\ Len(Content') = 0
          BY <2>2, <5>1, <5>2, PartIs
        <5> QED
          BY <5>3, EmptySeq
      <4> QED
        BY <4>1, <4>2, <4>3
    <3> QED
      BY <2>1, <2>5, <3>1, <3>2, ReadAllPops
  <2> QED
    BY <2>4, <2>5
<1>2. Bounded => [A]_vars
  BY <1>1
<1> QED
  BY <1>2, AlwaysBounded, PTL DEF PopsCount

\* A separator that arrived in one block is never passed over, also if the
\* data has zero bytes, since one comparison covers it.
THEOREM WholeSeparatorsFound == ASSUME ~AnyDetach PROVE Spec => MissesOnlySplit
<1> DEFINE A == \A sep \in Seps : ReadSep(sep) =>
                  \A p \in offset .. Total - 1 :
                    Unsplit(sep, p) => ret' # Nil /\ Len(ret') <= p - offset
<1>1. ASSUME Bounded PROVE A
  <2>1. BufOK
    BY <1>1 DEF Bounded
  <2> SUFFICES ASSUME NEW sep \in Seps, ReadSep(sep), NEW q \in offset .. Total - 1, Unsplit(sep, q)
               PROVE  ret' # Nil /\ Len(ret') <= q - offset
    OBVIOUS
  <2>2. PICK p, e : PopsAtSep(sep, p, e)
    BY <2>1, ReadSepPops
  <2>3. ret' \in Seq(Bytes) /\ Len(ret') = p - offset /\ p \in offset .. Total /\ p <= q
    BY <2>2 DEF PopsAtSep, Pops
  <2>4. offset \in 0 .. Total /\ Total \in Nat /\ Nil \notin Seq(Bytes)
    BY <2>1, OffsetIn, SocketBufferAssumption
  <2> QED
    BY <2>3, <2>4
<1>2. Bounded => [A]_vars
  BY <1>1
<1> QED
  BY <1>2, AlwaysBounded, PTL DEF MissesOnlySplit

-----------------------------------------------------------------------------
(* The list is a queue of bytes.                                           *)

\* What a pop takes and frees, as bytes of the queue.
LEMMA PopsTake ==
  ASSUME BufOK, NEW p, NEW e, Pops(p, e)
  PROVE  /\ p \in Nat /\ e \in Nat /\ p <= e /\ e <= Len(All) /\ All \in Seq(Bytes)
         /\ Content = (ret' \o SubSeq(All, p + 1, e)) \o Content'
<1>1. /\ All \in Seq(Bytes) /\ Len(All) = Total /\ Total \in Nat
      /\ offset \in Nat /\ offset <= Total
  BY OffsetIn, StartsAt DEF BufOK, Total
<1>2. p \in Nat /\ e \in Nat /\ offset <= p /\ p <= e /\ e <= Total /\ offset <= e
  BY <1>1 DEF Pops
<1>3. ret' = SubSeq(All, offset + 1, p) /\ Content' = SubSeq(All, e + 1, Total)
  BY DEF Pops, Cut
<1>4. SubSeq(All, offset + 1, Total) = SubSeq(All, offset + 1, e) \o SubSeq(All, e + 1, Total)
  BY <1>1, <1>2, PartsJoin
<1>5. SubSeq(All, offset + 1, e) = SubSeq(All, offset + 1, p) \o SubSeq(All, p + 1, e)
  BY <1>1, <1>2, PartsJoin
<1>6. Content = (ret' \o SubSeq(All, p + 1, e)) \o Content'
  BY <1>3, <1>4, <1>5, Zenon DEF Content
<1> QED
  BY <1>1, <1>2, <1>6

\* A pop without a separator.
LEMMA PopsIsTake == ASSUME BufOK, NEW p, Pops(p, p) PROVE Queue!Take
<1>1. /\ p \in Nat /\ p <= Len(All) /\ All \in Seq(Bytes)
      /\ Content = (ret' \o SubSeq(All, p + 1, p)) \o Content'
  BY PopsTake
<1>2. SubSeq(All, p + 1, p) \in Seq(Bytes) /\ Len(SubSeq(All, p + 1, p)) = p - p
  BY <1>1, PartIs
<1>3. SubSeq(All, p + 1, p) = <<>>
  BY <1>1, <1>2, EmptySeq
<1>4. ret' \in Seq(Bytes)
  BY DEF Pops
<1>5. ret' \o <<>> = ret'
  BY <1>4, ConcatEmptySeq
<1>6. Content = ret' \o Content'
  BY <1>1, <1>3, <1>5, Zenon
<1> QED
  BY <1>4, <1>6 DEF Queue!Take

\* A pop up to a separator.
LEMMA PopsIsTakeBefore ==
  ASSUME BufOK, NEW sep \in Seps, Exact(sep), NEW p, NEW e, PopsAtSep(sep, p, e)
  PROVE  Queue!TakeBefore(sep)
<1>1. Pops(p, e) /\ e = p + Len(sep) /\ \A i \in 1 .. Len(sep) : All[p + i] = sep[i]
  BY DEF PopsAtSep
<1>2. /\ p \in Nat /\ e \in Nat /\ p <= e /\ e <= Len(All) /\ All \in Seq(Bytes)
      /\ Content = (ret' \o SubSeq(All, p + 1, e)) \o Content'
  BY <1>1, PopsTake
<1>3. PICK s \in Seq(Bytes) : s = SubSeq(All, p + 1, e) /\ Len(s) = e - p
                              /\ \A i \in 1 .. e - p : s[i] = All[p + i]
  <2>1. /\ SubSeq(All, p + 1, e) \in Seq(Bytes) /\ Len(SubSeq(All, p + 1, e)) = e - p
        /\ \A i \in 1 .. e - p : SubSeq(All, p + 1, e)[i] = All[p + i]
    BY <1>2, PartIs
  <2> QED
    BY <2>1, Zenon
<1>4. sep \in Seq(Bytes) /\ Len(sep) \in Nat /\ e - p = Len(sep)
  BY <1>1, <1>2, SepIs
<1>5. s = sep
  BY <1>1, <1>3, <1>4, SeqEqual
<1>6. Content = (ret' \o sep) \o Content'
  BY <1>2, <1>3, <1>5, Zenon
<1>7. ret' \in Seq(Bytes)
  BY <1>1 DEF Pops
<1> QED
  BY <1>6, <1>7, Zenon DEF Queue!TakeBefore

\* A pop that returns nil.
LEMMA NothingIsNothing == ASSUME Nothing PROVE Queue!Nothing
BY DEF Nothing, Queue!Nothing, Content, All, Total

\* Every step of the list is a step of the queue.
LEMMA NextIsQueueNext ==
  ASSUME ~AnyDetach, \A sep \in Seps : Exact(sep), BufOK, Next
  PROVE  Queue!Next
<1>1. ASSUME NEW data \in Blocks, Push(data) PROVE Queue!Push
  <2>1. ret' = Nil
    BY <1>1 DEF Push
  <2> QED
    BY <1>1, <2>1, PushAdds DEF Queue!Push
<1>2. ASSUME NEW sep \in Seps, ReadSep(sep) PROVE Queue!TakeBefore(sep) \/ Queue!Nothing
  BY <1>2, ReadSepPops, PopsIsTakeBefore, NothingIsNothing
<1>3. ASSUME NEW n \in 0 .. MaxSize + 1, ReadN(n) PROVE Queue!Take \/ Queue!Nothing
  <2>1. n \in Nat
    BY SocketBufferAssumption
  <2>2. CASE ret' = <<>> /\ UNCHANGED <<nodes, offset, size>>
    <3>1. Content' = Content
      BY <2>2 DEF Content, All, Total
    <3>2. Content \in Seq(Bytes) /\ ret' \in Seq(Bytes)
      BY <2>2, ContentIs, EmptySeq
    <3>3. <<>> \o Content = Content
      BY <3>2, ConcatEmptySeq
    <3>4. Content = ret' \o Content'
      BY <2>2, <3>1, <3>3, Zenon
    <3> QED
      BY <3>2, <3>4 DEF Queue!Take
  <2>3. \/ ret' = <<>> /\ UNCHANGED <<nodes, offset, size>>
        \/ Nothing
        \/ \E p : Pops(p, p)
    BY <1>3, <2>1, ReadNPops
  <2> QED
    BY <2>2, <2>3, NothingIsNothing, PopsIsTake
<1>4. ASSUME ReadAll PROVE Queue!Take \/ Queue!Nothing
  BY <1>4, ReadAllPops, NothingIsNothing, PopsIsTake
<1>5. ASSUME Detach PROVE Queue!Take \/ Queue!Nothing
  BY <1>5, DetachPops, NothingIsNothing, PopsIsTake
<1> QED
  BY <1>1, <1>2, <1>3, <1>4, <1>5 DEF Next, Queue!Next

\* Whatever the blocks were, a pop returns what is at the front of the queue
\* of bytes and removes that, and the separator, and no more.  Since checksep
\* reads past a separator of several bytes, the data may have zero bytes only
\* with separators of one.
THEOREM ListIsQueue ==
  ASSUME ~AnyDetach, \A sep \in Seps : Exact(sep)
  PROVE  Spec => ImplementsQueue
<1>1. Init => Queue!Init
  BY InitBounded DEF Init, Queue!Init
<1>2. Bounded /\ [Next]_vars => [Queue!Next]_<<Content, ret>>
  <2> SUFFICES ASSUME Bounded, [Next]_vars PROVE [Queue!Next]_<<Content, ret>>
    OBVIOUS
  <2>1. CASE Next
    BY <2>1, NextIsQueueNext DEF Bounded
  <2>2. CASE UNCHANGED vars
    BY <2>2 DEF vars, Content, All, Total
  <2> QED
    BY <2>1, <2>2
<1> QED
  BY <1>1, <1>2, AlwaysBounded, PTL DEF Spec, ImplementsQueue, Queue!Spec
=============================================================================
