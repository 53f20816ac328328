---------------------------- MODULE SocketBuffer ----------------------------
(***************************************************************************)
(* The buffer of received data of src/src/lsocketbuffer.c: a list of       *)
(* nodes, each the block that one read has delivered, an offset into the   *)
(* first of them and the number of bytes left.  A pop takes everything, a  *)
(* number of bytes, or what is before a separator.                         *)
(***************************************************************************)
EXTENDS Integers, Sequences, SequencesExt

CONSTANTS
  Bytes,       \* what a byte may be
  NUL,         \* the byte 0, which ends a Lua string in memory
  Seps,        \* the separators the application gives
  Nil,         \* nothing is returned
  MaxNode,     \* the largest block
  MaxSize,     \* bound on the bytes that wait
  StarOne,     \* the separator "*1"
  AnyDetach    \* the buffer is detached whatever it holds

ASSUME SocketBufferAssumption ==
  /\ Seps \subseteq Seq(Bytes) \ {<<>>}
  /\ StarOne \in Seps
  /\ MaxNode \in Nat \ {0}
  /\ MaxSize \in Nat
  /\ AnyDetach \in BOOLEAN
  /\ Nil \notin Seq(Bytes)

VARIABLES
  nodes,       \* head .. tail, the bytes of each
  offset, size,
  ret          \* what the last call has returned

vars == <<nodes, offset, size, ret>>

Blocks == UNION {[1 .. n -> Bytes] : n \in 1 .. MaxNode}

TypeOK ==
  /\ nodes \in Seq(Blocks)
  /\ offset \in 0 .. MaxNode - 1
  /\ size \in 0 .. MaxSize
  /\ ret \in Seq(Bytes) \cup {Nil}

\* lnew.
Init ==
  /\ nodes = <<>>
  /\ offset = 0
  /\ size = 0
  /\ ret = Nil

\* A place in the list is the number of bytes before it, from the start of
\* the first node.
All == FlattenSeq(nodes)
Total == Len(All)
Start(k) == Len(FlattenSeq(SubSeq(nodes, 1, k - 1)))
NodeAt(p) ==
  CHOOSE k \in 1 .. Len(nodes) : Start(k) <= p /\ p < Start(k) + Len(nodes[k])

Content == SubSeq(All, offset + 1, Total)

Nothing == ret' = Nil /\ UNCHANGED <<nodes, offset, size>>

\* lpush, whose result is the size, which nobody uses.  NULL and an empty
\* block are refused; socket_read delivers neither.
Push(data) ==
  /\ nodes' = Append(nodes, data)
  /\ size' = size + Len(data)
  /\ ret' = Nil
  /\ UNCHANGED offset

-----------------------------------------------------------------------------
(* What the pops are built from.                                           *)

\* Mutant of FreeBuffer: the offset is not added to the size first.
FreeBufferNoOffset(k, end) ==
  LET whole == Len(nodes[k]) = end
  IN /\ size' = size - Start(k) - end
     /\ nodes' = SubSeq(nodes, IF whole THEN k + 1 ELSE k, Len(nodes))
     /\ offset' = IF whole THEN 0 ELSE end

\* freebuffer: the nodes before the k-th go, and end bytes of that one.
FreeBuffer(k, end) ==
  LET whole == Len(nodes[k]) = end
  IN /\ size' = size + offset - Start(k) - end
     /\ nodes' = SubSeq(nodes, IF whole THEN k + 1 ELSE k, Len(nodes))
     /\ offset' = IF whole THEN 0 ELSE end

\* Mutant of PushPack: the bytes before the offset are returned again.
PushPackWhole(k, end) == SubSeq(All, 1, Start(k) + end)

\* pushpack: the bytes up to end in the k-th node.
PushPack(k, end) == SubSeq(All, offset + 1, Start(k) + end)

\* checksep, from place p on: the place where the separator ends, or -1.  A
\* node is compared as far as it goes or the separator is long, whatever is
\* left of the separator: memcmp reads on, into the NUL and what is after it.
CheckSep(p, sep, beyond) ==
  LET l == Len(sep)
      memory == sep \o <<NUL>> \o beyond
      Match[q \in p .. Total - 1] ==
        LET left == Start(NodeAt(q) + 1) - q
            sz   == IF left > l THEN l ELSE left
        IN IF SubSeq(All, q + 1, q + sz) # SubSeq(memory, q - p + 1, q - p + sz) THEN -1
           ELSE IF q - p + sz >= l THEN q + sz
           ELSE IF q + sz = Total THEN -1
           ELSE Match[q + sz]
  IN Match[p]

-----------------------------------------------------------------------------
(* lpop, with each kind of argument, and ldetach.                          *)

\* Mutant of ReadSep: the places before the offset of the first node are
\* left out in every node.
ReadSepOffset(sep) ==
  \E beyond \in [1 .. Len(sep) - 2 -> Bytes] :
    LET found == {p \in offset .. Total - 1 :
                    /\ p - Start(NodeAt(p)) >= offset
                    /\ CheckSep(p, sep, beyond) # -1}
        first == CHOOSE p \in found : \A q \in found : p <= q
        end   == CheckSep(first, sep, beyond)
        k     == NodeAt(end - 1)
    IN \/ /\ found # {}
          /\ ret' = PushPack(NodeAt(first), first - Start(NodeAt(first)))
          /\ FreeBuffer(k, end - Start(k))
       \/ /\ found = {}
          /\ Nothing

\* readsep: the first place where checksep succeeds.
ReadSep(sep) ==
  \E beyond \in [1 .. Len(sep) - 2 -> Bytes] :
    LET found == {p \in offset .. Total - 1 : CheckSep(p, sep, beyond) # -1}
        first == CHOOSE p \in found : \A q \in found : p <= q
        end   == CheckSep(first, sep, beyond)
        k     == NodeAt(end - 1)
    IN \/ /\ found # {}
          /\ ret' = PushPack(NodeAt(first), first - Start(NodeAt(first)))
          /\ FreeBuffer(k, end - Start(k))
       \/ /\ found = {}
          /\ Nothing

\* Mutant of ReadN: it waits for one byte more than it needs.
ReadNStrict(n) ==
  \/ n = 0 /\ ret' = <<>> /\ UNCHANGED <<nodes, offset, size>>
  \/ n > 0 /\ size <= n /\ Nothing
  \/ /\ n > 0
     /\ size > n
     /\ LET k   == NodeAt(offset + n - 1)
            end == offset + n - Start(k)
        IN ret' = PushPack(k, end) /\ FreeBuffer(k, end)

\* readn: the node where the n-th byte is.
ReadN(n) ==
  \/ n = 0 /\ ret' = <<>> /\ UNCHANGED <<nodes, offset, size>>
  \/ n > 0 /\ size < n /\ Nothing
  \/ /\ n > 0
     /\ size >= n
     /\ LET k   == NodeAt(offset + n - 1)
            end == offset + n - Start(k)
        IN ret' = PushPack(k, end) /\ FreeBuffer(k, end)

ReadAll ==
  \/ nodes = <<>> /\ Nothing
  \/ /\ nodes # <<>>
     /\ ret' = PushPack(Len(nodes), Len(Last(nodes)))
     /\ FreeBuffer(Len(nodes), Len(Last(nodes)))

\* ldetach hands the bytes over in one block.  It frees "size" bytes of the
\* last node, which is right for a single node that nothing was taken from.
Detach ==
  \/ size <= 0 /\ Nothing
  \/ /\ size > 0
     /\ AnyDetach \/ (Len(nodes) = 1 /\ offset = 0)
     /\ ret' = Content
     /\ FreeBuffer(Len(nodes), size)

Next ==
  \/ \E data \in Blocks : size + Len(data) <= MaxSize /\ Push(data)
  \/ \E sep \in Seps : ReadSep(sep)
  \/ \E n \in 0 .. MaxSize + 1 : ReadN(n)
  \/ ReadAll
  \/ Detach

Spec == Init /\ [][Next]_vars

-----------------------------------------------------------------------------
(* Properties.                                                             *)

\* The size that readn compares with, and that readall (175) and ldetach
\* (312) assert, counts the bytes behind the offset, and the offset lies in
\* the first node, so that no copy has a negative length.
SizeIsContent ==
  /\ TypeOK
  /\ size = Total - offset
  /\ offset < (IF nodes = <<>> THEN 1 ELSE Len(nodes[1]))

\* The list is a queue of bytes: whatever the blocks were, a pop returns
\* what is at its front and removes that, and the separator, and no more.
Queue == INSTANCE ByteQueue WITH queue <- Content, ret <- ret
ImplementsQueue == Queue!Spec

\* A pop by number succeeds exactly when there are that many bytes, however
\* they are spread over nodes, and returns that many; a pop of everything
\* leaves nothing.
PopsCount ==
  [][/\ \A n \in 0 .. MaxSize + 1 : ReadN(n) =>
          IF n <= Len(Content) THEN ret' # Nil /\ Len(ret') = n ELSE ret' = Nil
     /\ ReadAll => Content' = <<>> /\ (ret' = Nil <=> Content = <<>>)]_vars

\* Where sep is, within one node.
Occurs(sep, p) ==
  /\ p + Len(sep) <= Total
  /\ SubSeq(All, p + 1, p + Len(sep)) = sep
Unsplit(sep, p) == Occurs(sep, p) /\ NodeAt(p) = NodeAt(p + Len(sep) - 1)

\* A separator that arrived in one block is never passed over: only one that
\* is split over blocks may be, and then the line that is returned holds it.
MissesOnlySplit ==
  [][\A sep \in Seps : ReadSep(sep) =>
       \A p \in offset .. Total - 1 :
         Unsplit(sep, p) => ret' # Nil /\ Len(ret') <= p - offset]_vars

\* The test programs read the byte that holds a message's length with the
\* mode '*1' (test/client.lua:15): a byte is returned whenever one is there.
LengthByteRead ==
  [][ReadSep(StarOne) /\ Content # <<>> => ret' # Nil /\ Len(ret') = 1]_vars
=============================================================================
