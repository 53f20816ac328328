-------------------------- MODULE SlotPool_proofs --------------------------
(***************************************************************************)
(* The free list of socket.c is correct for every table size and every set *)
(* of descriptors: ListInv is inductive, the assertions of _close_socket   *)
(* follow from it, and every step is a step of SlotQueue.                  *)
(***************************************************************************)
EXTENDS SlotPool, QueueLemmas

(***************************************************************************)
(* _alloc_sockets and net_create establish the invariant.                  *)
(***************************************************************************)
LEMMA InitListInv == Init => ListInv
<1> SUFFICES ASSUME Init PROVE ListInv
  OBVIOUS
<1> USE MaxAssumption, FdsAssumption DEF Init, Slots, NULL
<1>1. /\ queue \in Seq(Slots) /\ Len(queue) = Max /\ queue # <<>>
      /\ \A i \in 1 .. Max : queue[i] = i - 1
  <2>1. queue \in [1 .. Max -> Slots] /\ \A i \in 1 .. Max : queue[i] = i - 1
    OBVIOUS
  <2>2. queue \in Seq(Slots)
    BY <2>1, SeqDef
  <2>3. Len(queue) = Max
    BY <2>1, <2>2, LenProperties
  <2> QED
    BY <2>1, <2>2, <2>3, EmptySeq
<1>2. TypeOK
  BY <1>1 DEF TypeOK
<1>3. QueueIsFreeSlots
  <2>1. \A s \in Slots : s + 1 \in 1 .. Len(queue) /\ queue[s + 1] = s
    BY <1>1
  <2>2. \A i \in 1 .. Len(queue) : queue[i] \in Slots /\ status[queue[i]] = "INVALID"
    BY <1>1
  <2>3. \A i, j \in 1 .. Len(queue) : queue[i] = queue[j] => i = j
    BY <1>1
  <2> QED
    BY <2>1, <2>2, <2>3 DEF QueueIsFreeSlots
<1>4. LinksSpellQueue
  <2>1. queue[1] = 0 /\ queue[Len(queue)] = Max - 1
    BY <1>1
  <2>2. \A i \in 1 .. Len(queue) :
           fd[queue[i]] = IF i = Len(queue) THEN -1 ELSE queue[i+1]
    BY <1>1
  <2> QED
    BY <1>1, <2>1, <2>2 DEF LinksSpellQueue
<1>5. LiveHoldFds
  BY DEF LiveHoldFds
<1> QED
  BY <1>2, <1>3, <1>4, <1>5 DEF ListInv

(***************************************************************************)
(* _create_socket keeps the invariant.                                     *)
(***************************************************************************)
LEMMA CreateListInv ==
  ASSUME ListInv, NEW f \in Fds, CreateSocket(f)
  PROVE  ListInv'
<1> USE MaxAssumption, FdsAssumption DEF Slots, NULL, ListInv
<1>1. queue # <<>> /\ free_socket = queue[1]
  BY DEF LinksSpellQueue, CreateSocket
<1>2. /\ queue' \in Seq(Slots)
      /\ Len(queue') = Len(queue) - 1
      /\ Len(queue) \in Nat \ {0}
      /\ queue[1] \in Slots
      /\ \A i \in 1 .. Len(queue') : queue'[i] = queue[i+1]
  BY <1>1, TailOfQueue DEF TypeOK, CreateSocket
<1>3. /\ fd' = [fd EXCEPT ![queue[1]] = f]
      /\ status' = [status EXCEPT ![queue[1]] = "SUSPEND"]
      /\ free_socket' = Link(queue[1])
      /\ tail_socket' = tail_socket
  BY <1>1 DEF CreateSocket
<1>4. \A i \in 1 .. Len(queue) : queue[i] \in Slots
  BY ElementOfSeq DEF TypeOK
<1>5. \A i \in 2 .. Len(queue) : queue[i] # queue[1]
  BY <1>2 DEF QueueIsFreeSlots
<1>6. Link(queue[1]) = IF Len(queue) = 1 THEN -1 ELSE queue[2]
  BY <1>2, <1>4 DEF Link, LinksSpellQueue
<1>7. TypeOK'
  <2>1. Link(queue[1]) \in Slots \cup {NULL}
    BY <1>2, <1>4, <1>6
  <2> QED
    BY <1>2, <1>3, <2>1 DEF TypeOK
<1>8. QueueIsFreeSlots'
  <2>1. ASSUME NEW i \in 1 .. Len(queue')
        PROVE  status'[queue'[i]] = "INVALID"
    <3>1. i + 1 \in 2 .. Len(queue) /\ queue'[i] = queue[i + 1]
      BY <1>2
    <3>2. status[queue[i + 1]] = "INVALID"
      BY <3>1 DEF QueueIsFreeSlots
    <3>3. queue[i + 1] \in Slots /\ queue[i + 1] # queue[1]
      BY <1>4, <1>5, <3>1
    <3> QED
      BY <1>3, <3>1, <3>2, <3>3 DEF TypeOK
  <2>2. ASSUME NEW s \in Slots, status'[s] = "INVALID"
        PROVE  \E i \in 1 .. Len(queue') : queue'[i] = s
    <3>1. s # queue[1] /\ status[s] = "INVALID"
      BY <1>2, <1>3, <2>2 DEF TypeOK
    <3>2. PICK i \in 1 .. Len(queue) : queue[i] = s
      BY <3>1 DEF QueueIsFreeSlots
    <3>3. i - 1 \in 1 .. Len(queue') /\ queue'[i - 1] = s
      BY <1>2, <3>1, <3>2
    <3> QED
      BY <3>3
  <2>3. \A i, j \in 1 .. Len(queue') : queue'[i] = queue'[j] => i = j
    <3> SUFFICES ASSUME NEW i \in 1 .. Len(queue'), NEW j \in 1 .. Len(queue'),
                        queue'[i] = queue'[j]
                 PROVE  i = j
      OBVIOUS
    <3>1. /\ i + 1 \in 1 .. Len(queue) /\ j + 1 \in 1 .. Len(queue)
          /\ queue[i + 1] = queue[j + 1]
      BY <1>2
    <3>2. i + 1 = j + 1
      BY <3>1 DEF QueueIsFreeSlots
    <3> QED
      BY <1>2, <3>2
  <2> QED
    BY <2>1, <2>2, <2>3 DEF QueueIsFreeSlots
<1>9. LinksSpellQueue'
  <2>1. queue' = <<>> <=> Len(queue) = 1
    BY <1>2, EmptySeq
  <2>2. free_socket' = IF queue' = <<>> THEN NULL ELSE queue'[1]
    BY <1>2, <1>3, <1>6, <2>1
  <2>3. queue' # <<>> => tail_socket' = queue'[Len(queue')]
    BY <1>1, <1>2, <1>3, <2>1 DEF LinksSpellQueue
  <2>4. \A i \in 1 .. Len(queue') :
           fd'[queue'[i]] = IF i = Len(queue') THEN -1 ELSE queue'[i+1]
    <3> SUFFICES ASSUME NEW i \in 1 .. Len(queue')
                 PROVE fd'[queue'[i]] = IF i = Len(queue') THEN -1 ELSE queue'[i+1]
      OBVIOUS
    <3>1. i + 1 \in 2 .. Len(queue) /\ queue'[i] = queue[i + 1]
      BY <1>2
    <3>2. fd'[queue[i + 1]] = fd[queue[i + 1]]
      BY <1>2, <1>3, <1>4, <1>5, <3>1 DEF TypeOK
    <3>3. fd[queue[i + 1]] = IF i + 1 = Len(queue) THEN -1 ELSE queue[i + 2]
      BY <3>1 DEF LinksSpellQueue
    <3>4. i # Len(queue') => queue'[i + 1] = queue[i + 2]
      BY <1>2
    <3> QED
      BY <1>2, <3>1, <3>2, <3>3, <3>4
  <2> QED
    BY <2>2, <2>3, <2>4 DEF LinksSpellQueue
<1>10. LiveHoldFds'
  BY <1>2, <1>3 DEF LiveHoldFds, TypeOK
<1> QED
  BY <1>7, <1>8, <1>9, <1>10

(***************************************************************************)
(* _close_socket keeps the invariant.                                      *)
(***************************************************************************)
LEMMA CloseListInv ==
  ASSUME ListInv, NEW s \in Slots, CloseSocket(s)
  PROVE  ListInv'
<1> USE MaxAssumption, FdsAssumption DEF Slots, NULL, ListInv
<1>1. /\ queue' \in Seq(Slots)
      /\ queue' # <<>>
      /\ Len(queue') = Len(queue) + 1
      /\ Len(queue) \in Nat
      /\ \A i \in 1 .. Len(queue) : queue'[i] = queue[i]
      /\ queue'[Len(queue')] = s
  <2>1. queue' = Append(queue, s) /\ queue \in Seq(Slots)
    BY DEF TypeOK, CloseSocket
  <2> QED
    BY <2>1, AppendToQueue
<1>2. \A i \in 1 .. Len(queue) : queue[i] \in Slots /\ queue[i] # s
  BY ElementOfSeq DEF TypeOK, QueueIsFreeSlots, CloseSocket
<1>3. status' = [status EXCEPT ![s] = "INVALID"] /\ tail_socket' = s
  BY DEF CloseSocket
<1>4. free_socket = NULL <=> queue = <<>>
  BY <1>2, EmptySeq DEF LinksSpellQueue, TypeOK
<1>5. CASE queue = <<>>
  <2>1. Len(queue) = 0 /\ free_socket' = s /\ fd' = [fd EXCEPT ![s] = -1]
    BY <1>4, <1>5, EmptySeq DEF CloseSocket
  <2>2. TypeOK'
    BY <1>1, <1>3, <2>1 DEF TypeOK
  <2>3. QueueIsFreeSlots'
    BY <1>1, <1>3, <1>5, <2>1 DEF QueueIsFreeSlots, TypeOK
  <2>4. LinksSpellQueue'
    BY <1>1, <1>3, <2>1 DEF LinksSpellQueue, TypeOK
  <2>5. LiveHoldFds'
    BY <1>3, <2>1 DEF LiveHoldFds, TypeOK
  <2> QED
    BY <2>2, <2>3, <2>4, <2>5
<1>6. CASE queue # <<>>
  <2> DEFINE last == queue[Len(queue)]
  <2>1. /\ Len(queue) \in Nat \ {0}
        /\ tail_socket = last
        /\ last \in Slots
        /\ last # s
        /\ free_socket' = free_socket
        /\ free_socket = queue[1]
    BY <1>1, <1>2, <1>4, <1>6, EmptySeq DEF CloseSocket, LinksSpellQueue, TypeOK
  <2>2. fd' = [fd EXCEPT ![s] = -1, ![last] = s]
    BY <1>4, <1>6, <2>1 DEF CloseSocket
  <2>3. TypeOK'
    BY <1>1, <1>3, <2>1, <2>2 DEF TypeOK
  <2>4. QueueIsFreeSlots'
    <3>1. ASSUME NEW i \in 1 .. Len(queue')
          PROVE  status'[queue'[i]] = "INVALID"
      <4>1. CASE i = Len(queue')
        BY <1>1, <1>3, <4>1 DEF TypeOK
      <4>2. CASE i \in 1 .. Len(queue)
        <5>1. PICK t \in Slots : t = queue[i] /\ t # s /\ queue'[i] = t
          BY <1>1, <1>2, <4>2
        <5>2. status[t] = "INVALID"
          BY <4>2, <5>1 DEF QueueIsFreeSlots
        <5> QED
          BY <1>3, <5>1, <5>2 DEF TypeOK
      <4> QED
        BY <1>1, <4>1, <4>2
    <3>2. ASSUME NEW t \in Slots, status'[t] = "INVALID"
          PROVE  \E i \in 1 .. Len(queue') : queue'[i] = t
      <4>1. CASE t = s
        BY <1>1, <4>1
      <4>2. CASE t # s
        <5>1. PICK i \in 1 .. Len(queue) : queue[i] = t
          BY <1>3, <3>2, <4>2 DEF QueueIsFreeSlots, TypeOK
        <5> QED
          BY <1>1, <5>1
      <4> QED
        BY <4>1, <4>2
    <3>3. \A i, j \in 1 .. Len(queue') : queue'[i] = queue'[j] => i = j
      <4> SUFFICES ASSUME NEW i \in 1 .. Len(queue'), NEW j \in 1 .. Len(queue'),
                          queue'[i] = queue'[j]
                   PROVE  i = j
        OBVIOUS
      <4>1. CASE i = Len(queue') \/ j = Len(queue')
        BY <1>1, <1>2, <4>1
      <4>2. CASE i \in 1 .. Len(queue) /\ j \in 1 .. Len(queue)
        BY <1>1, <4>2 DEF QueueIsFreeSlots
      <4> QED
        BY <1>1, <4>1, <4>2
    <3> QED
      BY <3>1, <3>2, <3>3 DEF QueueIsFreeSlots
  <2>5. LinksSpellQueue'
    <3>1. \A i \in 1 .. Len(queue') :
             fd'[queue'[i]] = IF i = Len(queue') THEN -1 ELSE queue'[i+1]
      <4> SUFFICES ASSUME NEW i \in 1 .. Len(queue')
                   PROVE fd'[queue'[i]] = IF i = Len(queue') THEN -1 ELSE queue'[i+1]
        OBVIOUS
      <4>1. CASE i = Len(queue')
        BY <1>1, <2>1, <2>2, <4>1 DEF TypeOK
      <4>2. CASE i = Len(queue)
        <5>1. i \in 1 .. Len(queue) /\ i # Len(queue') /\ i + 1 = Len(queue')
          BY <1>1, <4>2
        <5>2. queue'[i] = last /\ queue'[i + 1] = s
          BY <1>1, <4>2, <5>1
        <5> QED
          BY <2>1, <2>2, <5>1, <5>2 DEF TypeOK
      <4>3. CASE i < Len(queue)
        <5>1. queue[i] # last /\ queue[i] # s /\ queue[i] \in Slots
          BY <1>1, <1>2, <4>3 DEF QueueIsFreeSlots
        <5>2. fd'[queue[i]] = fd[queue[i]]
          BY <2>1, <2>2, <5>1 DEF TypeOK
        <5>3. /\ i # Len(queue') /\ i # Len(queue)
              /\ i \in 1 .. Len(queue) /\ queue'[i] = queue[i]
              /\ i + 1 \in 1 .. Len(queue) /\ queue'[i + 1] = queue[i + 1]
          BY <1>1, <4>3
        <5>4. fd[queue[i]] = queue[i + 1]
          BY <5>3 DEF LinksSpellQueue
        <5> QED
          BY <5>2, <5>3, <5>4
      <4> QED
        BY <1>1, <4>1, <4>2, <4>3
    <3> QED
      BY <1>1, <1>3, <2>1, <3>1 DEF LinksSpellQueue
  <2>6. LiveHoldFds'
    <3>1. status[last] = "INVALID"
      BY <2>1 DEF QueueIsFreeSlots
    <3> QED
      BY <1>3, <2>1, <2>2, <3>1 DEF LiveHoldFds, TypeOK
  <2> QED
    BY <2>3, <2>4, <2>5, <2>6
<1> QED
  BY <1>5, <1>6

(***************************************************************************)
(* In every reachable state the links spell out the free slots in the      *)
(* order in which they were freed.                                         *)
(***************************************************************************)
THEOREM ListCorrect == Spec => []ListInv
<1>1. ListInv /\ [Next]_vars => ListInv'
  <2> SUFFICES ASSUME ListInv, [Next]_vars PROVE ListInv'
    OBVIOUS
  <2>1. ASSUME NEW f \in Fds, CreateSocket(f) PROVE ListInv'
    BY <2>1, CreateListInv
  <2>2. ASSUME NEW s \in Slots, CloseSocket(s) PROVE ListInv'
    BY <2>2, CloseListInv
  <2>3. CASE UNCHANGED vars
    BY <2>3 DEF vars, ListInv, TypeOK, QueueIsFreeSlots, LinksSpellQueue, LiveHoldFds
  <2> QED
    BY <2>1, <2>2, <2>3 DEF Next
<1> QED
  BY InitListInv, <1>1, PTL DEF Spec

(***************************************************************************)
(* The assertions of _close_socket (socket.c:182-183) never fail.          *)
(***************************************************************************)
THEOREM TailAssertions == Spec => []TailIsLast
<1>1. ListInv => TailIsLast
  <2> SUFFICES ASSUME ListInv, free_socket # NULL
               PROVE  status[tail_socket] = "INVALID" /\ fd[tail_socket] = -1
    BY DEF TailIsLast
  <2>1. queue # <<>> /\ Len(queue) \in Nat \ {0}
    BY EmptySeq DEF ListInv, LinksSpellQueue, TypeOK
  <2> QED
    BY <2>1 DEF ListInv, LinksSpellQueue, QueueIsFreeSlots
<1> QED
  BY <1>1, ListCorrect, PTL

(***************************************************************************)
(* The linked list implements SlotQueue: slots are handed out in the order *)
(* in which they were closed.                                              *)
(***************************************************************************)
THEOREM PoolImplementsQueue == Spec => ImplementsQueue
<1> USE DEF Slots, Q!Slots, FreeSlots
<1>1. Init => Q!Init
  BY DEF Init, Q!Init
<1>2. ListInv /\ [Next]_vars => [Q!Next]_<<queue, Slots \ FreeSlots>>
  <2> SUFFICES ASSUME ListInv, [Next]_vars
               PROVE  [Q!Next]_<<queue, Slots \ FreeSlots>>
    OBVIOUS
  <2>1. ASSUME NEW f \in Fds, CreateSocket(f) PROVE Q!Allocate
    <3>1. queue # <<>> /\ free_socket = queue[1]
      BY <2>1 DEF CreateSocket, ListInv, LinksSpellQueue
    <3>2. Head(queue) = free_socket /\ free_socket \in Slots
      BY <3>1, TailOfQueue DEF ListInv, TypeOK
    <3>3. FreeSlots' = FreeSlots \ {free_socket}
      BY <2>1, <3>2 DEF CreateSocket, ListInv, TypeOK
    <3>4. queue' = Tail(queue)
      BY <2>1 DEF CreateSocket
    <3>5. (Slots \ FreeSlots)' = (Slots \ FreeSlots) \cup {Head(queue)}
      BY <3>2, <3>3
    <3> QED
      BY <3>1, <3>4, <3>5 DEF Q!Allocate
  <2>2. ASSUME NEW s \in Slots, CloseSocket(s) PROVE s \in Slots \ FreeSlots /\ Q!Release(s)
    <3>1. s \in Slots \ FreeSlots
      BY <2>2 DEF CloseSocket
    <3>2. FreeSlots' = FreeSlots \cup {s}
      BY <2>2 DEF CloseSocket, ListInv, TypeOK
    <3>3. queue' = Append(queue, s)
      BY <2>2 DEF CloseSocket
    <3> QED
      BY <3>1, <3>2, <3>3 DEF Q!Release
  <2>3. CASE UNCHANGED vars
    BY <2>3 DEF vars
  <2> QED
    BY <2>1, <2>2, <2>3 DEF Next, Q!Next
<1> QED
  BY <1>1, <1>2, ListCorrect, PTL DEF Spec, ImplementsQueue, Q!Spec
=============================================================================
