----------------------------- MODULE Net_proofs -----------------------------
(***************************************************************************)
(* Theorems about Net, for every size of the table, every set of           *)
(* descriptors, every limit and every fault.  The first part is about the  *)
(* table, its list of free slots and the descriptors.  The second, which   *)
(* rests on the invariant of the first, is about what waits: a connect for *)
(* its outcome, data for the socket to be writable, a half closed socket   *)
(* for its last byte, and an event for its iteration of socket_poll.       *)
(***************************************************************************)
EXTENDS Net, QueueLemmas, FiniteSetTheorems

\* Only descriptors above STDERR_FILENO are ever closed.
StdOpen == \A f \in StdFds : os[f] = "conn"

\* The conjuncts depend on each other: a descriptor that is opened was in no
\* slot, so that nothing is registered for it; a slot taken from the list
\* was in no use.
TableInv ==
  /\ TableOK
  /\ KernelOK
  /\ FreeIsInvalid
  /\ SingleOwner
  /\ InterestRegistered
  /\ NoLeakPossible => NoFdLeak
  /\ StdOpen

Inv == TableInv /\ LoopOK

-----------------------------------------------------------------------------
(***************************************************************************)
(* The head of a list is one of its members, and the tail lists the rest.  *)
(***************************************************************************)
LEMMA ListsTail ==
  ASSUME NEW S, NEW F, NEW q \in Seq(S), q # <<>>, Lists(q, F)
  PROVE  Head(q) \in F /\ Lists(Tail(q), F \ {Head(q)})
<1>1. /\ Len(Tail(q)) = Len(q) - 1 /\ Len(q) \in Nat \ {0}
      /\ Head(q) = q[1]
      /\ \A i \in 1 .. Len(q) - 1 : Tail(q)[i] = q[i+1]
  BY TailOfQueue
<1>2. Head(q) \in F
  BY <1>1 DEF Lists
<1>3. ASSUME NEW i \in 1 .. Len(Tail(q)) PROVE Tail(q)[i] \in F \ {Head(q)}
  <2>1. i + 1 \in 1 .. Len(q) /\ 1 \in 1 .. Len(q) /\ i + 1 # 1 /\ Tail(q)[i] = q[i + 1]
    BY <1>1
  <2> QED
    BY <1>1, <2>1 DEF Lists
<1>4. ASSUME NEW s \in F \ {Head(q)} PROVE \E i \in 1 .. Len(Tail(q)) : Tail(q)[i] = s
  <2>1. PICK j \in 1 .. Len(q) : q[j] = s
    BY DEF Lists
  <2>2. j # 1
    BY <1>1, <2>1
  <2>3. j - 1 \in 1 .. Len(Tail(q)) /\ Tail(q)[j - 1] = s
    BY <1>1, <2>1, <2>2
  <2> QED
    BY <2>3
<1>5. ASSUME NEW i \in 1 .. Len(Tail(q)), NEW j \in 1 .. Len(Tail(q)), Tail(q)[i] = Tail(q)[j]
      PROVE  i = j
  <2>1. /\ i + 1 \in 1 .. Len(q) /\ j + 1 \in 1 .. Len(q)
        /\ q[i + 1] = q[j + 1]
    BY <1>1, <1>5
  <2>2. i + 1 = j + 1
    BY <2>1 DEF Lists
  <2> QED
    BY <2>2
<1> QED
  BY <1>2, <1>3, <1>4, <1>5 DEF Lists

(***************************************************************************)
(* Appending a new member.                                                 *)
(***************************************************************************)
LEMMA ListsAppend ==
  ASSUME NEW S, NEW F, NEW q \in Seq(S), NEW e \in S, e \notin F, Lists(q, F)
  PROVE  Lists(Append(q, e), F \cup {e})
<1>1. /\ Len(Append(q, e)) = Len(q) + 1 /\ Len(q) \in Nat
      /\ \A i \in 1 .. Len(q) : Append(q, e)[i] = q[i]
      /\ Append(q, e)[Len(q) + 1] = e
  BY AppendToQueue
<1>2. \A i \in 1 .. Len(Append(q, e)) : i \in 1 .. Len(q) \/ i = Len(q) + 1
  BY <1>1
<1>3. \A i \in 1 .. Len(q) : i \in 1 .. Len(Append(q, e)) /\ Append(q, e)[i] \in F
  BY <1>1 DEF Lists
<1>4. \A s \in F : \E i \in 1 .. Len(Append(q, e)) : Append(q, e)[i] = s
  BY <1>1, <1>3 DEF Lists
<1>5. Len(q) + 1 \in 1 .. Len(Append(q, e))
  BY <1>1
<1>6. ASSUME NEW i \in 1 .. Len(Append(q, e)), NEW j \in 1 .. Len(Append(q, e)),
             Append(q, e)[i] = Append(q, e)[j]
      PROVE  i = j
  <2>1. CASE i \in 1 .. Len(q) /\ j \in 1 .. Len(q)
    BY <1>1, <1>6, <2>1 DEF Lists
  <2>2. CASE i = Len(q) + 1 /\ j \in 1 .. Len(q)
    BY <1>1, <1>3, <1>6, <2>2
  <2>3. CASE i \in 1 .. Len(q) /\ j = Len(q) + 1
    BY <1>1, <1>3, <1>6, <2>3
  <2> QED
    BY <1>2, <2>1, <2>2, <2>3
<1> QED
  BY <1>1, <1>2, <1>3, <1>4, <1>5, <1>6 DEF Lists

-----------------------------------------------------------------------------
(***************************************************************************)
(* net_create establishes the invariant.                                   *)
(***************************************************************************)
LEMMA InitInv == Init => Inv
<1> SUFFICES ASSUME Init PROVE Inv
  OBVIOUS
<1> USE NetAssumption DEF Init, Slots, NoSlot
<1>1. /\ free \in [1 .. Max -> Slots] /\ free \in Seq(Slots)
      /\ Len(free) = Max /\ \A i \in 1 .. Max : free[i] = i - 1
  <2>1. free \in [1 .. Max -> Slots] /\ \A i \in 1 .. Max : free[i] = i - 1
    OBVIOUS
  <2>2. free \in Seq(Slots)
    BY <2>1, SeqDef
  <2> QED
    BY <2>1, <2>2, LenProperties
<1>2. Live = {}
  BY DEF Live
<1>3. FreeIsInvalid
  <2>1. \A s \in Slots : s + 1 \in 1 .. Len(free) /\ free[s + 1] = s
    BY <1>1
  <2>2. \A i \in 1 .. Len(free) : free[i] \in Slots
    BY <1>1
  <2>3. \A i, j \in 1 .. Len(free) : free[i] = free[j] => i = j
    BY <1>1
  <2> QED
    BY <1>2, <2>1, <2>2, <2>3 DEF FreeIsInvalid, Lists
<1>4. TableOK
  BY <1>1 DEF TableOK, Status, Protocols
<1>5. KernelOK
  BY DEF KernelOK, Kinds
<1>6. LoopOK
  BY EmptySeq DEF LoopOK
<1> QED
  BY <1>2, <1>3, <1>4, <1>5, <1>6
     DEF Inv, TableInv, SingleOwner, InterestRegistered, NoFdLeak, StdOpen

-----------------------------------------------------------------------------
(* One lemma per operator that changes the table.                          *)

(***************************************************************************)
(* A new socket takes the first free slot.  Its descriptor is in no slot   *)
(* and open from now on; stdin comes with no interest.                     *)
(***************************************************************************)
LEMMA CreateInv ==
  ASSUME TableInv,
         NEW f \in Fds, \A s \in Live : fd[s] # f,
         NEW kind \in Kinds, kind # "closed",
         NEW st \in Status, st # "INVALID",
         NEW p \in Protocols,
         NEW lim \in 0 .. INT_MAX,
         NEW m \in SUBSET Interest, f \in StdFds => m = {} /\ kind = "conn",
         CreateSocket(f, kind, st, p, lim, m)
  PROVE  TableInv'
<1> DEFINE n == Head(free)
<1> USE DEF TableInv
<1>1. /\ n \in Slots /\ n \notin Live
      /\ free' \in Seq(Slots)
      /\ Lists(free', (Slots \ Live) \ {n})
  <2>1. free # <<>> /\ free \in Seq(Slots) /\ free' = Tail(free)
    BY DEF CreateSocket, TableOK
  <2>2. Lists(free, Slots \ Live)
    BY DEF FreeIsInvalid
  <2>3. n \in Slots \ Live /\ Lists(Tail(free), (Slots \ Live) \ {n})
    BY <2>1, <2>2, ListsTail
  <2>4. Tail(free) \in Seq(Slots)
    BY <2>1, TailOfQueue
  <2> QED
    BY <2>1, <2>3, <2>4
<1>2. /\ status' = [status EXCEPT ![n] = st]
      /\ fd' = [fd EXCEPT ![n] = f]
      /\ protocol' = [protocol EXCEPT ![n] = p]
      /\ mask' = [mask EXCEPT ![n] = m]
      /\ sbuffersz' = [sbuffersz EXCEPT ![n] = 0]
      /\ slimit' = [slimit EXCEPT ![n] = lim]
      /\ os' = [os EXCEPT ![f] = kind]
      /\ ep_ud' = IF m = {} THEN ep_ud ELSE [ep_ud EXCEPT ![f] = n]
      /\ ep_mask' = IF m = {} THEN ep_mask ELSE [ep_mask EXCEPT ![f] = m]
  BY DEF CreateSocket
<1>3. Live' = Live \cup {n}
  BY <1>1, <1>2 DEF Live, TableOK
<1>4. TableOK'
  BY <1>1, <1>2, NetAssumption DEF TableOK
<1>5. KernelOK'
  BY <1>1, <1>2 DEF KernelOK
<1>6. FreeIsInvalid'
  <2>1. Slots \ Live' = (Slots \ Live) \ {n}
    BY <1>3
  <2> QED
    BY <1>1, <2>1 DEF FreeIsInvalid
<1>7. SingleOwner'
  BY <1>1, <1>2, <1>3, NetAssumption DEF SingleOwner, TableOK, KernelOK
<1>8. InterestRegistered'
  <2>1. f \notin StdFds => ep_ud[f] = NoSlot /\ ep_mask[f] = {}
    BY DEF InterestRegistered
  <2>2. ASSUME NEW s \in Live', fd'[s] \notin StdFds
        PROVE  /\ ep_mask'[fd'[s]] = mask'[s]
               /\ ep_ud'[fd'[s]] = IF mask'[s] = {} THEN NoSlot ELSE s
    <3>1. CASE s = n
      BY <1>1, <1>2, <2>1, <2>2, <3>1 DEF TableOK, KernelOK
    <3>2. CASE s # n
      <4>1. s \in Live /\ fd'[s] = fd[s] /\ mask'[s] = mask[s] /\ fd[s] # f
        BY <1>1, <1>2, <1>3, <2>2, <3>2 DEF TableOK
      <4>2. fd[s] \in Fds
        BY <4>1 DEF TableOK, SingleOwner, Live
      <4> QED
        BY <1>2, <2>2, <4>1, <4>2 DEF InterestRegistered, KernelOK
    <3> QED
      BY <3>1, <3>2
  <2>3. ASSUME NEW g \in Fds \ StdFds, \A s \in Live' : fd'[s] # g
        PROVE  ep_ud'[g] = NoSlot /\ ep_mask'[g] = {}
    <3>1. g # f /\ \A s \in Live : fd[s] # g
      BY <1>1, <1>2, <1>3, <2>3 DEF TableOK, Live
    <3> QED
      BY <1>2, <3>1 DEF InterestRegistered, KernelOK
  <2> QED
    BY <2>2, <2>3 DEF InterestRegistered
<1>9. NoLeakPossible => NoFdLeak'
  <2> SUFFICES ASSUME NoLeakPossible, NEW g \in Fds \ StdFds, os'[g] # "closed"
               PROVE  \E s \in Live' : fd'[s] = g
    BY DEF NoFdLeak
  <2>1. CASE g = f
    BY <1>1, <1>2, <1>3, <2>1 DEF TableOK
  <2>2. CASE g # f
    <3>1. os[g] # "closed"
      BY <1>2, <2>2 DEF KernelOK
    <3>2. PICK s \in Live : fd[s] = g
      BY <3>1 DEF NoFdLeak
    <3> QED
      BY <1>1, <1>2, <1>3, <3>2 DEF TableOK, Live
  <2> QED
    BY <2>1, <2>2
<1>10. StdOpen'
  BY <1>2, NetAssumption DEF StdOpen, KernelOK
<1> QED
  BY <1>4, <1>5, <1>6, <1>7, <1>8, <1>9, <1>10 DEF NoLeakPossible

(***************************************************************************)
(* A socket that is created and closed in one call moves to the end.       *)
(***************************************************************************)
LEMMA RotateInv ==
  ASSUME TableInv,
         NEW p \in Protocols, NEW lim \in 0 .. INT_MAX,
         CreateThenClose(p, lim)
  PROVE  TableInv'
<1> DEFINE n == Head(free)
<1> USE DEF TableInv
<1>1. /\ n \in Slots \ Live
      /\ free' \in Seq(Slots)
      /\ Lists(free', Slots \ Live)
  <2>1. free # <<>> /\ free \in Seq(Slots) /\ free' = Append(Tail(free), n)
    BY DEF CreateThenClose, TableOK
  <2>2. n \in Slots \ Live /\ Lists(Tail(free), (Slots \ Live) \ {n})
    BY <2>1, ListsTail DEF FreeIsInvalid
  <2>3. Tail(free) \in Seq(Slots)
    BY <2>1, TailOfQueue
  <2>4. Append(Tail(free), n) \in Seq(Slots)
    BY <2>2, <2>3, AppendToQueue
  <2>5. Lists(Append(Tail(free), n), ((Slots \ Live) \ {n}) \cup {n})
    BY <2>2, <2>3, ListsAppend
  <2>6. ((Slots \ Live) \ {n}) \cup {n} = Slots \ Live
    BY <2>2
  <2> QED
    BY <2>1, <2>2, <2>4, <2>5, <2>6
<1>2. /\ protocol' = [protocol EXCEPT ![n] = p]
      /\ mask' = [mask EXCEPT ![n] = {}]
      /\ slimit' = [slimit EXCEPT ![n] = lim]
      /\ UNCHANGED <<status, fd, sbuffersz, os, ep_ud, ep_mask>>
  BY DEF CreateThenClose, kernel
<1>3. Live' = Live
  BY <1>2 DEF Live
<1>4. \A s \in Live : mask'[s] = mask[s]
  BY <1>1, <1>2 DEF TableOK, Live
<1>5. TableOK' /\ KernelOK'
  BY <1>1, <1>2 DEF TableOK, KernelOK
<1>6. FreeIsInvalid' /\ SingleOwner'
  BY <1>1, <1>2, <1>3 DEF FreeIsInvalid, SingleOwner
<1>7. InterestRegistered' /\ (NoLeakPossible => NoFdLeak')
  BY <1>2, <1>3, <1>4 DEF InterestRegistered, NoFdLeak
<1> QED
  BY <1>2, <1>5, <1>6, <1>7 DEF NoLeakPossible, StdOpen

(***************************************************************************)
(* A socket is closed: the kernel forgets its descriptor, or, for stdin,   *)
(* keeps it, whatever happens to its registration.                         *)
(***************************************************************************)
LEMMA CloseInv ==
  ASSUME TableInv, NEW s \in Live,
         FreeSlot(s),
         mask' \in [Slots -> SUBSET Interest],
         \A t \in Slots \ {s} : mask'[t] = mask[t],
         \/ fd[s] \notin StdFds /\ CloseFd(fd[s])
         \/ /\ fd[s] \in StdFds
            /\ KernelOK'
            /\ os' = os
            /\ \A f \in Fds \ {fd[s]} : ep_ud'[f] = ep_ud[f] /\ ep_mask'[f] = ep_mask[f]
  PROVE  TableInv'
<1> USE DEF TableInv
<1>0. s \in Slots /\ fd[s] \in Fds
  BY DEF Live, SingleOwner, TableOK
<1>1. /\ status' = [status EXCEPT ![s] = "INVALID"]
      /\ fd' = [fd EXCEPT ![s] = NoFd]
      /\ sbuffersz' = [sbuffersz EXCEPT ![s] = 0]
      /\ free' = Append(free, s)
      /\ UNCHANGED <<protocol, slimit>>
  BY DEF FreeSlot
<1>2. Live' = Live \ {s}
  BY <1>0, <1>1 DEF Live, TableOK
<1>3. free' \in Seq(Slots)
  BY <1>0, <1>1, AppendToQueue DEF TableOK
<1>4. TableOK'
  BY <1>0, <1>1, <1>3, NetAssumption DEF TableOK, Status
<1>5. KernelOK'
  BY <1>0 DEF KernelOK, CloseFd, Kinds
<1>6. FreeIsInvalid'
  <2>1. Lists(Append(free, s), (Slots \ Live) \cup {s})
    BY <1>0, ListsAppend DEF FreeIsInvalid, TableOK
  <2>2. Slots \ Live' = (Slots \ Live) \cup {s}
    BY <1>0, <1>2
  <2> QED
    BY <1>1, <2>1, <2>2 DEF FreeIsInvalid
<1>7. \A t \in Live' : t \in Live /\ fd'[t] = fd[t] /\ fd[t] # fd[s] /\ mask'[t] = mask[t]
                       /\ t \in Slots /\ fd[t] \in Fds
  BY <1>0, <1>1, <1>2 DEF SingleOwner, TableOK, Live
<1>8. \A f \in Fds \ {fd[s]} : os'[f] = os[f] /\ ep_ud'[f] = ep_ud[f] /\ ep_mask'[f] = ep_mask[f]
  BY <1>0 DEF CloseFd, KernelOK
<1>9. SingleOwner'
  <2>1. \A t \in Slots : fd'[t] = NoFd <=> t \notin Live'
    BY <1>0, <1>1, <1>2 DEF SingleOwner, TableOK
  <2>2. \A t, u \in Live' : fd'[t] = fd'[u] => t = u
    BY <1>7 DEF SingleOwner
  <2>3. \A t \in Live' : os'[fd'[t]] # "closed"
    BY <1>7, <1>8 DEF SingleOwner
  <2> QED
    BY <2>1, <2>2, <2>3 DEF SingleOwner
<1>10. InterestRegistered'
  <2>1. \A t \in Live' : fd'[t] \notin StdFds =>
          /\ ep_mask'[fd'[t]] = mask'[t]
          /\ ep_ud'[fd'[t]] = IF mask'[t] = {} THEN NoSlot ELSE t
    BY <1>7, <1>8 DEF InterestRegistered
  <2>2. ASSUME NEW f \in Fds \ StdFds, \A t \in Live' : fd'[t] # f
        PROVE  ep_ud'[f] = NoSlot /\ ep_mask'[f] = {}
    <3>1. CASE f = fd[s]
      BY <1>0, <3>1 DEF CloseFd, KernelOK
    <3>2. CASE f # fd[s]
      <4>1. \A t \in Live : fd[t] # f
        BY <1>2, <1>7, <2>2, <3>2
      <4> QED
        BY <1>8, <3>2, <4>1 DEF InterestRegistered
    <3> QED
      BY <3>1, <3>2
  <2> QED
    BY <2>1, <2>2 DEF InterestRegistered
<1>11. NoLeakPossible => NoFdLeak'
  <2> SUFFICES ASSUME NoLeakPossible, NEW f \in Fds \ StdFds, os'[f] # "closed"
               PROVE  \E t \in Live' : fd'[t] = f
    BY DEF NoFdLeak
  <2>1. f # fd[s]
    BY <1>0 DEF CloseFd, KernelOK
  <2>2. PICK t \in Live : fd[t] = f
    BY <1>8, <2>1 DEF NoFdLeak
  <2>3. t \in Live'
    BY <1>2, <2>1, <2>2
  <2> QED
    BY <1>7, <2>2, <2>3
<1>12. StdOpen'
  BY <1>0, <1>8, NetAssumption DEF StdOpen
<1> QED
  BY <1>4, <1>5, <1>6, <1>9, <1>10, <1>11, <1>12 DEF NoLeakPossible

(***************************************************************************)
(* The ordinary case of the above, _close_socket.                          *)
(***************************************************************************)
LEMMA CloseSocketInv ==
  ASSUME TableInv, NEW s \in Live, CloseSocket(s)
  PROVE  TableInv'
<1>1. FreeSlot(s) /\ mask' = mask
  BY DEF CloseSocket
<1>2. mask' \in [Slots -> SUBSET Interest]
  BY <1>1 DEF TableInv, TableOK
<1>3. \/ fd[s] \notin StdFds /\ CloseFd(fd[s])
      \/ fd[s] \in StdFds /\ UNCHANGED <<os, ep_ud, ep_mask>>
  BY DEF CloseSocket, kernel
<1>4. UNCHANGED <<os, ep_ud, ep_mask>> => KernelOK'
  BY DEF TableInv, KernelOK
<1> QED
  BY <1>1, <1>2, <1>3, <1>4, CloseInv

(***************************************************************************)
(* The mask that _subscribe leaves.                                        *)
(***************************************************************************)
LEMMA MaskAfter ==
  ASSUME TableOK, NEW s \in Slots, NEW m \in SUBSET Interest,
         Subscribe(s, m) \/ mask' = [mask EXCEPT ![s] = m] \/ UNCHANGED mask
  PROVE  /\ mask' \in [Slots -> SUBSET Interest]
         /\ \A t \in Slots \ {s} : mask'[t] = mask[t]
<1>1. mask' = [mask EXCEPT ![s] = m] \/ UNCHANGED mask
  BY DEF Subscribe
<1> QED
  BY <1>1 DEF TableOK

(***************************************************************************)
(* _subscribe, and whatever else the caller does to live sockets without   *)
(* closing any of them.                                                    *)
(***************************************************************************)
LEMMA SubscribeInv ==
  ASSUME TableInv, NEW s \in Live, NEW m \in SUBSET Interest,
         Subscribe(s, m),
         UNCHANGED <<fd, free, os>>,
         TableOK',
         Live' = Live
  PROVE  TableInv' /\ KernelOK'
<1> USE DEF TableInv
<1>0. s \in Slots /\ fd[s] \in Fds
  BY DEF Live, SingleOwner, TableOK
<1>1. CASE UNCHANGED <<mask, ep_ud, ep_mask>>
  BY <1>1 DEF TableOK, KernelOK, FreeIsInvalid, SingleOwner, InterestRegistered,
              NoFdLeak, NoLeakPossible, StdOpen
<1>2. CASE /\ mask' = [mask EXCEPT ![s] = m]
           /\ ep_ud' = [ep_ud EXCEPT ![fd[s]] = IF m = {} THEN NoSlot ELSE s]
           /\ ep_mask' = [ep_mask EXCEPT ![fd[s]] = m]
  <2>1. KernelOK'
    BY <1>0, <1>2 DEF KernelOK
  <2>2. FreeIsInvalid' /\ SingleOwner' /\ (NoLeakPossible => NoFdLeak')
    BY DEF FreeIsInvalid, SingleOwner, NoFdLeak
  <2>3. \A t \in Live : /\ t \in Slots /\ fd[t] \in Fds
                        /\ t # s => fd[t] # fd[s]
    BY DEF Live, SingleOwner, TableOK
  <2>4. InterestRegistered'
    <3>1. /\ mask'[s] = m /\ \A t \in Slots \ {s} : mask'[t] = mask[t]
          /\ ep_mask'[fd[s]] = m /\ \A f \in Fds \ {fd[s]} : ep_mask'[f] = ep_mask[f]
          /\ ep_ud'[fd[s]] = IF m = {} THEN NoSlot ELSE s
          /\ \A f \in Fds \ {fd[s]} : ep_ud'[f] = ep_ud[f]
      BY <1>0, <1>2 DEF TableOK, KernelOK
    <3>2. ASSUME NEW t \in Live, fd[t] \notin StdFds
          PROVE  ep_mask'[fd[t]] = mask'[t]
                 /\ ep_ud'[fd[t]] = IF mask'[t] = {} THEN NoSlot ELSE t
      <4>1. CASE t = s
        BY <3>1, <4>1
      <4>2. CASE t # s
        BY <2>3, <3>1, <3>2, <4>2 DEF InterestRegistered
      <4> QED
        BY <4>1, <4>2
    <3>3. ASSUME NEW f \in Fds \ StdFds, \A t \in Live : fd[t] # f
          PROVE  ep_ud'[f] = NoSlot /\ ep_mask'[f] = {}
      BY <3>1, <3>3 DEF InterestRegistered
    <3> QED
      BY <3>2, <3>3 DEF InterestRegistered
  <2> QED
    BY <2>1, <2>2, <2>4 DEF NoLeakPossible, StdOpen
<1> QED
  BY <1>1, <1>2 DEF Subscribe

(***************************************************************************)
(* What leaves descriptors, masks and the kernel alone keeps the invariant.*)
(***************************************************************************)
LEMMA SameKernelInv ==
  ASSUME TableInv, UNCHANGED <<fd, mask, free, kernel>>, TableOK', Live' = Live
  PROVE  TableInv'
BY DEF TableInv, kernel, KernelOK, FreeIsInvalid, SingleOwner, InterestRegistered,
       NoFdLeak, NoLeakPossible, StdOpen

-----------------------------------------------------------------------------
(* The calls of the API.                                                   *)

(***************************************************************************)
(* A descriptor that is closed is in no slot, nor is it a standard one.    *)
(***************************************************************************)
LEMMA ClosedIsFree ==
  ASSUME TableInv, NEW f \in Fds, os[f] = "closed"
  PROVE  f \notin StdFds /\ \A s \in Live : fd[s] # f
BY DEF TableInv, StdOpen, SingleOwner

(***************************************************************************)
(* socket_bind, socket_listen and socket_connect.                          *)
(***************************************************************************)
LEMMA OpenInv ==
  ASSUME TableInv, NEW f \in Fds,
         \/ \E p \in BindProtocols : Bind(f, p)
         \/ Listen(f)
         \/ \E block \in Blocking : Connect(f, block)
  PROVE  TableInv'
<1> USE NetAssumption
<1>0. INT_MAX \in 0 .. INT_MAX /\ "TCP" \in Protocols
  BY DEF Protocols
<1>1. CASE \E p \in BindProtocols : Bind(f, p)
  <2> PICK p \in BindProtocols : Bind(f, p)
    BY <1>1
  <2>1. p \in Protocols /\ \A s \in Live : fd[s] # f
    BY DEF Bind, Protocols
  <2>2. CASE CreateSocket(f, "conn", "BIND", p, INT_MAX, {})
    BY <1>0, <2>1, <2>2, CreateInv DEF Kinds, Status
  <2>3. CASE CreateThenClose(p, INT_MAX)
    BY <1>0, <2>1, <2>3, RotateInv
  <2> QED
    BY <2>2, <2>3 DEF Bind
<1>2. CASE Listen(f)
  <2>1. f \notin StdFds /\ \A s \in Live : fd[s] # f
    BY <1>2, ClosedIsFree DEF Listen
  <2>2. CASE CreateSocket(f, "listen", "LISTENING", "TCP", INT_MAX, {"R"})
    BY <1>0, <2>1, <2>2, CreateInv DEF Kinds, Status, Interest
  <2>3. CASE CreateThenClose("TCP", INT_MAX)
    BY <1>0, <2>3, RotateInv
  <2> QED
    BY <1>2, <2>2, <2>3 DEF Listen
<1>3. CASE \E block \in Blocking : Connect(f, block)
  <2> PICK block \in Blocking : Connect(f, block)
    BY <1>3
  <2>1. f \notin StdFds /\ \A s \in Live : fd[s] # f
    BY ClosedIsFree DEF Connect
  <2>2. CASE CreateSocket(f, "conn", "CONNECTED", "TCP", INT_MAX, {})
    BY <1>0, <2>1, <2>2, CreateInv DEF Kinds, Status
  <2>3. CASE CreateSocket(f, "connecting", "CONNECTING", "TCP", INT_MAX, Interest)
    BY <1>0, <2>1, <2>3, CreateInv DEF Kinds, Status
  <2>4. CASE CreateThenClose("TCP", INT_MAX)
    BY <1>0, <2>4, RotateInv
  <2>5. CASE /\ block
             /\ "nonblock" \in Faults
             /\ os' = [os EXCEPT ![f] = "conn"]
             /\ UNCHANGED <<table, ep_ud, ep_mask>>
    <3>1. ~NoLeakPossible
      BY <2>5 DEF NoLeakPossible
    <3>2. UNCHANGED <<status, fd, protocol, mask, sbuffersz, slimit, free>> /\ Live' = Live
      BY <2>5 DEF table, Live
    <3>3. TableOK' /\ KernelOK'
      BY <2>5, <3>2 DEF TableInv, TableOK, KernelOK, Kinds
    <3>4. \A s \in Live : fd[s] \in Fds
      BY DEF TableInv, TableOK, SingleOwner, Live
    <3>5. FreeIsInvalid' /\ SingleOwner' /\ InterestRegistered' /\ StdOpen'
      BY <2>5, <3>2, <3>4
         DEF TableInv, KernelOK, FreeIsInvalid, SingleOwner, InterestRegistered, StdOpen
    <3> QED
      BY <3>1, <3>3, <3>5 DEF TableInv, NoLeakPossible
  <2> QED
    BY <2>2, <2>3, <2>4, <2>5 DEF Connect
<1> QED
  BY <1>1, <1>2, <1>3

(***************************************************************************)
(* socket_send and socket_sendfd.                                          *)
(***************************************************************************)
LEMMA TransmitInv ==
  ASSUME TableInv, NEW s \in Live, NEW sz \in 1 .. INT_MAX, Transmit(s, sz)
  PROVE  TableInv'
<1> USE NetAssumption
<1>0. s \in Slots /\ sbuffersz[s] \in 0 .. INT_MAX /\ mask[s] \in SUBSET Interest
  BY DEF TableInv, TableOK, Live
<1>1. ASSUME NEW n \in 1 .. INT_MAX, Enqueue(s, n) PROVE TableInv'
  <2>1. CASE CloseSocket(s)
    BY <2>1, CloseSocketInv
  <2>2. CASE /\ sbuffersz' = [sbuffersz EXCEPT ![s] = @ + n]
             /\ IF sbuffersz[s] = 0 THEN Subscribe(s, mask[s] \cup {"W"})
                ELSE UNCHANGED <<mask, ep_ud, ep_mask>>
             /\ UNCHANGED <<status, fd, protocol, slimit, free, os>>
    <3>1. Subscribe(s, mask[s] \cup {"W"}) \/ Subscribe(s, mask[s])
      BY <2>2 DEF Subscribe
    <3>2. sbuffersz[s] + n \in 0 .. INT_MAX
      BY <1>0, <1>1 DEF Enqueue
    <3>3. mask' \in [Slots -> SUBSET Interest]
      BY <1>0, <2>2 DEF Subscribe, TableInv, TableOK, Interest
    <3>4. TableOK' /\ Live' = Live
      BY <1>0, <2>2, <3>2, <3>3 DEF TableInv, TableOK, Live
    <3> QED
      BY <1>0, <2>2, <3>1, <3>4, SubscribeInv DEF Interest
  <2> QED
    BY <1>1, <2>1, <2>2 DEF Enqueue
<1>2. ASSUME NEW n \in Written(fd[s], sz) \ {sz} PROVE sz - n \in 1 .. INT_MAX
  <2>1. n \in 0 .. sz
    BY DEF Written
  <2> QED
    BY <1>2, <2>1
<1>3. CASE \E n \in Written(fd[s], sz) \ {sz} : Enqueue(s, sz - n)
  BY <1>1, <1>2, <1>3
<1>4. CASE CloseSocket(s)
  BY <1>4, CloseSocketInv
<1>5. CASE Enqueue(s, sz)
  BY <1>1, <1>5
<1> QED
  BY <1>3, <1>4, <1>5 DEF Transmit

(***************************************************************************)
(* net_free and net_create.                                                *)
(***************************************************************************)
LEMMA ReinitInv == ASSUME TableInv, Reinit PROVE TableInv'
<1> USE NetAssumption DEF Reinit, Slots, NoSlot
<1>1. /\ free' \in Seq(Slots) /\ Len(free') = Max
      /\ \A i \in 1 .. Max : free'[i] = i - 1
  <2>1. free' \in [1 .. Max -> Slots] /\ \A i \in 1 .. Max : free'[i] = i - 1
    OBVIOUS
  <2>2. free' \in Seq(Slots)
    BY <2>1, SeqDef
  <2> QED
    BY <2>1, <2>2, LenProperties
<1>2. Live' = {}
  BY DEF Live
<1>3. FreeIsInvalid'
  <2>1. \A s \in Slots : s + 1 \in 1 .. Len(free') /\ free'[s + 1] = s
    BY <1>1
  <2>2. \A i \in 1 .. Len(free') : free'[i] \in Slots
    BY <1>1
  <2>3. \A i, j \in 1 .. Len(free') : free'[i] = free'[j] => i = j
    BY <1>1
  <2> QED
    BY <1>2, <2>1, <2>2, <2>3 DEF FreeIsInvalid, Lists
<1>4. TableOK'
  BY <1>1 DEF TableInv, TableOK, Status
<1>5. KernelOK'
  BY DEF TableInv, KernelOK, Kinds
<1>6. NoLeakPossible => NoFdLeak'
  BY DEF TableInv, NoFdLeak
<1>7. StdOpen'
  BY DEF TableInv, StdOpen
<1>8. SingleOwner' /\ InterestRegistered'
  BY <1>2 DEF SingleOwner, InterestRegistered
<1> QED
  BY <1>3, <1>4, <1>5, <1>6, <1>7, <1>8 DEF TableInv, NoLeakPossible

(***************************************************************************)
(* Every call of the API.                                                  *)
(***************************************************************************)
LEMMA CallInv == ASSUME TableInv, Call PROVE TableInv'
<1> USE NetAssumption
<1>0. ASSUME NEW s \in Live PROVE s \in Slots /\ mask[s] \in SUBSET Interest
  BY DEF TableInv, TableOK, Live
<1>1. ASSUME NEW s \in Live, NEW read \in BOOLEAN, EnableRead(s, read) PROVE TableInv'
  <2> DEFINE m == (mask[s] \cap {"W"}) \cup (IF read THEN {"R"} ELSE {})
  <2>1. m \in SUBSET Interest
    BY <1>0 DEF Interest
  <2>2. mask' \in [Slots -> SUBSET Interest]
    BY <1>0, <1>1, <2>1 DEF EnableRead, Subscribe, TableInv, TableOK
  <2>3. TableOK' /\ Live' = Live
    BY <1>1, <2>2 DEF EnableRead, TableInv, TableOK, Live
  <2> QED
    BY <1>1, <2>1, <2>3, SubscribeInv DEF EnableRead
<1>2. ASSUME NEW s \in Live, NEW sz \in 1 .. INT_MAX, Send(s, sz) \/ SendFd(s, sz)
      PROVE  TableInv'
  BY <1>2, TransmitInv DEF Send, SendFd
<1>3. ASSUME NEW s \in Live, Read(s) PROVE TableInv'
  BY <1>3, CloseSocketInv DEF Read
<1>4. ASSUME NEW s \in Live, NEW force \in BOOLEAN, Close(s, force) PROVE TableInv'
  <2>1. CASE CloseSocket(s)
    BY <2>1, CloseSocketInv
  <2>2. CASE /\ status' = [status EXCEPT ![s] = "HALFCLOSE"]
             /\ UNCHANGED <<fd, protocol, mask, sbuffersz, slimit, free, kernel>>
    <3>1. TableOK' /\ Live' = Live
      BY <2>2, <1>0 DEF TableInv, TableOK, Live, Status
    <3> QED
      BY <2>2, <3>1, SameKernelInv
  <2> QED
    BY <1>4, <2>1, <2>2 DEF Close
<1>5. ASSUME NEW s \in Live, NEW lim \in Limits \cup {INT_MAX}, Limit(s, lim) PROVE TableInv'
  <2>1. TableOK' /\ Live' = Live
    BY <1>5, <1>0 DEF Limit, TableInv, TableOK, Live
  <2> QED
    BY <1>5, <2>1, SameKernelInv DEF Limit
<1> QED
  BY <1>1, <1>2, <1>3, <1>4, <1>5, OpenInv, ReinitInv DEF Call

-----------------------------------------------------------------------------
(* The kernel and socket_poll.                                             *)

(***************************************************************************)
(* The kernel decides a connection.                                        *)
(***************************************************************************)
LEMMA KernelConnectInv ==
  ASSUME TableInv, NEW f \in Fds, KernelConnect(f)
  PROVE  TableInv'
<1> PICK result \in {"conn", "failed"} : os' = [os EXCEPT ![f] = result]
  BY DEF KernelConnect
<1>1. UNCHANGED <<status, fd, protocol, mask, sbuffersz, slimit, free, ep_ud, ep_mask>>
      /\ os[f] = "connecting"
  BY DEF KernelConnect, table
<1>2. TableOK' /\ KernelOK' /\ Live' = Live
  BY <1>1 DEF TableInv, TableOK, KernelOK, Kinds, Live
<1>3. \A g \in Fds : /\ os'[g] = "closed" <=> os[g] = "closed"
                     /\ g \in StdFds => os'[g] = os[g]
  BY <1>1, NetAssumption DEF TableInv, KernelOK, StdOpen
<1>4. \A s \in Live : fd[s] \in Fds
  BY DEF TableInv, TableOK, SingleOwner, Live
<1>5. FreeIsInvalid' /\ SingleOwner' /\ InterestRegistered'
  BY <1>1, <1>2, <1>3, <1>4 DEF TableInv, FreeIsInvalid, SingleOwner, InterestRegistered
<1>6. (NoLeakPossible => NoFdLeak') /\ StdOpen'
  BY <1>1, <1>2, <1>3, NetAssumption DEF TableInv, NoFdLeak, StdOpen
<1> QED
  BY <1>2, <1>5, <1>6 DEF TableInv, NoLeakPossible

(***************************************************************************)
(* One iteration of the loop of socket_poll, the table's side.             *)
(***************************************************************************)
LEMMA PollEventInv ==
  ASSUME TableInv, LoopOK, NEW e \in ievents, PollEvent(e)
  PROVE  TableInv'
<1> DEFINE s == e.slot
<1> USE NetAssumption
<1>0. /\ s \in Slots /\ mask[s] \in SUBSET Interest
      /\ sbuffersz[s] \in 0 .. INT_MAX /\ slimit[s] \in 0 .. INT_MAX
      /\ "TCP" \in Protocols
      /\ mask[s] \ {"W"} \in SUBSET Interest /\ 0 \in 0 .. INT_MAX
      /\ status[s] # "INVALID" => s \in Live /\ fd[s] \in Fds
  BY DEF TableInv, TableOK, LoopOK, Live, SingleOwner, Protocols
<1>a. UNCHANGED <<table, kernel>> => TableInv'
  <2> SUFFICES ASSUME UNCHANGED <<table, kernel>> PROVE TableInv'
    OBVIOUS
  <2>1. UNCHANGED <<status, fd, protocol, mask, sbuffersz, slimit, free>>
    BY DEF table
  <2>2. TableOK' /\ Live' = Live
    BY <2>1 DEF TableInv, TableOK, Live
  <2> QED
    BY <2>1, <2>2, SameKernelInv
<1>1. ASSUME PollAccept(e) PROVE TableInv'
  <2>1. CASE UNCHANGED <<table, kernel, oevents>>
    BY <2>1, <1>a
  <2>2. CASE CreateThenClose("TCP", slimit[s])
    BY <1>0, <2>2, RotateInv
  <2>3. CASE \E f \in Fds :
               /\ os[f] = "closed"
               /\ CreateSocket(f, "conn", "CONNECTED", "TCP", slimit[s], {})
    <3> PICK f \in Fds : /\ os[f] = "closed"
                         /\ CreateSocket(f, "conn", "CONNECTED", "TCP", slimit[s], {})
      BY <2>3
    <3>1. f \notin StdFds /\ \A t \in Live : fd[t] # f
      BY ClosedIsFree
    <3> QED
      BY <1>0, <3>1, CreateInv DEF Kinds, Status
  <2> QED
    BY <1>1, <2>1, <2>2, <2>3 DEF PollAccept
<1>2. ASSUME PollConnect(e) PROVE TableInv'
  <2>0. s \in Live
    BY <1>0, <1>2 DEF PollConnect
  <2>1. CASE /\ status' = [status EXCEPT ![s] = "CONNECTED"]
             /\ Subscribe(s, {})
             /\ UNCHANGED <<fd, protocol, sbuffersz, slimit, free, os>>
    <3>1. mask' \in [Slots -> SUBSET Interest]
      BY <1>0, <2>1 DEF Subscribe, TableInv, TableOK
    <3>2. TableOK' /\ Live' = Live
      BY <1>0, <2>0, <2>1, <3>1 DEF TableInv, TableOK, Live, Status
    <3>3. {} \in SUBSET Interest
      OBVIOUS
    <3> QED
      BY <2>0, <2>1, <3>2, <3>3, SubscribeInv
  <2>2. CASE CloseSocket(s)
    BY <2>0, <2>2, CloseSocketInv
  <2> QED
    BY <1>2, <2>1, <2>2 DEF PollConnect
<1>3. ASSUME PollStale(e) \/ PollRead(e) PROVE TableInv'
  BY <1>3, <1>a DEF PollStale, PollRead
<1>4. ASSUME PollWriteError(e) PROVE TableInv'
  BY <1>0, <1>4, CloseSocketInv DEF PollWriteError
<1>5. ASSUME PollWriteSome(e) PROVE TableInv'
  <2>1. PICK n \in Written(fd[s], sbuffersz[s]) \ {sbuffersz[s]} :
               sbuffersz' = [sbuffersz EXCEPT ![s] = @ - n]
    BY <1>5 DEF PollWriteSome
  <2>2. sbuffersz[s] - n \in 0 .. INT_MAX
    BY <1>0 DEF Written
  <2>3. UNCHANGED <<status, fd, protocol, mask, slimit, free, kernel>>
    BY <1>5 DEF PollWriteSome
  <2>4. TableOK' /\ Live' = Live
    BY <1>0, <2>1, <2>2, <2>3 DEF TableInv, TableOK, Live
  <2> QED
    BY <2>3, <2>4, SameKernelInv
<1>6. ASSUME PollWriteAll(e) PROVE TableInv'
  <2>0. s \in Live
    BY <1>0, <1>6 DEF PollWriteAll
  <2>1. /\ sbuffersz' = [sbuffersz EXCEPT ![s] = 0]
        /\ Subscribe(s, mask[s] \ {"W"})
        /\ UNCHANGED <<status, fd, protocol, slimit, free, os>>
    BY <1>6 DEF PollWriteAll
  <2>3. mask' \in [Slots -> SUBSET Interest] /\ mask[s] \ {"W"} \in SUBSET Interest
    BY <1>0, <2>1, MaskAfter DEF TableInv
  <2>4. sbuffersz' \in [Slots -> 0 .. INT_MAX]
    BY <1>0, <2>1 DEF TableInv, TableOK
  <2>5. TableOK' /\ Live' = Live
    BY <2>1, <2>3, <2>4 DEF TableInv, TableOK, Live
  <2> QED
    BY <2>0, <2>1, <2>3, <2>5, SubscribeInv
<1>7. ASSUME PollWriteDone(e) PROVE TableInv'
  <2>0. s \in Live /\ FreeSlot(s)
    BY <1>0, <1>7 DEF PollWriteDone
  <2>1. CASE fd[s] \in StdFds
    <3>1. Subscribe(s, mask[s] \ {"W"}) /\ UNCHANGED os
      BY <1>7, <2>1 DEF PollWriteDone
    <3>2. /\ mask' \in [Slots -> SUBSET Interest]
          /\ \A t \in Slots \ {s} : mask'[t] = mask[t]
      BY <1>0, <3>1, MaskAfter DEF TableInv
    <3>3. /\ KernelOK'
          /\ \A f \in Fds \ {fd[s]} : ep_ud'[f] = ep_ud[f] /\ ep_mask'[f] = ep_mask[f]
      BY <1>0, <2>0, <3>1 DEF Subscribe, TableInv, KernelOK
    <3> QED
      BY <2>0, <2>1, <3>1, <3>2, <3>3, CloseInv
  <2>2. CASE fd[s] \notin StdFds
    <3>1. CloseFd(fd[s])
      BY <1>7, <2>2 DEF PollWriteDone
    <3>2. /\ mask' \in [Slots -> SUBSET Interest]
          /\ \A t \in Slots \ {s} : mask'[t] = mask[t]
      <4>1. mask' = [mask EXCEPT ![s] = mask[s] \ {"W"}] \/ UNCHANGED mask
        BY <1>7, <2>2 DEF PollWriteDone
      <4> QED
        BY <1>0, <4>1, MaskAfter DEF TableInv
    <3> QED
      BY <2>0, <2>2, <3>1, <3>2, CloseInv
  <2> QED
    BY <2>1, <2>2
<1> QED
  BY <1>1, <1>2, <1>3, <1>4, <1>5, <1>6, <1>7 DEF PollEvent

(***************************************************************************)
(* Appending to o_events.                                                  *)
(***************************************************************************)
LEMMA EmitType ==
  ASSUME LoopOK, NEW type \in EventTypes, NEW s \in Slots, Emit(type, s)
  PROVE  oevents' \in Seq([type : EventTypes, id : Slots])
<1>1. [type |-> type, id |-> s] \in [type : EventTypes, id : Slots]
  OBVIOUS
<1> QED
  BY <1>1, AppendToQueue DEF LoopOK, Emit

(***************************************************************************)
(* One iteration, the events' side.                                        *)
(***************************************************************************)
LEMMA PollEventLoop ==
  ASSUME TableInv, LoopOK, NEW e \in ievents, PollEvent(e)
  PROVE  LoopOK'
<1>0. e.slot \in Slots
  BY DEF LoopOK
<1>1. polling' \in BOOLEAN
      /\ ievents' \in SUBSET [fd : Fds, slot : Slots, read : BOOLEAN, write : BOOLEAN]
  BY DEF PollEvent, LoopOK
<1>2. oevents' = oevents \/ \E type \in EventTypes, s \in Slots : Emit(type, s)
  <2> USE <1>0 DEF EventTypes
  <2>1. ASSUME PollAccept(e), oevents' # oevents PROVE Emit("ACCEPT", Head(free)) /\ Head(free) \in Slots
    <3>1. PICK f \in Fds :
            CreateSocket(f, "conn", "CONNECTED", "TCP", slimit[e.slot], {})
            /\ Emit("ACCEPT", Head(free))
      BY <2>1 DEF PollAccept
    <3>2. free # <<>> /\ free \in Seq(Slots)
      BY <3>1 DEF CreateSocket, TableInv, TableOK
    <3> QED
      BY <3>1, <3>2, TailOfQueue
  <2>2. ASSUME PollConnect(e) PROVE \E type \in EventTypes, s \in Slots : Emit(type, s)
    BY <2>2 DEF PollConnect
  <2>3. ASSUME EmitRead(e), oevents' # oevents PROVE Emit("READ", e.slot)
    BY <2>3 DEF EmitRead
  <2> QED
    BY <2>1, <2>2, <2>3 DEF PollEvent, PollStale, PollRead, PollWriteError, PollWriteSome,
                            PollWriteAll, PollWriteDone
<1>3. oevents' \in Seq([type : EventTypes, id : Slots])
  BY <1>2, EmitType DEF LoopOK
<1> QED
  BY <1>1, <1>3 DEF LoopOK

(***************************************************************************)
(* np_poll gives well-formed events.                                       *)
(***************************************************************************)
LEMMA PollStartLoop == ASSUME TableInv, LoopOK, PollStart PROVE LoopOK'
<1>1. PICK ready \in SUBSET {f \in Fds : ep_ud[f] # NoSlot} :
        \E r \in [ready -> [read : BOOLEAN, write : BOOLEAN]] :
          ievents' = {[fd |-> f, slot |-> ep_ud[f],
                       read |-> r[f].read, write |-> r[f].write] : f \in ready}
  BY DEF PollStart
<1>2. \A f \in ready : f \in Fds /\ ep_ud[f] \in Slots
  BY DEF TableInv, KernelOK
<1>3. ievents' \in SUBSET [fd : Fds, slot : Slots, read : BOOLEAN, write : BOOLEAN]
  BY <1>1, <1>2
<1> QED
  BY <1>3 DEF PollStart, LoopOK

(***************************************************************************)
(* The table, the kernel's registrations and the arrays of events are      *)
(* consistent for every number of slots and whatever fails: Inv is         *)
(* inductive.                                                              *)
(***************************************************************************)
THEOREM NetCorrect == Spec => []Inv
<1>1. Inv /\ [Next]_vars => Inv'
  <2> SUFFICES ASSUME Inv, [Next]_vars PROVE Inv'
    OBVIOUS
  <2> USE DEF Inv
  <2>a. UNCHANGED <<table, kernel>> => TableInv'
    <3> SUFFICES ASSUME UNCHANGED <<table, kernel>> PROVE TableInv'
      OBVIOUS
    <3>1. UNCHANGED <<status, fd, protocol, mask, sbuffersz, slimit, free>>
      BY DEF table
    <3>2. TableOK' /\ Live' = Live
      BY <3>1 DEF TableInv, TableOK, Live
    <3> QED
      BY <3>1, <3>2, SameKernelInv
  <2>b. UNCHANGED loop => LoopOK'
    BY DEF loop, LoopOK
  <2>1. CASE Call
    BY <2>1, <2>b, CallInv DEF Call
  <2>2. CASE \E f \in Fds : KernelConnect(f)
    <3>1. UNCHANGED loop
      BY <2>2 DEF KernelConnect
    <3> QED
      BY <2>2, <2>b, <3>1, KernelConnectInv
  <2>3. CASE PollStart
    <3>1. UNCHANGED <<table, kernel>>
      BY <2>3 DEF PollStart
    <3> QED
      BY <2>3, <2>a, <3>1, PollStartLoop
  <2>4. CASE \E e \in ievents : PollEvent(e)
    BY <2>4, PollEventInv, PollEventLoop
  <2>5. CASE PollReturn
    <3>1. UNCHANGED <<table, kernel>> /\ LoopOK'
      BY <2>5, EmptySeq DEF PollReturn, LoopOK
    <3> QED
      BY <2>a, <3>1
  <2>6. CASE UNCHANGED vars
    BY <2>6, <2>a, <2>b DEF vars
  <2> QED
    BY <2>1, <2>2, <2>3, <2>4, <2>5, <2>6 DEF Next
<1> QED
  BY InitInv, <1>1, PTL DEF Spec

(***************************************************************************)
(* Every field keeps its range; the bytes queued never exceed INT_MAX.     *)
(***************************************************************************)
THEOREM NetType == Spec => []TypeOK
<1>1. Inv => TypeOK
  BY DEF Inv, TableInv, TypeOK
<1> QED
  BY <1>1, NetCorrect, PTL

(***************************************************************************)
(* No two live slots ever hold the same descriptor and none holds a closed *)
(* one; the list of free slots is exact.                                   *)
(***************************************************************************)
THEOREM OneOwner == Spec => [](SingleOwner /\ FreeIsInvalid)
<1>1. Inv => SingleOwner /\ FreeIsInvalid
  BY DEF Inv, TableInv
<1> QED
  BY <1>1, NetCorrect, PTL

(***************************************************************************)
(* A slot's mask is what epoll has registered, although closing a socket   *)
(* deregisters nothing and epoll_ctl may fail.                             *)
(***************************************************************************)
THEOREM InterestIsRegistered == Spec => []InterestRegistered
<1>1. Inv => InterestRegistered
  BY DEF Inv, TableInv
<1> QED
  BY <1>1, NetCorrect, PTL

(***************************************************************************)
(* No descriptor is lost unless a blocking connect meets a failing fcntl.  *)
(***************************************************************************)
THEOREM NothingLeaks == NoLeakPossible /\ Spec => []NoFdLeak
<1>1. NoLeakPossible /\ Inv => NoFdLeak
  BY DEF Inv, TableInv
<1>2. CASE NoLeakPossible
  <2>1. Inv => NoFdLeak
    BY <1>1, <1>2
  <2> QED
    BY <2>1, NetCorrect, PTL
<1>3. CASE ~NoLeakPossible
  BY <1>3
<1> QED
  BY <1>2, <1>3

-----------------------------------------------------------------------------
(* What a step may do to one slot.                                         *)

\* The descriptor that a socket with status st has just been given.
NewKind(st) == CASE st = "LISTENING" -> "listen"
                 [] st = "CONNECTING" -> "connecting"
                 [] OTHER -> "conn"

\* _create_socket and its caller; only socket_bind takes a standard
\* descriptor.
Opened(s) ==
  /\ status[s] = "INVALID"
  /\ status'[s] \in {"LISTENING", "CONNECTING", "CONNECTED", "BIND"}
  /\ sbuffersz'[s] = 0
  /\ status'[s] = "CONNECTING" => mask'[s] = Interest /\ protocol'[s] = "TCP"
  /\ fd'[s] \in Fds
  /\ fd'[s] \in StdFds => status'[s] = "BIND" /\ BindProtocols # {}
  /\ os'[fd'[s]] = NewKind(status'[s])

\* The socket keeps its descriptor, and the kernel what it knows of it.
SameFd(s) ==
  /\ status[s] # "INVALID"
  /\ fd'[s] = fd[s]
  /\ os'[fd[s]] = os[fd[s]]
  /\ protocol'[s] = protocol[s]

\* socket_enableread, socket_limit, or nothing.
Kept(s) ==
  /\ status'[s] = status[s]
  /\ sbuffersz'[s] = sbuffersz[s]
  /\ "W" \in mask'[s] <=> "W" \in mask[s]

\* socket_send and socket_sendfd append to the send list.
Queued(s) ==
  /\ status'[s] = status[s]
  /\ sbuffersz'[s] > 0
  /\ mask[s] \subseteq mask'[s]
  /\ \/ "W" \in mask'[s]
     \/ sbuffersz[s] = 0 /\ (fd[s] \in StdFds \/ "epoll" \in Faults)
     \/ sbuffersz[s] > 0 /\ mask'[s] = mask[s]
  /\ status[s] = "CONNECTING" => EarlySend \/ protocol[s] = "IPC"
  /\ status[s] = "HALFCLOSE" => protocol[s] = "IPC"

\* socket_close without force.
HalfClosed(s) ==
  /\ status'[s] = "HALFCLOSE"
  /\ sbuffersz[s] > 0
  /\ sbuffersz'[s] = sbuffersz[s]
  /\ mask'[s] = mask[s]

\* _onconnect.
Connected(s) ==
  /\ polling
  /\ \E e \in ievents : e.slot = s
  /\ status[s] = "CONNECTING"
  /\ os[fd[s]] # "failed"
  /\ status'[s] = "CONNECTED"
  /\ sbuffersz'[s] = sbuffersz[s]

\* _send_buffer, a part or all of what is queued.
Flushed(s) ==
  /\ status'[s] = status[s]
  /\ status[s] \in {"CONNECTED", "HALFCLOSE", "BIND"}
  /\ \/ sbuffersz'[s] > 0 /\ sbuffersz'[s] <= sbuffersz[s] /\ sbuffersz[s] > 0 /\ mask'[s] = mask[s]
     \/ sbuffersz'[s] = 0 /\ status[s] # "HALFCLOSE"

SlotStep(s) ==
  \/ status'[s] = "INVALID"
  \/ Opened(s)
  \/ SameFd(s) /\ (Kept(s) \/ Queued(s) \/ HalfClosed(s) \/ Connected(s) \/ Flushed(s))

(***************************************************************************)
(* _create_socket finds a slot that is not in use.                         *)
(***************************************************************************)
LEMMA HeadIsFree ==
  ASSUME TableInv, free # <<>>
  PROVE  Head(free) \in Slots /\ Head(free) \notin Live
<1>1. free \in Seq(Slots) /\ Lists(free, Slots \ Live)
  BY DEF TableInv, TableOK, FreeIsInvalid
<1>2. Head(free) \in Slots \ Live
  BY <1>1, ListsTail
<1> QED
  BY <1>2

(***************************************************************************)
(* A new socket, and the slots that it does not concern.                   *)
(***************************************************************************)
LEMMA CreateStep ==
  ASSUME TableInv,
         NEW f \in Fds, \A s \in Live : fd[s] # f,
         NEW kind, NEW st \in {"LISTENING", "CONNECTING", "CONNECTED", "BIND"},
         kind = NewKind(st),
         NEW p, NEW lim, NEW m,
         st = "CONNECTING" => m = Interest /\ p = "TCP",
         f \in StdFds => st = "BIND" /\ BindProtocols # {},
         CreateSocket(f, kind, st, p, lim, m)
  PROVE  /\ Head(free) \in Slots /\ Head(free) \notin Live
         /\ status' = [status EXCEPT ![Head(free)] = st]
         /\ \A s \in Slots : SlotStep(s)
         /\ \A s \in Live : SameFd(s) /\ Kept(s)
<1> DEFINE n == Head(free)
<1>1. n \in Slots /\ n \notin Live
  BY HeadIsFree DEF CreateSocket
<1>2. /\ status' = [status EXCEPT ![n] = st]
      /\ fd' = [fd EXCEPT ![n] = f]
      /\ protocol' = [protocol EXCEPT ![n] = p]
      /\ mask' = [mask EXCEPT ![n] = m]
      /\ sbuffersz' = [sbuffersz EXCEPT ![n] = 0]
      /\ os' = [os EXCEPT ![f] = kind]
  BY DEF CreateSocket
<1>3. Opened(n)
  BY <1>1, <1>2 DEF Opened, Live, TableInv, TableOK, KernelOK
<1>4. ASSUME NEW s \in Live PROVE SameFd(s) /\ Kept(s)
  <2>1. s \in Slots /\ s # n /\ fd[s] # f /\ status[s] # "INVALID"
    BY <1>1 DEF Live
  <2> QED
    BY <1>2, <2>1 DEF SameFd, Kept, TableInv, TableOK, KernelOK
<1>5. ASSUME NEW s \in Slots, s \notin Live, s # n PROVE status'[s] = "INVALID"
  BY <1>2, <1>5 DEF Live, TableInv, TableOK
<1> QED
  BY <1>1, <1>2, <1>3, <1>4, <1>5 DEF SlotStep

(***************************************************************************)
(* A socket that is created and closed in one call.                        *)
(***************************************************************************)
LEMMA RotateStep ==
  ASSUME TableInv, NEW p, NEW lim, CreateThenClose(p, lim)
  PROVE  /\ status' = status
         /\ \A s \in Slots : SlotStep(s)
         /\ \A s \in Live : SameFd(s) /\ Kept(s)
<1> DEFINE n == Head(free)
<1>1. n \in Slots /\ n \notin Live
  BY HeadIsFree DEF CreateThenClose
<1>2. /\ protocol' = [protocol EXCEPT ![n] = p]
      /\ mask' = [mask EXCEPT ![n] = {}]
      /\ UNCHANGED <<status, fd, sbuffersz, os>>
  BY DEF CreateThenClose, kernel
<1>3. ASSUME NEW s \in Live PROVE SameFd(s) /\ Kept(s)
  BY <1>1, <1>2 DEF Live, SameFd, Kept, TableInv, TableOK
<1>4. ASSUME NEW s \in Slots, s \notin Live PROVE status'[s] = "INVALID"
  BY <1>2, <1>4 DEF Live
<1> QED
  BY <1>2, <1>3, <1>4 DEF SlotStep

(***************************************************************************)
(* A socket that is closed, and the others.                                *)
(***************************************************************************)
LEMMA FreeStep ==
  ASSUME TableInv, NEW s \in Live, FreeSlot(s),
         \A t \in Slots \ {s} : mask'[t] = mask[t],
         os' = os \/ os' = [os EXCEPT ![fd[s]] = "closed"]
  PROVE  /\ s \in Slots
         /\ status' = [status EXCEPT ![s] = "INVALID"]
         /\ \A t \in Slots : SlotStep(t)
         /\ \A t \in Live \ {s} : SameFd(t) /\ Kept(t)
<1>1. s \in Slots /\ fd[s] \in Fds
  BY DEF Live, TableInv, TableOK, SingleOwner
<1>2. /\ status' = [status EXCEPT ![s] = "INVALID"]
      /\ fd' = [fd EXCEPT ![s] = NoFd]
      /\ sbuffersz' = [sbuffersz EXCEPT ![s] = 0]
      /\ protocol' = protocol
  BY DEF FreeSlot
<1>3. ASSUME NEW t \in Live \ {s} PROVE SameFd(t) /\ Kept(t)
  <2>1. t \in Slots /\ t # s /\ fd[t] # fd[s] /\ fd[t] \in Fds /\ status[t] # "INVALID"
    BY DEF Live, TableInv, TableOK, SingleOwner
  <2> QED
    BY <1>1, <1>2, <2>1 DEF SameFd, Kept, TableInv, TableOK, KernelOK
<1>4. ASSUME NEW t \in Slots, t = s \/ t \notin Live PROVE status'[t] = "INVALID"
  BY <1>1, <1>2, <1>4 DEF Live, TableInv, TableOK
<1> QED
  BY <1>1, <1>2, <1>3, <1>4 DEF SlotStep

(***************************************************************************)
(* _close_socket.                                                          *)
(***************************************************************************)
LEMMA CloseStep ==
  ASSUME TableInv, NEW s \in Live, CloseSocket(s)
  PROVE  /\ s \in Slots
         /\ status' = [status EXCEPT ![s] = "INVALID"]
         /\ \A t \in Slots : SlotStep(t)
         /\ \A t \in Live \ {s} : SameFd(t) /\ Kept(t)
<1>1. FreeSlot(s) /\ mask' = mask
  BY DEF CloseSocket
<1>2. os' = os \/ os' = [os EXCEPT ![fd[s]] = "closed"]
  BY DEF CloseSocket, CloseFd, kernel
<1> QED
  BY <1>1, <1>2, FreeStep

(***************************************************************************)
(* A call that concerns one live socket and leaves the descriptors alone.  *)
(***************************************************************************)
LEMMA OneSlotStep ==
  ASSUME TableInv, NEW s \in Live,
         UNCHANGED <<fd, protocol, os>>,
         \A t \in Slots \ {s} :
           status'[t] = status[t] /\ sbuffersz'[t] = sbuffersz[t] /\ mask'[t] = mask[t],
         Kept(s) \/ Queued(s) \/ HalfClosed(s) \/ Connected(s) \/ Flushed(s)
  PROVE  /\ \A t \in Slots : SlotStep(t)
         /\ \A t \in Live \ {s} : SameFd(t) /\ Kept(t)
<1>1. \A t \in Live : SameFd(t)
  BY DEF SameFd, Live
<1>2. ASSUME NEW t \in Live \ {s} PROVE Kept(t)
  BY DEF Kept, Live
<1>3. ASSUME NEW t \in Slots, t \notin Live PROVE status'[t] = "INVALID"
  BY <1>3 DEF Live
<1> QED
  BY <1>1, <1>2, <1>3 DEF SlotStep

(***************************************************************************)
(* The interest that a socket above STDERR_FILENO asks for is refused only *)
(* when epoll_ctl fails: it can be registered, since its mask is what is.  *)
(***************************************************************************)
LEMMA SubscribeGrants ==
  ASSUME TableInv, NEW s \in Live, NEW m \in SUBSET Interest, Subscribe(s, m),
         fd[s] \notin StdFds, "epoll" \notin Faults
  PROVE  mask'[s] = m
<1>1. s \in Slots
  BY DEF Live
<1>2. Registrable(s)
  BY <1>1, NetAssumption DEF Registrable, TableInv, InterestRegistered, Slots, NoSlot
<1> QED
  BY <1>1, <1>2 DEF Subscribe, TableInv, TableOK

(***************************************************************************)
(* The end of socket_send and socket_sendfd.                               *)
(***************************************************************************)
LEMMA EnqueueStep ==
  ASSUME TableInv, NEW s \in Live, NEW n \in 1 .. INT_MAX, Enqueue(s, n),
         status[s] = "CONNECTING" => EarlySend \/ protocol[s] = "IPC",
         status[s] = "HALFCLOSE" => protocol[s] = "IPC"
  PROVE  \A t \in Slots : SlotStep(t)
<1>1. CASE CloseSocket(s)
  BY <1>1, CloseStep
<1>2. CASE /\ sbuffersz' = [sbuffersz EXCEPT ![s] = @ + n]
           /\ IF sbuffersz[s] = 0 THEN Subscribe(s, mask[s] \cup {"W"})
              ELSE UNCHANGED <<mask, ep_ud, ep_mask>>
           /\ UNCHANGED <<status, fd, protocol, slimit, free, os>>
  <2>1. s \in Slots /\ sbuffersz[s] \in Nat /\ mask[s] \in SUBSET Interest
        /\ mask[s] \cup {"W"} \in SUBSET Interest
    BY NetAssumption DEF Live, TableInv, TableOK, Interest
  <2>2. sbuffersz'[s] > 0 /\ \A t \in Slots \ {s} : sbuffersz'[t] = sbuffersz[t]
    BY <1>2, <2>1 DEF TableInv, TableOK
  <2>3. \A t \in Slots \ {s} : mask'[t] = mask[t]
    BY <1>2, <2>1, MaskAfter DEF TableInv
  <2>4. mask[s] \subseteq mask'[s]
    BY <1>2, <2>1 DEF Subscribe, TableInv, TableOK
  <2>5. \/ "W" \in mask'[s]
        \/ sbuffersz[s] = 0 /\ (fd[s] \in StdFds \/ "epoll" \in Faults)
        \/ sbuffersz[s] > 0 /\ mask'[s] = mask[s]
    BY <1>2, <2>1, SubscribeGrants
  <2>6. Queued(s)
    BY <1>2, <2>2, <2>4, <2>5 DEF Queued
  <2> QED
    BY <1>2, <2>2, <2>3, <2>6, OneSlotStep
<1> QED
  BY <1>1, <1>2 DEF Enqueue

(***************************************************************************)
(* socket_send and socket_sendfd.                                          *)
(***************************************************************************)
LEMMA TransmitStep ==
  ASSUME TableInv, NEW s \in Live, NEW sz \in 1 .. INT_MAX, Transmit(s, sz),
         status[s] = "CONNECTING" => EarlySend \/ protocol[s] = "IPC",
         status[s] = "HALFCLOSE" => protocol[s] = "IPC"
  PROVE  \A t \in Slots : SlotStep(t)
<1>1. CASE \E n \in Written(fd[s], sz) \ {sz} : Enqueue(s, sz - n)
  <2>1. PICK n \in Written(fd[s], sz) \ {sz} : Enqueue(s, sz - n)
    BY <1>1
  <2>2. n \in 0 .. sz
    BY <2>1 DEF Written
  <2>3. sz - n \in 1 .. INT_MAX
    BY <2>1, <2>2, NetAssumption
  <2> QED
    BY <2>1, <2>3, EnqueueStep
<1>2. CASE CloseSocket(s)
  BY <1>2, CloseStep
<1>3. CASE Enqueue(s, sz)
  BY <1>3, EnqueueStep
<1> QED
  BY <1>1, <1>2, <1>3 DEF Transmit

(***************************************************************************)
(* socket_bind, socket_listen and socket_connect.                          *)
(***************************************************************************)
LEMMA OpenStep ==
  ASSUME TableInv, NEW f \in Fds,
         \/ \E p \in BindProtocols : Bind(f, p)
         \/ Listen(f)
         \/ \E block \in Blocking : Connect(f, block)
  PROVE  \A s \in Slots : SlotStep(s)
<1>1. CASE \E p \in BindProtocols : Bind(f, p)
  <2> PICK p \in BindProtocols : Bind(f, p)
    BY <1>1
  <2>1. (\A s \in Live : fd[s] # f) /\ BindProtocols # {}
    BY DEF Bind
  <2>2. CASE CreateSocket(f, "conn", "BIND", p, INT_MAX, {})
    BY <2>1, <2>2, CreateStep DEF NewKind
  <2>3. CASE CreateThenClose(p, INT_MAX)
    BY <2>3, RotateStep
  <2> QED
    BY <2>2, <2>3 DEF Bind
<1>2. CASE Listen(f)
  <2>1. f \notin StdFds /\ \A s \in Live : fd[s] # f
    BY <1>2, ClosedIsFree DEF Listen
  <2>2. CASE CreateSocket(f, "listen", "LISTENING", "TCP", INT_MAX, {"R"})
    BY <2>1, <2>2, CreateStep DEF NewKind
  <2>3. CASE CreateThenClose("TCP", INT_MAX)
    BY <2>3, RotateStep
  <2> QED
    BY <1>2, <2>2, <2>3 DEF Listen
<1>3. CASE \E block \in Blocking : Connect(f, block)
  <2> PICK block \in Blocking : Connect(f, block)
    BY <1>3
  <2>1. f \notin StdFds /\ \A s \in Live : fd[s] # f
    BY ClosedIsFree DEF Connect
  <2>2. CASE CreateSocket(f, "conn", "CONNECTED", "TCP", INT_MAX, {})
    BY <2>1, <2>2, CreateStep DEF NewKind
  <2>3. CASE CreateSocket(f, "connecting", "CONNECTING", "TCP", INT_MAX, Interest)
    BY <2>1, <2>3, CreateStep DEF NewKind
  <2>4. CASE CreateThenClose("TCP", INT_MAX)
    BY <2>4, RotateStep
  <2>5. CASE os' = [os EXCEPT ![f] = "conn"] /\ UNCHANGED <<table, ep_ud, ep_mask>>
    <3>1. UNCHANGED <<status, fd, protocol, mask, sbuffersz>>
      BY <2>5 DEF table
    <3>2. \A s \in Live : s \in Slots /\ fd[s] # f /\ fd[s] \in Fds
      BY <2>1 DEF Live, TableInv, TableOK, SingleOwner
    <3> QED
      BY <2>5, <3>1, <3>2 DEF SlotStep, SameFd, Kept, Live, TableInv, KernelOK
  <2> QED
    BY <2>2, <2>3, <2>4, <2>5 DEF Connect
<1> QED
  BY <1>1, <1>2, <1>3

(***************************************************************************)
(* Every call of the API.                                                  *)
(***************************************************************************)
LEMMA CallStep == ASSUME TableInv, Call PROVE \A s \in Slots : SlotStep(s)
<1>0. ASSUME NEW s \in Live
      PROVE  s \in Slots /\ mask[s] \in SUBSET Interest /\ sbuffersz[s] \in Nat
  BY NetAssumption DEF TableInv, TableOK, Live
<1>1. ASSUME NEW s \in Live, NEW read \in BOOLEAN, EnableRead(s, read)
      PROVE  \A t \in Slots : SlotStep(t)
  <2> DEFINE m == (mask[s] \cap {"W"}) \cup (IF read THEN {"R"} ELSE {})
  <2>1. m \in SUBSET Interest /\ ("W" \in m <=> "W" \in mask[s])
    BY <1>0 DEF Interest
  <2>2. Subscribe(s, m)
    BY <1>1 DEF EnableRead
  <2>3. mask'[s] = m \/ mask'[s] = mask[s]
    BY <1>0, <2>2 DEF Subscribe, TableInv, TableOK
  <2>4. \A t \in Slots \ {s} : mask'[t] = mask[t]
    BY <1>0, <2>1, <2>2, MaskAfter DEF TableInv
  <2>5. Kept(s)
    BY <1>1, <2>1, <2>3 DEF EnableRead, Kept
  <2> QED
    BY <1>1, <2>4, <2>5, OneSlotStep DEF EnableRead
<1>2. ASSUME NEW s \in Live, NEW sz \in 1 .. INT_MAX, Send(s, sz)
      PROVE  \A t \in Slots : SlotStep(t)
  BY <1>2, TransmitStep DEF Send
<1>3. ASSUME NEW s \in Live, NEW sz \in 1 .. INT_MAX, SendFd(s, sz)
      PROVE  \A t \in Slots : SlotStep(t)
  BY <1>3, TransmitStep DEF SendFd
<1>4. ASSUME NEW s \in Live, Read(s) PROVE \A t \in Slots : SlotStep(t)
  BY <1>4, CloseStep DEF Read
<1>5. ASSUME NEW s \in Live, NEW force \in BOOLEAN, Close(s, force)
      PROVE  \A t \in Slots : SlotStep(t)
  <2>1. CASE CloseSocket(s)
    BY <2>1, CloseStep
  <2>2. CASE /\ sbuffersz[s] > 0
             /\ status' = [status EXCEPT ![s] = "HALFCLOSE"]
             /\ UNCHANGED <<fd, protocol, mask, sbuffersz, slimit, free, kernel>>
    <3>1. HalfClosed(s) /\ os' = os
      BY <1>0, <2>2 DEF HalfClosed, TableInv, TableOK, kernel
    <3>2. \A t \in Slots \ {s} : status'[t] = status[t]
      BY <1>0, <2>2 DEF TableInv, TableOK
    <3> QED
      BY <2>2, <3>1, <3>2, OneSlotStep
  <2> QED
    BY <1>5, <2>1, <2>2 DEF Close
<1>6. ASSUME NEW s \in Live, NEW lim, Limit(s, lim) PROVE \A t \in Slots : SlotStep(t)
  <2>1. Kept(s)
    BY <1>6 DEF Limit, Kept
  <2> QED
    BY <1>6, <2>1, OneSlotStep DEF Limit, kernel
<1>7. ASSUME Reinit PROVE \A t \in Slots : SlotStep(t)
  BY <1>7 DEF Reinit, SlotStep
<1> QED
  BY <1>1, <1>2, <1>3, <1>4, <1>5, <1>6, <1>7, OpenStep DEF Call

-----------------------------------------------------------------------------
(* What one iteration of socket_poll does.                                 *)

\* It reports nothing and every socket keeps its status; or it reports what
\* it did to the one socket of the event, or to the one it has accepted.
Outcome(e) ==
  \/ status' = status /\ oevents' = oevents
  \/ \E s \in Slots, type \in EventTypes, st \in Status :
       /\ Emit(type, s)
       /\ status' = [status EXCEPT ![s] = st]
       /\ \/ s = e.slot /\ s \in Live /\ (type \in Ends <=> st = "INVALID")
          \/ s \notin Live /\ type = "ACCEPT" /\ st = "CONNECTED"

PollStep(e) ==
  /\ \A s \in Slots : SlotStep(s)
  /\ \A s \in Live \ {e.slot} : SameFd(s) /\ Kept(s)
  /\ Outcome(e)

(***************************************************************************)
(* An iteration that leaves the table alone, or every status.              *)
(***************************************************************************)
LEMMA OutcomeOfRead ==
  ASSUME TableInv, LoopOK, NEW e \in ievents, e.slot \in Live, status' = status, EmitRead(e)
  PROVE  Outcome(e)
<1>1. e.slot \in Slots /\ status' = [status EXCEPT ![e.slot] = status[e.slot]]
      /\ status[e.slot] \in Status /\ status[e.slot] # "INVALID"
  BY DEF Live, TableInv, TableOK
<1>2. Emit("READ", e.slot) \/ oevents' = oevents
  BY DEF EmitRead
<1> QED
  BY <1>1, <1>2 DEF Outcome, EventTypes, Ends

(***************************************************************************)
(* An iteration that closes the socket and says so.                        *)
(***************************************************************************)
LEMMA OutcomeOfClose ==
  ASSUME NEW e, e.slot \in Slots, e.slot \in Live,
         status' = [status EXCEPT ![e.slot] = "INVALID"],
         NEW type \in Ends, Emit(type, e.slot)
  PROVE  Outcome(e)
BY DEF Outcome, EventTypes, Ends, Status

(***************************************************************************)
(* Nothing changes in the table.                                           *)
(***************************************************************************)
LEMMA IdleStep ==
  ASSUME UNCHANGED <<table, kernel>>
  PROVE  /\ status' = status
         /\ \A s \in Slots : SlotStep(s)
         /\ \A s \in Live : SameFd(s) /\ Kept(s)
BY DEF table, kernel, SlotStep, SameFd, Kept, Live

(***************************************************************************)
(* case STATUS_LISTENING.                                                  *)
(***************************************************************************)
LEMMA AcceptStep ==
  ASSUME TableInv, LoopOK, NEW e \in ievents, PollAccept(e)
  PROVE  PollStep(e)
<1>1. CASE UNCHANGED <<table, kernel, oevents>>
  BY <1>1, IdleStep DEF PollStep, Outcome
<1>2. CASE CreateThenClose("TCP", slimit[e.slot]) /\ UNCHANGED oevents
  BY <1>2, RotateStep DEF PollStep, Outcome
<1>3. CASE \E f \in Fds :
             /\ os[f] = "closed"
             /\ CreateSocket(f, "conn", "CONNECTED", "TCP", slimit[e.slot], {})
             /\ Emit("ACCEPT", Head(free))
  <2> PICK f \in Fds :
             /\ os[f] = "closed"
             /\ CreateSocket(f, "conn", "CONNECTED", "TCP", slimit[e.slot], {})
             /\ Emit("ACCEPT", Head(free))
    BY <1>3
  <2>1. f \notin StdFds /\ \A s \in Live : fd[s] # f
    BY ClosedIsFree
  <2>2. /\ Head(free) \in Slots /\ Head(free) \notin Live
        /\ status' = [status EXCEPT ![Head(free)] = "CONNECTED"]
        /\ \A s \in Slots : SlotStep(s)
        /\ \A s \in Live : SameFd(s) /\ Kept(s)
    BY <2>1, CreateStep DEF NewKind
  <2>3. Outcome(e)
    BY <2>2 DEF Outcome, EventTypes, Status
  <2> QED
    BY <2>2, <2>3 DEF PollStep
<1> QED
  BY <1>1, <1>2, <1>3 DEF PollAccept

(***************************************************************************)
(* case STATUS_CONNECTING.                                                 *)
(***************************************************************************)
LEMMA ConnectStep ==
  ASSUME TableInv, LoopOK, NEW e \in ievents, polling, PollConnect(e)
  PROVE  PollStep(e)
<1> DEFINE s == e.slot
<1>1. s \in Slots /\ status[s] = "CONNECTING" /\ s \in Live
  BY DEF LoopOK, PollConnect, Live
<1>2. CASE /\ os[fd[s]] # "failed"
           /\ status' = [status EXCEPT ![s] = "CONNECTED"]
           /\ Subscribe(s, {})
           /\ UNCHANGED <<fd, protocol, sbuffersz, slimit, free, os>>
           /\ Emit(IF e.read THEN "CONN_THEN_READ" ELSE "CONNECT", s)
  <2>1. status'[s] = "CONNECTED" /\ \A t \in Slots \ {s} : status'[t] = status[t]
    BY <1>1, <1>2 DEF TableInv, TableOK
  <2>2. \A t \in Slots \ {s} : mask'[t] = mask[t]
    <3>1. {} \in SUBSET Interest
      OBVIOUS
    <3> QED
      BY <1>1, <1>2, <3>1, MaskAfter DEF TableInv
  <2>3. Connected(s)
    BY <1>1, <1>2, <2>1 DEF Connected
  <2>4. Outcome(e)
    BY <1>1, <1>2 DEF Outcome, EventTypes, Status, Ends
  <2> QED
    BY <1>1, <1>2, <2>1, <2>2, <2>3, <2>4, OneSlotStep DEF PollStep
<1>3. CASE CloseSocket(s) /\ Emit("CONNERR", s)
  BY <1>1, <1>3, CloseStep, OutcomeOfClose DEF PollStep, Ends
<1> QED
  BY <1>2, <1>3 DEF PollConnect

(***************************************************************************)
(* The default case, in which _send_buffer may write, fail or finish.      *)
(***************************************************************************)
LEMMA WriteStep ==
  ASSUME TableInv, LoopOK, NEW e \in ievents,
         PollWriteError(e) \/ PollWriteSome(e) \/ PollWriteAll(e) \/ PollWriteDone(e)
  PROVE  PollStep(e)
<1> DEFINE s == e.slot
<1>1. s \in Slots /\ s \in Live
      /\ sbuffersz[s] \in Nat /\ mask[s] \ {"W"} \in SUBSET Interest
  BY NetAssumption DEF LoopOK, PollWriteError, PollWriteSome, PollWriteAll, PollWriteDone, Live,
                       TableInv, TableOK
<1>2. CASE PollWriteError(e)
  BY <1>1, <1>2, CloseStep, OutcomeOfClose DEF PollWriteError, PollStep, Ends
<1>3. CASE PollWriteSome(e)
  <2>1. PICK n \in Written(fd[s], sbuffersz[s]) \ {sbuffersz[s]} :
               sbuffersz' = [sbuffersz EXCEPT ![s] = @ - n]
    BY <1>3 DEF PollWriteSome
  <2>2. n \in 0 .. sbuffersz[s] /\ n # sbuffersz[s]
    BY <1>1, <2>1 DEF Written
  <2>3. sbuffersz'[s] = sbuffersz[s] - n /\ \A t \in Slots \ {s} : sbuffersz'[t] = sbuffersz[t]
    BY <1>1, <2>1 DEF TableInv, TableOK
  <2>4. sbuffersz[s] > 0 /\ sbuffersz'[s] > 0 /\ sbuffersz'[s] <= sbuffersz[s]
    BY <1>1, <2>2, <2>3
  <2>5. /\ UNCHANGED <<status, fd, protocol, mask, os>>
        /\ status[s] \in {"CONNECTED", "HALFCLOSE", "BIND"}
        /\ EmitRead(e)
    BY <1>3 DEF PollWriteSome, kernel
  <2>6. Flushed(s)
    BY <2>4, <2>5 DEF Flushed
  <2>7. Outcome(e)
    BY <1>1, <2>5, OutcomeOfRead
  <2> QED
    BY <1>1, <2>3, <2>5, <2>6, <2>7, OneSlotStep DEF PollStep
<1>4. CASE PollWriteAll(e)
  <2>1. /\ sbuffersz' = [sbuffersz EXCEPT ![s] = 0]
        /\ Subscribe(s, mask[s] \ {"W"})
        /\ UNCHANGED <<status, fd, protocol, os>>
        /\ status[s] \in {"CONNECTED", "BIND"}
        /\ EmitRead(e)
    BY <1>4 DEF PollWriteAll
  <2>2. sbuffersz'[s] = 0 /\ \A t \in Slots \ {s} : sbuffersz'[t] = sbuffersz[t]
    BY <1>1, <2>1 DEF TableInv, TableOK
  <2>3. \A t \in Slots \ {s} : mask'[t] = mask[t]
    BY <1>1, <2>1, MaskAfter DEF TableInv
  <2>4. Flushed(s)
    BY <2>1, <2>2 DEF Flushed
  <2>5. Outcome(e)
    BY <1>1, <2>1, OutcomeOfRead
  <2> QED
    BY <1>1, <2>1, <2>2, <2>3, <2>4, <2>5, OneSlotStep DEF PollStep
<1>5. CASE PollWriteDone(e)
  <2>1. FreeSlot(s) /\ Emit("WRIDONECLOSE", s)
    BY <1>5 DEF PollWriteDone
  <2>2. \/ Subscribe(s, mask[s] \ {"W"}) /\ os' = os
        \/ /\ mask' = [mask EXCEPT ![s] = mask[s] \ {"W"}] \/ UNCHANGED mask
           /\ os' = [os EXCEPT ![fd[s]] = "closed"]
    BY <1>5 DEF PollWriteDone, CloseFd
  <2>3. \A t \in Slots \ {s} : mask'[t] = mask[t]
    BY <1>1, <2>2, MaskAfter DEF TableInv
  <2>4. /\ status' = [status EXCEPT ![s] = "INVALID"]
        /\ \A t \in Slots : SlotStep(t)
        /\ \A t \in Live \ {s} : SameFd(t) /\ Kept(t)
    BY <1>1, <2>1, <2>2, <2>3, FreeStep
  <2>5. Outcome(e)
    BY <1>1, <2>1, <2>4, OutcomeOfClose DEF Ends
  <2> QED
    BY <2>4, <2>5 DEF PollStep
<1> QED
  BY <1>2, <1>3, <1>4, <1>5

(***************************************************************************)
(* One iteration.                                                          *)
(***************************************************************************)
LEMMA PollEventStep ==
  ASSUME TableInv, LoopOK, NEW e \in ievents, PollEvent(e)
  PROVE  PollStep(e)
<1>1. CASE PollAccept(e)
  BY <1>1, AcceptStep
<1>2. CASE PollConnect(e)
  BY <1>2, ConnectStep DEF PollEvent
<1>3. CASE PollStale(e)
  BY <1>3, IdleStep DEF PollStale, PollStep, Outcome
<1>4. CASE PollRead(e)
  <2>1. e.slot \in Live
    BY <1>4 DEF PollRead, LoopOK, Live
  <2>2. UNCHANGED <<table, kernel>> /\ EmitRead(e)
    BY <1>4 DEF PollRead
  <2> QED
    BY <2>1, <2>2, IdleStep, OutcomeOfRead DEF PollStep
<1>5. CASE PollWriteError(e) \/ PollWriteSome(e) \/ PollWriteAll(e) \/ PollWriteDone(e)
  BY <1>5, WriteStep
<1> QED
  BY <1>1, <1>2, <1>3, <1>4, <1>5 DEF PollEvent

(***************************************************************************)
(* Every step, but for the kernel's and for those that leave the table     *)
(* alone, moves each slot as SlotStep says.                                *)
(***************************************************************************)
LEMMA NextStep ==
  ASSUME Inv, [Next]_vars
  PROVE  \/ UNCHANGED <<table, kernel>>
         \/ \E f \in Fds : KernelConnect(f)
         \/ \A s \in Slots : SlotStep(s)
<1> USE DEF Inv
<1>1. CASE Call
  BY <1>1, CallStep
<1>2. CASE \E f \in Fds : KernelConnect(f)
  BY <1>2
<1>3. CASE PollStart
  BY <1>3 DEF PollStart
<1>4. CASE \E e \in ievents : PollEvent(e)
  BY <1>4, PollEventStep DEF PollStep
<1>5. CASE PollReturn
  BY <1>5 DEF PollReturn
<1>6. CASE UNCHANGED vars
  BY <1>6 DEF vars, table, kernel
<1> QED
  BY <1>1, <1>2, <1>3, <1>4, <1>5, <1>6 DEF Next

-----------------------------------------------------------------------------
(* What waits outside socket_poll.                                         *)

\* A connecting socket is watched and its descriptor can be registered; a
\* half closed one has something to send.
WaitInv ==
  \A s \in Slots :
    /\ status[s] = "CONNECTING" => "W" \in mask[s] /\ fd[s] \notin StdFds
    /\ status[s] = "HALFCLOSE" => sbuffersz[s] > 0

\* What WriteInterest needs of the application and of epoll_ctl.
WritesGranted == ~EarlySend /\ "epoll" \notin Faults

\* The interest in writing goes only with the last byte queued, or with the
\* outcome of a connect, before which nothing has been queued.
WriteInv ==
  \A s \in Live :
    /\ fd[s] \notin StdFds /\ sbuffersz[s] > 0 => "W" \in mask[s]
    /\ status[s] = "CONNECTING" => sbuffersz[s] = 0 /\ protocol[s] = "TCP"

(***************************************************************************)
(* Both are inductive next to the table's invariant.                       *)
(***************************************************************************)
LEMMA WaitCorrect == Spec => [](WaitInv /\ (WritesGranted => WriteInv))
<1>1. Init => WaitInv /\ WriteInv
  BY DEF Init, WaitInv, WriteInv, Live
<1>2. Inv /\ WaitInv /\ [Next]_vars => WaitInv'
  <2> SUFFICES ASSUME Inv, WaitInv, [Next]_vars, NEW s \in Slots
               PROVE  /\ status'[s] = "CONNECTING" => "W" \in mask'[s] /\ fd'[s] \notin StdFds
                      /\ status'[s] = "HALFCLOSE" => sbuffersz'[s] > 0
    BY DEF WaitInv
  <2>1. CASE UNCHANGED table
    BY <2>1 DEF table, WaitInv
  <2>2. CASE SlotStep(s)
    <3>1. CASE Opened(s)
      BY <3>1 DEF Opened, Interest
    <3>2. CASE SameFd(s) /\ (Kept(s) \/ HalfClosed(s) \/ Connected(s) \/ Flushed(s))
      BY <3>2 DEF SameFd, Kept, HalfClosed, Connected, Flushed, WaitInv
    <3>3. CASE SameFd(s) /\ Queued(s)
      BY <3>3 DEF SameFd, Queued, WaitInv
    <3> QED
      BY <2>2, <3>1, <3>2, <3>3 DEF SlotStep
  <2> QED
    BY <2>1, <2>2, NextStep DEF KernelConnect
<1>3. WritesGranted /\ Inv /\ WriteInv /\ [Next]_vars => WriteInv'
  <2> SUFFICES ASSUME WritesGranted, Inv, WriteInv, [Next]_vars,
                      NEW s \in Slots, status'[s] # "INVALID"
               PROVE  /\ fd'[s] \notin StdFds /\ sbuffersz'[s] > 0 => "W" \in mask'[s]
                      /\ status'[s] = "CONNECTING" => sbuffersz'[s] = 0 /\ protocol'[s] = "TCP"
    BY DEF WriteInv, Live
  <2>1. status[s] # "INVALID" =>
          /\ fd[s] \notin StdFds /\ sbuffersz[s] > 0 => "W" \in mask[s]
          /\ status[s] = "CONNECTING" => sbuffersz[s] = 0 /\ protocol[s] = "TCP"
    BY DEF WriteInv, Live
  <2>2. sbuffersz[s] \in Nat
    BY NetAssumption DEF Inv, TableInv, TableOK
  <2>3. CASE UNCHANGED table
    BY <2>1, <2>3 DEF table
  <2>4. CASE SlotStep(s)
    <3>1. CASE Opened(s)
      BY <3>1 DEF Opened
    <3>2. CASE SameFd(s) /\ (Kept(s) \/ HalfClosed(s) \/ Connected(s) \/ Flushed(s))
      BY <2>1, <3>2 DEF SameFd, Kept, HalfClosed, Connected, Flushed
    <3>3. CASE SameFd(s) /\ Queued(s)
      BY <2>1, <2>2, <3>3 DEF SameFd, Queued, WritesGranted
    <3> QED
      BY <2>4, <3>1, <3>2, <3>3 DEF SlotStep
  <2> QED
    BY <2>3, <2>4, NextStep DEF KernelConnect
<1>4. CASE WritesGranted
  <2>1. Inv /\ WriteInv /\ [Next]_vars => WriteInv'
    BY <1>3, <1>4
  <2> QED
    BY <1>1, <1>2, <2>1, NetCorrect, PTL DEF Spec
<1>5. CASE ~WritesGranted
  <2>1. WritesGranted => WriteInv
    BY <1>5
  <2> QED
    BY <1>1, <1>2, <2>1, NetCorrect, PTL DEF Spec
<1> QED
  BY <1>4, <1>5

(***************************************************************************)
(* Whatever socket_enableread is asked, whatever is sent early and         *)
(* whatever fails, a socket that is connecting stays watched for writing,  *)
(* by its mask and by epoll.                                               *)
(***************************************************************************)
THEOREM ConnectsAreWatched == Spec => []ConnectingWatched
<1>1. Inv /\ WaitInv => ConnectingWatched
  BY DEF Inv, TableInv, InterestRegistered, WaitInv, ConnectingWatched, Live
<1> QED
  BY <1>1, NetCorrect, WaitCorrect, PTL

(***************************************************************************)
(* A half closed socket always has data to send, so that there is a write  *)
(* left that will make socket_poll close it.                               *)
(***************************************************************************)
THEOREM HalfCloseWaitsForData == Spec => []HalfCloseHasData
<1>1. WaitInv => HalfCloseHasData
  BY DEF WaitInv, HalfCloseHasData
<1> QED
  BY <1>1, WaitCorrect, PTL

(***************************************************************************)
(* A half close is final: until the socket ends it keeps its status and    *)
(* its descriptor, and nothing is added to what it has left to send, but   *)
(* by socket_sendfd, which does not look at the status.                    *)
(***************************************************************************)
THEOREM HalfCloseIsFinal ==
  Spec => [][\A s \in Slots : status[s] = "HALFCLOSE" =>
               \/ status'[s] = "INVALID"
               \/ /\ status'[s] = "HALFCLOSE" /\ fd'[s] = fd[s]
                  /\ protocol[s] # "IPC" => sbuffersz'[s] <= sbuffersz[s]]_vars
<1> DEFINE Final(s) == status[s] = "HALFCLOSE" =>
             \/ status'[s] = "INVALID"
             \/ /\ status'[s] = "HALFCLOSE" /\ fd'[s] = fd[s]
                /\ protocol[s] # "IPC" => sbuffersz'[s] <= sbuffersz[s]
<1>1. ASSUME Inv, [Next]_vars, NEW s \in Slots PROVE Final(s)
  <2>1. sbuffersz[s] \in Nat
    BY <1>1, NetAssumption DEF Inv, TableInv, TableOK
  <2>2. CASE UNCHANGED table
    BY <2>1, <2>2 DEF table
  <2>3. CASE SlotStep(s)
    <3>1. CASE status'[s] = "INVALID" \/ Opened(s)
      BY <3>1 DEF Opened
    <3>2. CASE SameFd(s) /\ (Kept(s) \/ HalfClosed(s) \/ Connected(s))
      BY <2>1, <3>2 DEF SameFd, Kept, HalfClosed, Connected
    <3>3. CASE SameFd(s) /\ (Queued(s) \/ Flushed(s))
      BY <3>3 DEF SameFd, Queued, Flushed
    <3> QED
      BY <2>3, <3>1, <3>2, <3>3 DEF SlotStep
  <2> QED
    BY <1>1, <2>2, <2>3, NextStep DEF KernelConnect
<1>2. Inv /\ [Next]_vars => [\A s \in Slots : Final(s)]_vars
  BY <1>1
<1> QED
  BY <1>2, NetCorrect, PTL DEF Spec

(***************************************************************************)
(* If the application waits for the connection before it sends, and        *)
(* epoll_ctl does not fail, queued data is never stranded, on any socket   *)
(* whose descriptor is above STDERR_FILENO.                                *)
(***************************************************************************)
THEOREM NothingStranded ==
  WritesGranted /\ Spec =>
    [](\A s \in Live : fd[s] \notin StdFds /\ sbuffersz[s] > 0 =>
         "W" \in mask[s] /\ "W" \in ep_mask[fd[s]])
<1> DEFINE Watched == \A s \in Live : fd[s] \notin StdFds /\ sbuffersz[s] > 0 =>
                        "W" \in mask[s] /\ "W" \in ep_mask[fd[s]]
<1>1. CASE WritesGranted
  <2>1. Inv /\ (WritesGranted => WriteInv) => Watched
    BY <1>1 DEF Inv, TableInv, InterestRegistered, WriteInv
  <2> QED
    BY <2>1, NetCorrect, WaitCorrect, PTL
<1>2. CASE ~WritesGranted
  BY <1>2
<1> QED
  BY <1>1, <1>2

(***************************************************************************)
(* WriteInterest as the run checks it, without standard descriptors.       *)
(***************************************************************************)
THEOREM InterestInWriting == StdFds = {} /\ WritesGranted /\ Spec => []WriteInterest
<1>1. CASE StdFds = {} /\ WritesGranted
  <2>1. (WritesGranted => WriteInv) => WriteInterest
    BY <1>1 DEF WriteInv, WriteInterest
  <2> QED
    BY <2>1, WaitCorrect, PTL
<1>2. CASE ~(StdFds = {} /\ WritesGranted)
  BY <1>2
<1> QED
  BY <1>1, <1>2

-----------------------------------------------------------------------------
(* What a step does to the list of free slots and to epoll's user data.    *)

\* Only the descriptor of a live slot gets a registration that it had not.
EpKept ==
  \A f \in StdFds : ep_ud'[f] = ep_ud[f] \/ ep_ud'[f] = NoSlot \/ \E s \in Live : fd[s] = f

ListStep == Q!Next \/ (free' = free /\ Live' = Live)

TableStep == EpKept /\ ListStep

(***************************************************************************)
(* _create_socket.                                                         *)
(***************************************************************************)
LEMMA CreateTable ==
  ASSUME TableInv, NEW f \in Fds, NEW kind, NEW st, st # "INVALID", NEW p, NEW lim,
         NEW m, f \in StdFds => m = {},
         CreateSocket(f, kind, st, p, lim, m)
  PROVE  TableStep
<1>1. Head(free) \in Slots /\ free # <<>> /\ free' = Tail(free)
      /\ status' = [status EXCEPT ![Head(free)] = st]
  BY HeadIsFree DEF CreateSocket
<1>2. Live' = Live \cup {Head(free)}
  BY <1>1 DEF Live, TableInv, TableOK
<1>3. Q!Allocate
  BY <1>1, <1>2 DEF Q!Allocate
<1>4. EpKept
  BY NetAssumption DEF CreateSocket, EpKept, TableInv, KernelOK
<1> QED
  BY <1>3, <1>4 DEF TableStep, ListStep, Q!Next

(***************************************************************************)
(* _create_socket followed by _close_socket.                               *)
(***************************************************************************)
LEMMA RotateTable ==
  ASSUME NEW p, NEW lim, CreateThenClose(p, lim)
  PROVE  TableStep
<1>1. free # <<>> /\ free' = Append(Tail(free), Head(free))
  BY DEF CreateThenClose
<1>2. Live' = Live /\ EpKept
  BY DEF CreateThenClose, Live, EpKept, kernel
<1>3. Q!Cycle
  BY <1>1, <1>2 DEF Q!Cycle
<1> QED
  BY <1>2, <1>3 DEF TableStep, ListStep, Q!Next

(***************************************************************************)
(* A socket is closed.                                                     *)
(***************************************************************************)
LEMMA FreeTable ==
  ASSUME TableInv, NEW s \in Live, FreeSlot(s),
         \A f \in StdFds \ {fd[s]} : ep_ud'[f] = ep_ud[f]
  PROVE  TableStep
<1>1. free' = Append(free, s) /\ status' = [status EXCEPT ![s] = "INVALID"] /\ s \in Slots
  BY DEF FreeSlot, Live
<1>2. Live' = Live \ {s}
  BY <1>1 DEF Live, TableInv, TableOK
<1>3. Q!Release(s)
  BY <1>1, <1>2 DEF Q!Release
<1>4. EpKept
  BY DEF EpKept
<1> QED
  BY <1>3, <1>4 DEF TableStep, ListStep, Q!Next

(***************************************************************************)
(* _close_socket.                                                          *)
(***************************************************************************)
LEMMA CloseTable ==
  ASSUME TableInv, NEW s \in Live, CloseSocket(s)
  PROVE  TableStep
<1>1. fd[s] \in Fds
  BY DEF Live, TableInv, TableOK, SingleOwner
<1>2. \A f \in StdFds \ {fd[s]} : ep_ud'[f] = ep_ud[f]
  BY <1>1, NetAssumption DEF CloseSocket, CloseFd, kernel, TableInv, KernelOK
<1> QED
  BY <1>2, FreeTable DEF CloseSocket

(***************************************************************************)
(* A live socket stays live; its registration may change.                  *)
(***************************************************************************)
LEMMA SameTable ==
  ASSUME TableInv, NEW s \in Live, free' = free,
         \/ status' = status
         \/ \E st \in Status \ {"INVALID"} : status' = [status EXCEPT ![s] = st],
         \/ ep_ud' = ep_ud
         \/ \E m : Subscribe(s, m)
  PROVE  TableStep
<1>1. s \in Slots /\ status[s] # "INVALID" /\ fd[s] \in Fds
  BY DEF Live, TableInv, TableOK, SingleOwner
<1>2. Live' = Live
  BY <1>1 DEF Live, TableInv, TableOK
<1>3. EpKept
  BY <1>1, NetAssumption DEF EpKept, Subscribe, TableInv, KernelOK
<1> QED
  BY <1>2, <1>3 DEF TableStep, ListStep

(***************************************************************************)
(* The same for the calls of the API.                                      *)
(***************************************************************************)
LEMMA CallTable == ASSUME TableInv, Call PROVE TableStep
<1>1. ASSUME NEW f \in Fds, NEW p \in BindProtocols, Bind(f, p) PROVE TableStep
  BY <1>1, CreateTable, RotateTable DEF Bind
<1>2. ASSUME NEW f \in Fds, Listen(f) PROVE TableStep
  <2>1. f \notin StdFds
    BY <1>2, ClosedIsFree DEF Listen
  <2> QED
    BY <1>2, <2>1, CreateTable, RotateTable DEF Listen
<1>3. ASSUME NEW f \in Fds, NEW block \in Blocking, Connect(f, block) PROVE TableStep
  <2>1. f \notin StdFds
    BY <1>3, ClosedIsFree DEF Connect
  <2>2. UNCHANGED <<table, ep_ud, ep_mask>> => TableStep
    BY DEF table, TableStep, ListStep, EpKept, Live
  <2> QED
    BY <1>3, <2>1, <2>2, CreateTable, RotateTable DEF Connect
<1>4. ASSUME NEW s \in Live, NEW read \in BOOLEAN, EnableRead(s, read) PROVE TableStep
  BY <1>4, SameTable DEF EnableRead
<1>5. ASSUME NEW s \in Live, NEW n, Enqueue(s, n) PROVE TableStep
  <2>1. CASE CloseSocket(s)
    BY <2>1, CloseTable
  <2>2. CASE /\ IF sbuffersz[s] = 0 THEN Subscribe(s, mask[s] \cup {"W"})
                ELSE UNCHANGED <<mask, ep_ud, ep_mask>>
             /\ UNCHANGED <<status, free>>
    BY <2>2, SameTable
  <2> QED
    BY <1>5, <2>1, <2>2 DEF Enqueue
<1>6. ASSUME NEW s \in Live, NEW sz \in 1 .. INT_MAX, Send(s, sz) \/ SendFd(s, sz)
      PROVE  TableStep
  <2>1. \/ \E n : Enqueue(s, n)
        \/ CloseSocket(s)
    BY <1>6 DEF Send, SendFd, Transmit
  <2> QED
    BY <1>5, <2>1, CloseTable
<1>7. ASSUME NEW s \in Live, Read(s) PROVE TableStep
  BY <1>7, CloseTable DEF Read
<1>8. ASSUME NEW s \in Live, NEW force \in BOOLEAN, Close(s, force) PROVE TableStep
  <2>1. CASE CloseSocket(s)
    BY <2>1, CloseTable
  <2>2. CASE /\ status' = [status EXCEPT ![s] = "HALFCLOSE"]
             /\ UNCHANGED <<fd, protocol, mask, sbuffersz, slimit, free, kernel>>
    BY <2>2, SameTable DEF Status, kernel
  <2> QED
    BY <1>8, <2>1, <2>2 DEF Close
<1>9. ASSUME NEW s \in Live, NEW lim, Limit(s, lim) PROVE TableStep
  BY <1>9, SameTable DEF Limit, kernel
<1>10. ASSUME Reinit PROVE TableStep
  <2>1. free' = [i \in 1 .. Max |-> i - 1] /\ Live' = {}
    BY <1>10 DEF Reinit, Live
  <2>2. EpKept
    BY <1>10, NetAssumption DEF Reinit, EpKept
  <2> QED
    BY <2>1, <2>2 DEF TableStep, ListStep, Q!Next, Q!Reset
<1> QED
  BY <1>1, <1>2, <1>3, <1>4, <1>6, <1>7, <1>8, <1>9, <1>10 DEF Call

(***************************************************************************)
(* And for an iteration of socket_poll.                                    *)
(***************************************************************************)
LEMMA PollEventTable ==
  ASSUME TableInv, LoopOK, NEW e \in ievents, PollEvent(e)
  PROVE  TableStep
<1> DEFINE s == e.slot
<1>1. s \in Slots /\ (status[s] # "INVALID" => s \in Live /\ fd[s] \in Fds)
  BY DEF LoopOK, Live, TableInv, TableOK, SingleOwner
<1>2. ASSUME UNCHANGED <<table, kernel>> PROVE TableStep
  BY <1>2 DEF table, kernel, TableStep, ListStep, EpKept, Live
<1>3. CASE PollAccept(e)
  <2>1. ASSUME NEW f \in Fds, os[f] = "closed",
               CreateSocket(f, "conn", "CONNECTED", "TCP", slimit[s], {})
        PROVE  TableStep
    BY <2>1, CreateTable
  <2> QED
    BY <1>2, <1>3, <2>1, RotateTable DEF PollAccept
<1>4. CASE PollConnect(e)
  <2>1. s \in Live
    BY <1>1, <1>4 DEF PollConnect
  <2>2. CASE status' = [status EXCEPT ![s] = "CONNECTED"] /\ Subscribe(s, {}) /\ free' = free
    <3>1. "CONNECTED" \in Status \ {"INVALID"}
      BY DEF Status
    <3> QED
      BY <2>1, <2>2, <3>1, SameTable
  <2> QED
    BY <1>4, <2>1, <2>2, CloseTable DEF PollConnect
<1>5. CASE PollStale(e) \/ PollRead(e)
  BY <1>2, <1>5 DEF PollStale, PollRead
<1>6. CASE PollWriteError(e)
  BY <1>1, <1>6, CloseTable DEF PollWriteError
<1>7. CASE PollWriteSome(e)
  <2>1. UNCHANGED <<status, free, ep_ud>> /\ s \in Live
    BY <1>1, <1>7 DEF PollWriteSome, kernel
  <2> QED
    BY <2>1, SameTable
<1>8. CASE PollWriteAll(e)
  <2>1. UNCHANGED <<status, free>> /\ s \in Live /\ Subscribe(s, mask[s] \ {"W"})
    BY <1>1, <1>8 DEF PollWriteAll
  <2> QED
    BY <2>1, SameTable
<1>9. CASE PollWriteDone(e)
  <2>1. s \in Live /\ FreeSlot(s) /\ fd[s] \in Fds
    BY <1>1, <1>9 DEF PollWriteDone
  <2>2. \/ Subscribe(s, mask[s] \ {"W"})
        \/ CloseFd(fd[s])
    BY <1>9 DEF PollWriteDone
  <2>3. \A f \in StdFds \ {fd[s]} : ep_ud'[f] = ep_ud[f]
    BY <2>1, <2>2, NetAssumption DEF Subscribe, CloseFd, TableInv, KernelOK
  <2> QED
    BY <2>1, <2>3, FreeTable
<1> QED
  BY <1>3, <1>4, <1>5, <1>6, <1>7, <1>8, <1>9 DEF PollEvent

(***************************************************************************)
(* And for every step.                                                     *)
(***************************************************************************)
LEMMA NextTable == ASSUME Inv, [Next]_vars PROVE TableStep
<1>1. ASSUME UNCHANGED table, ep_ud' = ep_ud PROVE TableStep
  BY <1>1 DEF table, TableStep, ListStep, EpKept, Live
<1>2. CASE \E f \in Fds : KernelConnect(f)
  BY <1>1, <1>2 DEF KernelConnect
<1>3. CASE PollStart \/ PollReturn \/ UNCHANGED vars
  BY <1>1, <1>3 DEF PollStart, PollReturn, vars, kernel
<1> QED
  BY <1>2, <1>3, CallTable, PollEventTable DEF Next, Inv

(***************************************************************************)
(* The table hands its slots out in the order in which they were freed,    *)
(* for every size: it implements SlotQueue.                                *)
(***************************************************************************)
THEOREM SlotsQueue == Spec => SlotsInOrder
<1>1. Init => Q!Init
  BY DEF Init, Q!Init, Live
<1>2. Inv /\ [Next]_vars => [Q!Next]_<<free, Live>>
  BY NextTable DEF TableStep, ListStep
<1> QED
  BY <1>1, <1>2, NetCorrect, PTL DEF Spec, SlotsInOrder, Q!Spec

-----------------------------------------------------------------------------
(* The arrays of events.                                                   *)

\* Outside socket_poll both arrays are empty; inside, i_events only shrinks.
LoopInv ==
  /\ IsFiniteSet(ievents)
  /\ ~polling => ievents = {} /\ oevents = <<>>
  /\ OutputFits

(***************************************************************************)
(* np_poll gives at most Max events, one for each ready descriptor.        *)
(***************************************************************************)
LEMMA PollStartCount ==
  ASSUME PollStart
  PROVE  IsFiniteSet(ievents') /\ Cardinality(ievents') \in 0 .. Max
<1>1. PICK ready \in SUBSET {f \in Fds : ep_ud[f] # NoSlot} :
        /\ Cardinality(ready) \in 1 .. Max
        /\ \E r \in [ready -> [read : BOOLEAN, write : BOOLEAN]] :
             ievents' = {[fd |-> f, slot |-> ep_ud[f],
                          read |-> r[f].read, write |-> r[f].write] : f \in ready}
  BY DEF PollStart
<1>2. PICK r \in [ready -> [read : BOOLEAN, write : BOOLEAN]] :
        ievents' = {[fd |-> f, slot |-> ep_ud[f],
                     read |-> r[f].read, write |-> r[f].write] : f \in ready}
  BY <1>1
<1>3. IsFiniteSet(ready)
  BY NetAssumption, FS_Subset
<1> DEFINE F == [f \in ready |-> [fd |-> f, slot |-> ep_ud[f],
                                  read |-> r[f].read, write |-> r[f].write]]
<1>4. F \in Surjection(ready, ievents')
  BY <1>2 DEF Surjection
<1>5. IsFiniteSet(ievents') /\ Cardinality(ievents') <= Cardinality(ready)
  BY <1>3, <1>4, FS_Surjection
<1>6. Cardinality(ievents') \in Nat
  BY <1>5, FS_CardinalityType
<1> QED
  BY <1>1, <1>5, <1>6, NetAssumption

(***************************************************************************)
(* One iteration uses up an event and puts out at most one.                *)
(***************************************************************************)
LEMMA PollEventCount ==
  ASSUME Inv, LoopInv, NEW e \in ievents, PollEvent(e)
  PROVE  LoopInv'
<1>1. /\ IsFiniteSet(ievents') /\ Cardinality(ievents') = Cardinality(ievents) - 1
      /\ Cardinality(ievents) \in Nat
  <2>1. ievents' = ievents \ {e} /\ IsFiniteSet(ievents)
    BY DEF PollEvent, LoopInv
  <2> QED
    BY <2>1, FS_RemoveElement, FS_CardinalityType
<1>2. Outcome(e)
  BY PollEventStep DEF Inv, PollStep
<1>3. oevents \in Seq([type : EventTypes, id : Slots])
  BY DEF Inv, LoopOK
<1>4. ASSUME NEW type \in EventTypes, NEW s \in Slots, Emit(type, s)
      PROVE  Len(oevents') = Len(oevents) + 1
  <2>1. [type |-> type, id |-> s] \in [type : EventTypes, id : Slots]
    OBVIOUS
  <2> QED
    BY <1>3, <1>4, <2>1, AppendToQueue DEF Emit
<1>5. Len(oevents) \in Nat /\ (Len(oevents') = Len(oevents) \/ Len(oevents') = Len(oevents) + 1)
  BY <1>2, <1>3, <1>4, LenProperties DEF Outcome
<1>6. Len(oevents') + Cardinality(ievents') <= Max
  BY <1>1, <1>5, NetAssumption DEF LoopInv, OutputFits
<1> QED
  BY <1>1, <1>6 DEF LoopInv, OutputFits, PollEvent

(***************************************************************************)
(* The loop's arrays, for every number of slots and descriptors.           *)
(***************************************************************************)
LEMMA LoopCorrect == Spec => []LoopInv
<1>1. Init => LoopInv
  BY FS_EmptySet, EmptySeq, NetAssumption DEF Init, LoopInv, OutputFits
<1>2. Inv /\ LoopInv /\ [Next]_vars => LoopInv'
  <2> SUFFICES ASSUME Inv, LoopInv, [Next]_vars PROVE LoopInv'
    OBVIOUS
  <2>1. UNCHANGED loop => LoopInv'
    BY DEF loop, LoopInv, OutputFits
  <2>2. CASE PollStart
    <3>1. oevents' = <<>> /\ polling'
      BY <2>2 DEF PollStart, LoopInv
    <3>2. Len(oevents') = 0
      BY <3>1
    <3> QED
      BY <2>2, <3>1, <3>2, PollStartCount, NetAssumption DEF LoopInv, OutputFits
  <2>3. CASE PollReturn
    <3>1. ievents' = {} /\ oevents' = <<>> /\ Cardinality({}) = 0 /\ Len(<<>>) = 0
          /\ IsFiniteSet({})
      BY <2>3, FS_EmptySet DEF PollReturn
    <3> QED
      BY <3>1, NetAssumption DEF LoopInv, OutputFits
  <2>4. CASE \E e \in ievents : PollEvent(e)
    BY <2>4, PollEventCount
  <2>5. CASE Call \/ (\E f \in Fds : KernelConnect(f)) \/ UNCHANGED vars
    BY <2>1, <2>5 DEF Call, KernelConnect, vars
  <2> QED
    BY <2>2, <2>3, <2>4, <2>5 DEF Next
<1> QED
  BY <1>1, <1>2, NetCorrect, PTL DEF Spec

(***************************************************************************)
(* socket_poll never writes beyond o_events, which has Max entries, though *)
(* its loop does not compare.                                              *)
(***************************************************************************)
THEOREM OutputHasRoom == Spec => []OutputFits
<1>1. LoopInv => OutputFits
  BY DEF LoopInv
<1> QED
  BY <1>1, LoopCorrect, PTL

(***************************************************************************)
(* During socket_poll no socket opens, connects or closes without an event *)
(* of its own, and no iteration does so to two of them.                    *)
(***************************************************************************)
THEOREM PollingReports == Spec => PollReports
<1> DEFINE A == polling => \A s \in Slots : status'[s] # status[s] =>
                  /\ Len(oevents') = Len(oevents) + 1
                  /\ oevents'[Len(oevents')].id = s
                  /\ \A t \in Slots \ {s} : status'[t] = status[t]
<1>1. ASSUME Inv, NEW e \in ievents, PollEvent(e) PROVE A
  <2>1. Outcome(e) /\ status \in [Slots -> Status]
        /\ oevents \in Seq([type : EventTypes, id : Slots])
    BY <1>1, PollEventStep DEF Inv, TableInv, TableOK, PollStep, LoopOK
  <2>2. CASE status' = status
    BY <2>2
  <2>3. ASSUME NEW s \in Slots, NEW type \in EventTypes, NEW st \in Status,
               Emit(type, s), status' = [status EXCEPT ![s] = st]
        PROVE  A
    <3>1. [type |-> type, id |-> s] \in [type : EventTypes, id : Slots]
      OBVIOUS
    <3>2. /\ Len(oevents') = Len(oevents) + 1
          /\ oevents'[Len(oevents')] = [type |-> type, id |-> s]
      BY <2>1, <2>3, <3>1, AppendToQueue DEF Emit
    <3>3. \A t \in Slots \ {s} : status'[t] = status[t]
      BY <2>1, <2>3
    <3> QED
      BY <3>2, <3>3
  <2> QED
    BY <2>1, <2>2, <2>3 DEF Outcome
<1>2. Inv /\ [Next]_vars => A
  <2> SUFFICES ASSUME Inv, [Next]_vars, polling PROVE A
    OBVIOUS
  <2>1. CASE UNCHANGED table
    BY <2>1 DEF table
  <2>2. UNCHANGED table \/ \E e \in ievents : PollEvent(e)
    BY DEF Next, Call, KernelConnect, PollStart, PollReturn, vars
  <2> QED
    BY <1>1, <2>1, <2>2
<1>3. Inv /\ [Next]_vars => [A]_vars
  BY <1>2
<1> QED
  BY <1>3, NetCorrect, PTL DEF Spec, PollReports

-----------------------------------------------------------------------------
(* What one batch of events says.                                          *)

\* The application binds no standard descriptor: there is then no socket
\* whose closing leaves its descriptor registered.
StdUnbound == StdFds = {} \/ BindProtocols = {}

StdApart ==
  /\ \A s \in Live : fd[s] \notin StdFds
  /\ \A f \in StdFds : ep_ud[f] = NoSlot

\* What a status says of the descriptor.
KindsInv ==
  \A s \in Live :
    /\ status[s] = "LISTENING" => os[fd[s]] = "listen"
    /\ status[s] = "CONNECTING" => os[fd[s]] \in {"connecting", "conn", "failed"}
    /\ status[s] = "CONNECTED" => os[fd[s]] = "conn"

\* The events that wait are those of different live sockets.
EventInv ==
  /\ \A e \in ievents : e.slot \in Live /\ fd[e.slot] = e.fd /\ os[e.fd] # "connecting"
  /\ \A e1, e2 \in ievents : e1.slot = e2.slot => e1 = e2

\* BatchTellsTruth, spelt out, and: no socket with an event to come has been
\* spoken of.
BatchInv ==
  /\ \A i \in 1 .. Len(oevents) : \A j \in i + 1 .. Len(oevents) :
       oevents[j].id = oevents[i].id => oevents[i].type \in Ends /\ oevents[j].type = "ACCEPT"
  /\ \A i \in 1 .. Len(oevents) :
       (\A j \in i + 1 .. Len(oevents) : oevents[j].id # oevents[i].id) =>
         (oevents[i].type \in Ends <=> oevents[i].id \notin Live)
  /\ \A e \in ievents : \A i \in 1 .. Len(oevents) : oevents[i].id # e.slot

OwnerInv == StdApart /\ KindsInv /\ EventInv /\ BatchInv

(***************************************************************************)
(* Standard descriptors stay out of the table and of epoll.                *)
(***************************************************************************)
LEMMA StdStep ==
  ASSUME StdUnbound, Inv, StdApart, [Next]_vars
  PROVE  StdApart'
<1>1. ASSUME NEW s \in Slots, status'[s] # "INVALID" PROVE fd'[s] \notin StdFds
  <2>1. CASE UNCHANGED table
    BY <1>1, <2>1 DEF table, StdApart, Live
  <2>2. CASE SlotStep(s)
    BY <1>1, <2>2 DEF SlotStep, Opened, SameFd, StdApart, StdUnbound, Live
  <2> QED
    BY <2>1, <2>2, NextStep DEF KernelConnect
<1>2. \A f \in StdFds : ep_ud'[f] = NoSlot
  BY NextTable DEF TableStep, EpKept, StdApart
<1> QED
  BY <1>1, <1>2 DEF StdApart, Live

(***************************************************************************)
(* _onconnect calls a socket connected only on an event, and the kernel    *)
(* gives none before it has decided.                                       *)
(***************************************************************************)
LEMMA KindsStep ==
  ASSUME Inv, KindsInv, EventInv, [Next]_vars
  PROVE  KindsInv'
<1> SUFFICES ASSUME NEW s \in Slots, status'[s] # "INVALID"
             PROVE  /\ status'[s] = "LISTENING" => os'[fd'[s]] = "listen"
                    /\ status'[s] = "CONNECTING" => os'[fd'[s]] \in {"connecting", "conn", "failed"}
                    /\ status'[s] = "CONNECTED" => os'[fd'[s]] = "conn"
  BY DEF KindsInv, Live
<1>1. status[s] # "INVALID" =>
        /\ status[s] = "LISTENING" => os[fd[s]] = "listen"
        /\ status[s] = "CONNECTING" => os[fd[s]] \in {"connecting", "conn", "failed"}
        /\ status[s] = "CONNECTED" => os[fd[s]] = "conn"
  BY DEF KindsInv, Live
<1>2. CASE UNCHANGED <<table, kernel>>
  BY <1>1, <1>2 DEF table, kernel
<1>3. CASE \E f \in Fds : KernelConnect(f)
  <2> PICK f \in Fds : KernelConnect(f)
    BY <1>3
  <2>1. UNCHANGED <<status, fd>> /\ os \in [Fds -> Kinds]
    BY DEF KernelConnect, table, Inv, TableInv, KernelOK
  <2>2. os[f] = "connecting" /\ \E result \in {"conn", "failed"} : os' = [os EXCEPT ![f] = result]
    BY DEF KernelConnect
  <2>3. fd[s] \in Fds
    BY <2>1 DEF Inv, TableInv, TableOK, SingleOwner, Live
  <2> QED
    BY <1>1, <2>1, <2>2, <2>3
<1>4. CASE SlotStep(s)
  <2>1. CASE Opened(s)
    BY <2>1 DEF Opened, NewKind
  <2>2. CASE SameFd(s) /\ (Kept(s) \/ Queued(s) \/ Flushed(s) \/ HalfClosed(s))
    BY <1>1, <2>2 DEF SameFd, Kept, Queued, Flushed, HalfClosed
  <2>3. CASE SameFd(s) /\ Connected(s)
    <3>1. os[fd[s]] # "connecting"
      BY <2>3 DEF Connected, EventInv
    <3> QED
      BY <1>1, <2>3, <3>1 DEF SameFd, Connected
  <2> QED
    BY <1>4, <2>1, <2>2, <2>3 DEF SlotStep
<1> QED
  BY <1>2, <1>3, <1>4, NextStep

(***************************************************************************)
(* np_poll names the sockets that it has something to say of.              *)
(***************************************************************************)
LEMMA PollStartEvents ==
  ASSUME Inv, StdApart, PollStart
  PROVE  EventInv'
<1>1. PICK ready \in SUBSET {f \in Fds : ep_ud[f] # NoSlot} :
        \E r \in [ready -> [read : BOOLEAN, write : BOOLEAN]] :
          /\ \A f \in ready : r[f] \in Reports(f)
          /\ ievents' = {[fd |-> f, slot |-> ep_ud[f],
                          read |-> r[f].read, write |-> r[f].write] : f \in ready}
  BY DEF PollStart
<1>2. ASSUME NEW f \in ready
      PROVE  ep_ud[f] \in Live /\ fd[ep_ud[f]] = f
  <2>1. f \in Fds \ StdFds /\ ep_ud[f] # NoSlot
    BY DEF StdApart
  <2>2. PICK s \in Live : fd[s] = f
    BY <2>1 DEF Inv, TableInv, InterestRegistered
  <2> QED
    BY <2>1, <2>2 DEF Inv, TableInv, InterestRegistered
<1>3. \A f \in ready : os[f] # "connecting"
  BY <1>1 DEF Reports
<1>4. UNCHANGED <<status, fd, os>> /\ Live' = Live
  BY DEF PollStart, table, kernel, Live
<1>5. \A e \in ievents' : e.fd \in ready /\ e.slot = ep_ud[e.fd]
  BY <1>1
<1>6. \A e1, e2 \in ievents' : e1.fd = e2.fd => e1 = e2
  BY <1>1
<1>7. \A e \in ievents' : e.slot \in Live /\ fd[e.slot] = e.fd /\ os[e.fd] # "connecting"
  BY <1>2, <1>3, <1>5
<1> QED
  BY <1>4, <1>6, <1>7 DEF EventInv

(***************************************************************************)
(* An iteration disturbs no socket whose event is still to come.           *)
(***************************************************************************)
LEMMA PollEventEvents ==
  ASSUME Inv, EventInv, NEW e \in ievents, PollEvent(e)
  PROVE  EventInv'
<1>1. ievents' = ievents \ {e}
  BY DEF PollEvent
<1>2. ASSUME NEW d \in ievents'
      PROVE  d.slot \in Live' /\ fd'[d.slot] = d.fd /\ os'[d.fd] # "connecting"
  <2>1. d \in ievents /\ d.slot \in Live \ {e.slot}
    BY <1>1 DEF EventInv
  <2>2. SameFd(d.slot) /\ Kept(d.slot) /\ d.slot \in Slots
    BY <2>1, PollEventStep DEF PollStep, Inv, Live
  <2>3. fd[d.slot] = d.fd /\ os[d.fd] # "connecting"
    BY <2>1 DEF EventInv
  <2> QED
    BY <2>2, <2>3 DEF SameFd, Kept, Live
<1> QED
  BY <1>1, <1>2 DEF EventInv

(***************************************************************************)
(* An iteration that reports nothing leaves the account right.             *)
(***************************************************************************)
LEMMA QuietBatch ==
  ASSUME BatchInv, oevents' = oevents, status' = status, ievents' \subseteq ievents
  PROVE  BatchInv'
<1>1. Live' = Live
  BY DEF Live
<1> QED
  BY <1>1 DEF BatchInv

(***************************************************************************)
(* One event is appended: it is the first of its batch about the socket of *)
(* the iteration, or it accepts a connection into a slot that was closed.  *)
(***************************************************************************)
LEMMA EmitBatch ==
  ASSUME Inv, EventInv, BatchInv, NEW e \in ievents, ievents' = ievents \ {e},
         NEW s \in Slots, NEW type \in EventTypes, NEW st \in Status,
         Emit(type, s), status' = [status EXCEPT ![s] = st],
         \/ s = e.slot /\ s \in Live /\ (type \in Ends <=> st = "INVALID")
         \/ s \notin Live /\ type = "ACCEPT" /\ st = "CONNECTED"
  PROVE  BatchInv'
<1> DEFINE n == Len(oevents)
           new == [type |-> type, id |-> s]
<1>1. /\ Len(oevents') = n + 1 /\ n \in Nat
      /\ \A i \in 1 .. n : oevents'[i] = oevents[i]
      /\ oevents'[n + 1] = new
  <2>1. new \in [type : EventTypes, id : Slots]
        /\ oevents \in Seq([type : EventTypes, id : Slots])
    BY DEF Inv, LoopOK
  <2> QED
    BY <2>1, AppendToQueue DEF Emit
<1>2. /\ s \in Live' <=> st # "INVALID"
      /\ \A t \in Slots \ {s} : t \in Live' <=> t \in Live
  BY DEF Live, Inv, TableInv, TableOK
<1>3. ASSUME NEW i \in 1 .. n PROVE oevents[i].id \in Slots
  <2>1. oevents \in Seq([type : EventTypes, id : Slots])
    BY DEF Inv, LoopOK
  <2>2. oevents[i] \in [type : EventTypes, id : Slots]
    BY <2>1, ElementOfSeq
  <2> QED
    BY <2>2
<1>4. type \in Ends <=> s \notin Live'
  BY <1>2 DEF Ends
\* What was said of the slot before is that it was closed.
<1>5. ASSUME NEW i \in 1 .. n, oevents[i].id = s
      PROVE  oevents[i].type \in Ends /\ type = "ACCEPT"
  <2>1. s \notin Live /\ type = "ACCEPT"
    BY <1>5 DEF BatchInv
  <2>2. CASE \A j \in i + 1 .. n : oevents[j].id # oevents[i].id
    BY <1>5, <2>1, <2>2 DEF BatchInv
  <2>3. CASE \E j \in i + 1 .. n : oevents[j].id = oevents[i].id
    BY <2>1, <2>3 DEF BatchInv
  <2> QED
    BY <2>1, <2>2, <2>3
<1>6. ASSUME NEW i \in 1 .. n + 1, NEW j \in i + 1 .. n + 1, oevents'[j].id = oevents'[i].id
      PROVE  oevents'[i].type \in Ends /\ oevents'[j].type = "ACCEPT"
  <2>1. CASE j = n + 1
    <3>1. i \in 1 .. n /\ oevents[i].id = s /\ oevents'[j].type = type
      BY <1>1, <1>6, <2>1
    <3> QED
      BY <1>1, <1>5, <3>1
  <2>2. CASE j # n + 1
    <3>1. i \in 1 .. n /\ j \in i + 1 .. n /\ j \in 1 .. n
      BY <1>1, <2>2
    <3> QED
      BY <1>1, <1>6, <3>1 DEF BatchInv
  <2> QED
    BY <2>1, <2>2
<1>7. ASSUME NEW i \in 1 .. n + 1, \A j \in i + 1 .. n + 1 : oevents'[j].id # oevents'[i].id
      PROVE  oevents'[i].type \in Ends <=> oevents'[i].id \notin Live'
  <2>1. CASE i = n + 1
    BY <1>1, <1>4, <2>1
  <2>2. CASE i # n + 1
    <3>1. i \in 1 .. n /\ n + 1 \in i + 1 .. n + 1
      BY <1>1, <2>2
    <3>2. oevents[i].id # s /\ oevents'[i] = oevents[i]
      BY <1>1, <1>7, <3>1
    <3>3. \A j \in i + 1 .. n : oevents[j].id # oevents[i].id
      <4>1. \A j \in i + 1 .. n : j \in i + 1 .. n + 1 /\ j \in 1 .. n
        BY <1>1, <3>1
      <4> QED
        BY <1>1, <1>7, <3>2, <4>1
    <3>4. oevents[i].type \in Ends <=> oevents[i].id \notin Live
      BY <3>1, <3>3 DEF BatchInv
    <3> QED
      BY <1>2, <1>3, <3>1, <3>2, <3>4
  <2> QED
    BY <2>1, <2>2
<1>8. ASSUME NEW d \in ievents', NEW i \in 1 .. n + 1 PROVE oevents'[i].id # d.slot
  <2>1. d \in ievents /\ d.slot # e.slot /\ d.slot \in Live
    BY DEF EventInv
  <2>2. CASE i = n + 1
    BY <1>1, <2>1, <2>2
  <2>3. CASE i # n + 1
    <3>1. i \in 1 .. n
      BY <1>1, <2>3
    <3> QED
      BY <1>1, <2>1, <3>1 DEF BatchInv
  <2> QED
    BY <2>2, <2>3
<1> QED
  BY <1>1, <1>6, <1>7, <1>8 DEF BatchInv

(***************************************************************************)
(* Under StdUnbound the four are inductive next to Inv and LoopInv.        *)
(***************************************************************************)
LEMMA OwnerStep ==
  ASSUME StdUnbound, Inv, LoopInv, OwnerInv, [Next]_vars
  PROVE  OwnerInv'
<1> USE DEF OwnerInv
<1>1. StdApart' /\ KindsInv'
  BY StdStep, KindsStep
<1>2. CASE Call
  <2>1. ievents' = {} /\ oevents' = <<>> /\ Len(<<>>) = 0
    BY <1>2 DEF Call, loop, LoopInv
  <2>2. 1 .. Len(oevents') = {}
    BY <2>1
  <2>3. EventInv' /\ BatchInv'
    BY <2>1, <2>2 DEF EventInv, BatchInv
  <2> QED
    BY <1>1, <2>3
<1>3. CASE \E f \in Fds : KernelConnect(f)
  <2> PICK f \in Fds : KernelConnect(f)
    BY <1>3
  <2>1. UNCHANGED <<status, fd, ievents, oevents>>
    BY DEF KernelConnect, table, loop
  <2>2. \E result \in {"conn", "failed"} : os' = [os EXCEPT ![f] = result]
    BY DEF KernelConnect
  <2>3. EventInv'
    BY <2>1, <2>2 DEF EventInv, Live, Inv, TableInv, KernelOK, LoopOK
  <2> QED
    BY <1>1, <2>1, <2>3, QuietBatch
<1>4. CASE PollStart
  <2>1. oevents' = <<>> /\ Len(<<>>) = 0
    BY <1>4 DEF PollStart, LoopInv
  <2>2. 1 .. Len(oevents') = {}
    BY <2>1
  <2>3. BatchInv'
    BY <2>2 DEF BatchInv
  <2> QED
    BY <1>1, <1>4, <2>3, PollStartEvents
<1>5. CASE \E e \in ievents : PollEvent(e)
  <2> PICK e \in ievents : PollEvent(e)
    BY <1>5
  <2>1. Outcome(e) /\ ievents' = ievents \ {e}
    BY PollEventStep DEF PollStep, Inv, PollEvent
  <2>2. BatchInv'
    BY <2>1, QuietBatch, EmitBatch DEF Outcome
  <2> QED
    BY <1>1, <2>2, PollEventEvents
<1>6. CASE PollReturn
  <2>1. ievents' = {} /\ oevents' = <<>> /\ Len(<<>>) = 0
    BY <1>6 DEF PollReturn
  <2>2. 1 .. Len(oevents') = {}
    BY <2>1
  <2>3. EventInv' /\ BatchInv'
    BY <2>1, <2>2 DEF EventInv, BatchInv
  <2> QED
    BY <1>1, <2>3
<1>7. CASE UNCHANGED vars
  <2>1. UNCHANGED <<status, fd, os, ievents, oevents>> /\ Live' = Live
    BY <1>7 DEF vars, table, kernel, loop, Live
  <2> QED
    BY <1>1, <2>1, QuietBatch DEF EventInv
<1> QED
  BY <1>2, <1>3, <1>4, <1>5, <1>6, <1>7 DEF Next

(***************************************************************************)
(* They hold from the start.                                               *)
(***************************************************************************)
LEMMA OwnerCorrect == StdUnbound /\ Spec => []OwnerInv
<1>1. Init => OwnerInv
  <2> SUFFICES ASSUME Init PROVE OwnerInv
    OBVIOUS
  <2>1. Live = {} /\ ievents = {} /\ 1 .. Len(oevents) = {} /\ \A f \in Fds : ep_ud[f] = NoSlot
    BY DEF Init, Live
  <2> QED
    BY <2>1, NetAssumption DEF OwnerInv, StdApart, KindsInv, EventInv, BatchInv
<1>2. CASE StdUnbound
  <2>1. Inv /\ LoopInv /\ OwnerInv /\ [Next]_vars => OwnerInv'
    BY <1>2, OwnerStep
  <2> QED
    BY <1>1, <2>1, NetCorrect, LoopCorrect, PTL DEF Spec
<1>3. CASE ~StdUnbound
  BY <1>3
<1> QED
  BY <1>2, <1>3

(***************************************************************************)
(* An event that socket_poll has not reached yet names the socket it       *)
(* happened on, whatever the earlier iterations closed and accepted, as    *)
(* long as no standard descriptor is bound.                                *)
(***************************************************************************)
THEOREM EventsReachTheirOwner == StdUnbound /\ Spec => []EventsReachOwner
<1>1. OwnerInv => EventsReachOwner
  BY DEF OwnerInv, EventInv, EventsReachOwner
<1> QED
  BY <1>1, OwnerCorrect, PTL

(***************************************************************************)
(* STATUS_CONNECTED means connected: _onconnect asks for SO_ERROR only     *)
(* when the kernel has decided.                                            *)
(***************************************************************************)
THEOREM ConnectedIsConnected == StdUnbound /\ Spec => []ConnectedIsEstablished
<1>1. OwnerInv => ConnectedIsEstablished
  BY DEF OwnerInv, KindsInv, ConnectedIsEstablished, Live
<1> QED
  BY <1>1, OwnerCorrect, PTL

(***************************************************************************)
(* A connection that the kernel has decided can be reported, whatever      *)
(* socket_enableread has been asked: epoll has the descriptor, with the    *)
(* slot as its user data, and np_poll may say of it that it is writable.   *)
(***************************************************************************)
THEOREM ConnectIsReported ==
  StdUnbound /\ Spec =>
    [](\A s \in Slots : status[s] = "CONNECTING" /\ os[fd[s]] # "connecting" =>
         ep_ud[fd[s]] = s /\ \E r \in Reports(fd[s]) : r.write)
<1> DEFINE Reported(s) == status[s] = "CONNECTING" /\ os[fd[s]] # "connecting" =>
             ep_ud[fd[s]] = s /\ \E r \in Reports(fd[s]) : r.write
<1>1. ASSUME Inv, WaitInv, OwnerInv, NEW s \in Slots, status[s] = "CONNECTING",
             os[fd[s]] # "connecting"
      PROVE  ep_ud[fd[s]] = s /\ \E r \in Reports(fd[s]) : r.write
  <2>1. s \in Live /\ fd[s] \notin StdFds /\ mask[s] # {}
    BY <1>1 DEF Live, WaitInv
  <2>2. ep_ud[fd[s]] = s
    BY <1>1, <2>1 DEF Inv, TableInv, InterestRegistered
  <2>3. os[fd[s]] \in {"conn", "failed"}
    BY <1>1, <2>1 DEF OwnerInv, KindsInv
  <2>4. CASE "R" \in ep_mask[fd[s]]
    <3>1. [read |-> TRUE, write |-> TRUE] \in Reports(fd[s])
      BY <2>3, <2>4 DEF Reports
    <3> QED
      BY <2>2, <3>1
  <2>5. CASE "R" \notin ep_mask[fd[s]]
    <3>1. [read |-> FALSE, write |-> TRUE] \in Reports(fd[s])
      BY <2>3, <2>5 DEF Reports
    <3> QED
      BY <2>2, <3>1
  <2> QED
    BY <2>4, <2>5
<1>2. CASE StdUnbound
  <2>1. Inv /\ WaitInv /\ OwnerInv => \A s \in Slots : Reported(s)
    BY <1>1
  <2> QED
    BY <1>2, <2>1, NetCorrect, WaitCorrect, OwnerCorrect, PTL
<1>3. CASE ~StdUnbound
  BY <1>3
<1> QED
  BY <1>2, <1>3

(***************************************************************************)
(* The iteration that reaches the event of a connecting socket ends the    *)
(* connect, one way or the other.                                          *)
(***************************************************************************)
THEOREM ConnectEndsAtEvent ==
  Spec => [][\A e \in ievents : PollEvent(e) /\ status[e.slot] = "CONNECTING" =>
               status'[e.slot] \in {"CONNECTED", "INVALID"}]_vars
<1> DEFINE EndsConnect(e) == PollEvent(e) /\ status[e.slot] = "CONNECTING" =>
             status'[e.slot] \in {"CONNECTED", "INVALID"}
<1>1. ASSUME Inv, NEW e \in ievents, PollEvent(e), status[e.slot] = "CONNECTING"
      PROVE  status'[e.slot] \in {"CONNECTED", "INVALID"}
  <2>1. PollConnect(e)
    BY <1>1 DEF PollEvent, PollAccept, PollStale, PollRead, PollWriteError, PollWriteSome,
                PollWriteAll, PollWriteDone
  <2>2. e.slot \in Slots /\ status \in [Slots -> Status]
    BY <1>1 DEF Inv, LoopOK, TableInv, TableOK
  <2>3. CASE status' = [status EXCEPT ![e.slot] = "CONNECTED"]
    BY <2>2, <2>3
  <2>4. CASE CloseSocket(e.slot)
    BY <2>2, <2>4 DEF CloseSocket, FreeSlot
  <2> QED
    BY <2>1, <2>3, <2>4 DEF PollConnect
<1>2. Inv /\ [Next]_vars => [\A e \in ievents : EndsConnect(e)]_vars
  BY <1>1
<1> QED
  BY <1>2, NetCorrect, PTL DEF Spec

(***************************************************************************)
(* A caller that handles the events of socket_poll in order knows the      *)
(* table: the last event with an id says whether the slot is live, and an  *)
(* id comes twice only when it was closed and then accepted.               *)
(***************************************************************************)
THEOREM BatchIsTrue == StdUnbound /\ Spec => []BatchTellsTruth
<1>1. OwnerInv => BatchTellsTruth
  BY DEF OwnerInv, BatchInv, BatchTellsTruth
<1> QED
  BY <1>1, OwnerCorrect, PTL

(***************************************************************************)
(* The list of free slots is exact: no failing call loses a slot, and none *)
(* frees one twice.                                                        *)
(***************************************************************************)
THEOREM FreeListIsExact == Spec => []FreeIsInvalid
<1>1. Inv => FreeIsInvalid
  BY DEF Inv, TableInv
<1> QED
  BY <1>1, NetCorrect, PTL
=============================================================================
