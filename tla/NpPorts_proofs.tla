--------------------------- MODULE NpPorts_proofs ---------------------------
(***************************************************************************)
(* Proofs about NpPorts, for every number of slots, set of descriptors and *)
(* FD_SETSIZE: the table of np_select.h is consistent whatever net does,   *)
(* and until net misuses its implementation the multiplexer has registered *)
(* what the sockets ask for and its events reach them.                     *)
(***************************************************************************)
EXTENDS NpPorts, FiniteSetTheorems, WellFoundedInduction, TLAPS

-----------------------------------------------------------------------------
(* The largest member of a set.                                            *)

IsLargest(x, S) == IF S = {} THEN x = NoFd ELSE x \in S /\ \A g \in S : g <= x

\* There is one, if the set is bounded.
LEMMA LargestExists ==
  ASSUME NEW n \in Nat, NEW S \in SUBSET (0 .. n), S # {}
  PROVE  \E x \in S : \A g \in S : g <= x
<1> DEFINE R == {ss \in Nat \X Nat : ss[1] < ss[2]}
           T == {n - x : x \in S}
<1>1. IsWellFoundedOn(R, Nat)
  BY NatLessThanWellFounded DEF OpToRel
<1>2. T \subseteq Nat /\ T # {}
  <2>1. \A x \in S : x \in 0 .. n /\ n - x \in Nat
    OBVIOUS
  <2> QED
    BY <2>1
<1>3. PICK y \in T : \A z \in T : ~(<<z, y>> \in R)
  <2> HIDE DEF T, R
  <2> QED
    BY <1>1, <1>2, WFMin
<1>4. PICK x \in S : y = n - x
  OBVIOUS
<1>5. ASSUME NEW g \in S PROVE g <= x
  <2>1. n - g \in T /\ n - g \in Nat /\ y \in Nat
    BY <1>2
  <2>2. ~(n - g < y)
    BY <1>3, <2>1
  <2> QED
    BY <1>4, <2>2
<1> QED
  BY <1>5

LEMMA LargestIs ==
  ASSUME NEW n \in Nat, NEW S \in SUBSET (0 .. n)
  PROVE  IsLargest(Largest(S), S)
<1>1. CASE S = {}
  BY <1>1 DEF Largest, IsLargest
<1>2. CASE S # {}
  BY <1>2, LargestExists DEF Largest, IsLargest
<1> QED
  BY <1>1, <1>2

LEMMA LargestUnique ==
  ASSUME NEW S \in SUBSET Nat, NEW x, IsLargest(x, S)
  PROVE  x = Largest(S)
<1>1. CASE S = {}
  BY <1>1 DEF Largest, IsLargest
<1>2. CASE S # {}
  <2>1. x \in S /\ \A g \in S : g <= x
    BY <1>2 DEF IsLargest
  <2>2. Largest(S) \in S /\ \A g \in S : g <= Largest(S)
    BY <1>2, <2>1 DEF Largest
  <2>3. x <= Largest(S) /\ Largest(S) <= x /\ x \in Nat /\ Largest(S) \in Nat
    BY <2>1, <2>2
  <2> QED
    BY <2>3
<1> QED
  BY <1>1, <1>2

-----------------------------------------------------------------------------
(* np_select.h.                                                            *)

SelInv ==
  /\ rfds \subseteq Fds /\ wfds \subseteq Fds
  /\ cap \in Nat \ {0}
  /\ ud \in [0 .. cap - 1 -> Slots \cup {NoSlot}]
  /\ Used = rfds \cup wfds
  /\ IsLargest(maxfd, Used)

\* What a call about f leaves alone.
OthersSame(f) ==
  \A g \in Fds \ {f} :
    /\ SelMask(g)' = SelMask(g)
    /\ SelMask(g) # {} => ud'[g] = ud[g]

LEMMA SelMaskEmpty ==
  \A f : SelMask(f) = {} <=> f \notin rfds \cup wfds
BY DEF SelMask, Interest

LEMMA SelInitInv == SelInit => SelInv
<1> SUFFICES ASSUME SelInit PROVE SelInv
  OBVIOUS
<1>1. cap \in Nat \ {0}
  BY DEF SelInit, Powers
<1>2. ud \in [0 .. cap - 1 -> Slots \cup {NoSlot}]
  BY DEF SelInit
<1>3. Used = {}
  BY DEF SelInit, Used
<1> QED
  BY <1>1, <1>2, <1>3 DEF SelInit, SelInv, IsLargest

\* Grow's array, of c entries instead of k.
Grown(old, k, c, f, u) ==
  [g \in 0 .. c - 1 |-> IF g = f THEN u ELSE IF g < k THEN old[g] ELSE NoSlot]

HasData(a, n) == {g \in 0 .. n - 1 : a[g] # NoSlot}

IsGrown(new, old, k, c, f, u) ==
  /\ new \in [0 .. c - 1 -> Slots \cup {NoSlot}]
  /\ new[f] = u
  /\ \A g \in 0 .. k - 1 : g # f => new[g] = old[g]
  /\ HasData(new, c) = HasData(old, k) \cup {f}

LEMMA GrownArray ==
  ASSUME NEW k \in Nat, NEW c \in Nat, k <= c, NEW f \in Nat, f < c,
         NEW u \in Slots, NEW old \in [0 .. k - 1 -> Slots \cup {NoSlot}]
  PROVE  IsGrown(Grown(old, k, c, f, u), old, k, c, f, u)
<1> DEFINE new == Grown(old, k, c, f, u)
<1>1. f \in 0 .. c - 1 /\ u # NoSlot
  BY NpAssumption DEF Slots, NoSlot
<1>2. \A g \in 0 .. c - 1 : g < k <=> g \in 0 .. k - 1
  OBVIOUS
<1>3. \A g \in 0 .. k - 1 : g \in 0 .. c - 1
  OBVIOUS
<1>4. /\ new = [g \in 0 .. c - 1 |-> new[g]]
      /\ \A g \in 0 .. c - 1 :
           new[g] = IF g = f THEN u ELSE IF g \in 0 .. k - 1 THEN old[g] ELSE NoSlot
  BY <1>2 DEF Grown
<1>5. \A g \in 0 .. k - 1 : old[g] \in Slots \cup {NoSlot}
  OBVIOUS
<1> HIDE DEF new
<1>6. /\ new \in [0 .. c - 1 -> Slots \cup {NoSlot}]
      /\ new[f] = u
      /\ \A g \in 0 .. k - 1 : g # f => new[g] = old[g]
      /\ HasData(new, c) = HasData(old, k) \cup {f}
  BY <1>1, <1>3, <1>4, <1>5 DEF HasData
<1> QED
  BY <1>6 DEF new, IsGrown

LEMMA SelAddInv ==
  ASSUME SelInv, NEW f \in Fds, NEW m \in SUBSET Interest, m # {},
         NEW u \in Slots, SelAdd(f, m, u)
  PROVE  /\ SelInv'
         /\ OthersSame(f)
         /\ SelMask(f)' = SelMask(f) \cup m
         /\ ud'[f] = u
<1>0. f \in Nat /\ u # NoSlot
  BY NpAssumption DEF Slots, NoSlot
<1> PICK k \in Nat : k = cap
  BY DEF SelInv
<1>1. \E c \in Nat \ {0} : c = cap' /\ k <= c /\ f < c
  <2>1. k \in Nat \ {0} /\ cap' \in Powers \cup {k} /\ Powers \subseteq Nat \ {0}
    BY DEF SelInv, SelAdd, Grow, Powers
  <2>2. PICK c \in Nat \ {0} : c = cap'
    BY <2>1
  <2>3. IF f < k THEN c = k ELSE c > k /\ c >= f + 1
    BY <2>2 DEF SelAdd, Grow, Fits
  <2> QED
    BY <1>0, <2>1, <2>2, <2>3
<1> PICK c \in Nat \ {0} : c = cap' /\ k <= c /\ f < c
  BY <1>1
<1>2. /\ ud' \in [0 .. c - 1 -> Slots \cup {NoSlot}]
      /\ ud'[f] = u
      /\ \A g \in 0 .. k - 1 : g # f => ud'[g] = ud[g]
      /\ HasData(ud', c) = HasData(ud, k) \cup {f}
  <2>1. ud' = Grown(ud, k, c, f, u)
    BY DEF SelAdd, Grow, Grown
  <2>2. ud \in [0 .. k - 1 -> Slots \cup {NoSlot}]
    BY DEF SelInv
  <2>3. k <= c /\ f < c /\ c \in Nat
    OBVIOUS
  <2>4. IsGrown(ud', ud, k, c, f, u)
    BY <1>0, <2>1, <2>2, <2>3, GrownArray
  <2> QED
    BY <2>4 DEF IsGrown
<1>3. rfds' \cup wfds' = rfds \cup wfds \cup {f} /\ rfds' \subseteq Fds /\ wfds' \subseteq Fds
  BY DEF SelInv, SelAdd, Interest
<1>4. Used' = Used \cup {f}
  BY <1>2 DEF Used, HasData
<1>5. IsLargest(maxfd', Used \cup {f})
  <2>1. Used \subseteq Nat
    BY DEF Used, SelInv
  <2>2. maxfd' = IF maxfd < f THEN f ELSE maxfd
    BY DEF SelAdd
  <2>3. CASE Used = {}
    <3>1. maxfd' = f
      BY <1>0, <2>2, <2>3 DEF SelInv, IsLargest, NoFd
    <3> QED
      BY <1>0, <2>3, <3>1 DEF IsLargest
  <2>4. CASE Used # {}
    <3>1. maxfd \in Used /\ \A g \in Used : g <= maxfd
      BY <2>4 DEF SelInv, IsLargest
    <3>2. maxfd' \in Used \cup {f}
      BY <2>2, <3>1
    <3>3. \A g \in Used \cup {f} : g <= maxfd'
      BY <1>0, <2>1, <2>2, <3>1
    <3> QED
      BY <3>2, <3>3 DEF IsLargest
  <2> QED
    BY <2>3, <2>4
<1>6. SelInv'
  BY <1>2, <1>3, <1>4, <1>5 DEF SelInv
<1>7. \A i \in Interest : i \in SelMask(f)' <=> i \in SelMask(f) \/ i \in m
  BY DEF SelAdd, SelMask, Interest
<1>8. ASSUME NEW g \in Fds \ {f} PROVE SelMask(g)' = SelMask(g)
  BY DEF SelAdd, SelMask, Interest
<1>9. ASSUME NEW g \in Fds \ {f}, SelMask(g) # {} PROVE ud'[g] = ud[g]
  <2>1. g \in Used
    BY <1>9, SelMaskEmpty DEF SelInv
  <2> QED
    BY <1>2, <2>1 DEF Used
<1>10. SelMask(f)' = SelMask(f) \cup m
  BY <1>7 DEF SelMask
<1> QED
  BY <1>2, <1>6, <1>8, <1>9, <1>10 DEF OthersSame

LEMMA SelModInv ==
  ASSUME SelInv, NEW f \in Fds, NEW m \in SUBSET Interest, m # {},
         NEW u, SelMask(f) # {}, SelMod(f, m, u)
  PROVE  /\ SelInv'
         /\ OthersSame(f)
         /\ SelMask(f)' = m
         /\ ud' = ud
<1>1. f \in rfds \cup wfds
  BY SelMaskEmpty
<1>2. rfds' \cup wfds' = rfds \cup wfds /\ rfds' \subseteq Fds /\ wfds' \subseteq Fds
  BY <1>1 DEF SelInv, SelMod, Interest
<1>3. ud' = ud /\ cap' = cap /\ maxfd' = maxfd
  BY DEF SelMod
<1>4. Used' = Used
  BY <1>3 DEF Used
<1>5. SelInv'
  BY <1>2, <1>3, <1>4 DEF SelInv
<1>6. SelMask(f)' = m
  <2>1. \A i \in Interest : i \in SelMask(f)' <=> i \in m
    BY DEF SelMod, SelMask, Interest
  <2>2. SelMask(f)' \subseteq Interest
    BY DEF SelMask
  <2> QED
    BY <2>1, <2>2
<1>7. ASSUME NEW g \in Fds \ {f} PROVE SelMask(g)' = SelMask(g)
  BY DEF SelMod, SelMask, Interest
<1> QED
  BY <1>3, <1>5, <1>6, <1>7 DEF OthersSame

LEMMA SelDelInv ==
  ASSUME SelInv, NEW f \in Fds, SelMask(f) # {}, SelDel(f)
  PROVE  /\ SelInv'
         /\ OthersSame(f)
         /\ SelMask(f)' = {}
<1>0. f \in Nat
  BY NpAssumption
<1>1. f \in Used
  BY SelMaskEmpty DEF SelInv
<1>2. rfds' = rfds \ {f} /\ wfds' = wfds \ {f} /\ cap' = cap
  BY DEF SelDel
<1>3. /\ ud' \in [0 .. cap' - 1 -> Slots \cup {NoSlot}]
      /\ ud'[f] = NoSlot
      /\ \A g \in 0 .. cap - 1 : g # f => ud'[g] = ud[g]
  BY <1>1 DEF SelDel, SelInv, Used
<1>4. Used' = Used \ {f}
  BY <1>2, <1>3 DEF Used
<1>5. IsLargest(maxfd', Used \ {f})
  <2>0. Used \subseteq Nat /\ IsLargest(maxfd, Used) /\ maxfd \in Used
    BY <1>1 DEF Used, SelInv, IsLargest
  <2>1. CASE f # maxfd
    <3>1. maxfd' = maxfd /\ maxfd \in Used \ {f}
      BY <2>0, <2>1 DEF SelDel
    <3> QED
      BY <2>0, <3>1 DEF IsLargest
  <2>2. CASE f = maxfd
    <3> DEFINE S == {g \in 0 .. f - 1 : ud[g] # NoSlot}
    <3>1. S = Used \ {f}
      <4>1. \A g \in Used : g <= f
        BY <2>0, <2>2 DEF IsLargest
      <4>2. f - 1 <= cap - 1 /\ cap \in Nat
        BY <1>1, <1>0 DEF Used, SelInv
      <4>3. ASSUME NEW g \in Used \ {f} PROVE g \in S
        BY <4>1, <4>3, <2>0, <1>0 DEF Used
      <4>4. ASSUME NEW g \in S PROVE g \in Used \ {f}
        BY <4>2, <4>4, <1>0 DEF Used
      <4> QED
        BY <4>3, <4>4
    <3>2. IsLargest(Largest(S), S)
      <4>1. S \in SUBSET (0 .. f)
        BY <1>0
      <4> HIDE DEF S
      <4> QED
        BY <1>0, <4>1, LargestIs
    <3>3. maxfd' = Largest(S)
      BY <2>2 DEF SelDel
    <3> QED
      BY <3>1, <3>2, <3>3
  <2> QED
    BY <2>1, <2>2
<1>6. SelInv'
  BY <1>2, <1>3, <1>4, <1>5 DEF SelInv
<1>7. SelMask(f)' = {}
  BY <1>2 DEF SelMask, Interest
<1>8. ASSUME NEW g \in Fds \ {f} PROVE SelMask(g)' = SelMask(g)
  BY <1>2 DEF SelMask, Interest
<1>9. ASSUME NEW g \in Fds \ {f}, SelMask(g) # {} PROVE ud'[g] = ud[g]
  BY <1>3, <1>9, SelMaskEmpty DEF SelInv, Used
<1> QED
  BY <1>6, <1>7, <1>8, <1>9 DEF OthersSame

-----------------------------------------------------------------------------
(* The three implementations as one table of registrations.                *)

PortInv == backend \in Backends /\ EpTypeOK /\ KqTypeOK /\ SelInv

\* A call makes r the registration of f, or changes none.
RegBecomes(f, r) ==
  /\ Reg(f)' = r
  /\ \A g \in Fds \ {f} : Reg(g)' = Reg(g)

RegSame == \A g \in Fds : Reg(g)' = Reg(g)

LEMMA BackendCases ==
  ASSUME PortInv
  PROVE  backend = "epoll" \/ backend = "kqueue" \/ backend = "select"
BY NpPortsAssumption DEF PortInv

LEMMA AddReg ==
  ASSUME PortInv, backend' = backend, NEW f \in Fds,
         NEW m \in SUBSET Interest, m # {}, NEW u \in Slots,
         Reg(f) = None, NpAdd(f, m, u)
  PROVE  /\ PortInv'
         /\ RegBecomes(f, [mask |-> m, ud |-> u])
         /\ orphans' = orphans
<1>1. CASE backend = "epoll"
  <2>1. /\ ep' = [ep EXCEPT ![f] = [mask |-> m, ud |-> u]] /\ orphans' = orphans
        /\ UNCHANGED <<kq, sel_vars>>
    BY <1>1 DEF NpAdd, EpAdd
  <2>2. PortInv'
    BY <2>1 DEF PortInv, EpTypeOK, Registration, KqTypeOK, SelInv, Used, IsLargest, sel_vars
  <2> QED
    BY <1>1, <2>1, <2>2 DEF PortInv, EpTypeOK, RegBecomes, Reg
<1>2. CASE backend = "kqueue"
  <2>1. /\ kq' = [kq EXCEPT ![f] = [R |-> On("R" \in m), W |-> On("W" \in m), ud |-> u]]
        /\ UNCHANGED <<ep_vars, sel_vars>>
    BY <1>2 DEF NpAdd, KqAdd
  <2>2. KqTypeOK'
    BY <2>1 DEF PortInv, KqTypeOK, Filter, On
  <2>3. PortInv'
    BY <2>1, <2>2 DEF PortInv, EpTypeOK, SelInv, Used, IsLargest, sel_vars, ep_vars
  <2>4. KqMask(f)' = m /\ kq'[f].ud = u
    <3>1. kq'[f] = [R |-> On("R" \in m), W |-> On("W" \in m), ud |-> u]
      BY <2>1 DEF PortInv, KqTypeOK
    <3>2. \A i \in Interest : i \in KqMask(f)' <=> i \in m
      BY <3>1 DEF KqMask, Interest, On
    <3> QED
      BY <3>1, <3>2 DEF KqMask
  <2>5. \A g \in Fds \ {f} : kq'[g] = kq[g]
    BY <2>1 DEF PortInv, KqTypeOK
  <2> QED
    BY <1>2, <2>1, <2>3, <2>4, <2>5 DEF RegBecomes, Reg, KqMask, ep_vars
<1>3. CASE backend = "select"
  <2>1. SelAdd(f, m, u) /\ UNCHANGED <<ep_vars, kq>>
    BY <1>3 DEF NpAdd
  <2>2. SelMask(f) = {}
    BY <1>3 DEF Reg, None
  <2>3. SelInv' /\ OthersSame(f) /\ SelMask(f)' = m /\ ud'[f] = u
    BY <2>1, <2>2, SelAddInv DEF PortInv
  <2>4. PortInv'
    BY <2>1, <2>3 DEF PortInv, EpTypeOK, KqTypeOK, ep_vars
  <2> QED
    BY <1>3, <2>1, <2>3, <2>4 DEF RegBecomes, Reg, OthersSame, ep_vars
<1> QED
  BY <1>1, <1>2, <1>3, BackendCases

\* kqueue's np_mod only disables: what it grants is less than there was.
LEMMA ModReg ==
  ASSUME PortInv, backend' = backend, NEW f \in Fds,
         NEW m \in SUBSET Interest, m # {}, NEW u \in Slots,
         NEW a \in SUBSET Interest, a # {}, a \subseteq m \/ m \subseteq a,
         Reg(f) = [mask |-> a, ud |-> u], NpMod(f, m, u)
  PROVE  /\ PortInv'
         /\ RegBecomes(f, [mask |-> m, ud |-> u])
         /\ orphans' = orphans
<1>1. CASE backend = "epoll"
  <2>1. /\ ep' = [ep EXCEPT ![f] = [mask |-> m, ud |-> u]] /\ orphans' = orphans
        /\ UNCHANGED <<kq, sel_vars>>
    BY <1>1 DEF NpMod, EpMod
  <2>2. PortInv'
    BY <2>1 DEF PortInv, EpTypeOK, Registration, KqTypeOK, SelInv, Used, IsLargest, sel_vars
  <2> QED
    BY <1>1, <2>1, <2>2 DEF PortInv, EpTypeOK, RegBecomes, Reg
<1>2. CASE backend = "kqueue"
  <2>1. KqMod(f, m, u) /\ UNCHANGED <<ep_vars, sel_vars>>
    BY <1>2 DEF NpMod
  <2>2. KqMask(f) = a /\ kq[f].ud = u
    BY <1>2 DEF Reg, None
  <2>3. /\ m # Interest /\ m \subseteq a
        /\ \E i \in Interest : i \notin m /\ kq' = [kq EXCEPT ![f][i] = "off"]
    <3>1. CASE "W" \notin m /\ kq' = [kq EXCEPT ![f].W = "off"]
      BY <3>1 DEF Interest
    <3>2. CASE m = {"W"} /\ kq' = [kq EXCEPT ![f].R = "off"]
      <4>1. m # Interest /\ m \subseteq a
        BY <3>2 DEF Interest
      <4>2. "R" \in Interest /\ "R" \notin m
        BY <3>2 DEF Interest
      <4> QED
        BY <3>2, <4>1, <4>2
    <3> QED
      BY <2>1, <3>1, <3>2 DEF KqMod
  <2>4. PICK i \in Interest : i \notin m /\ kq' = [kq EXCEPT ![f][i] = "off"]
    BY <2>3
  <2>5. KqTypeOK'
    BY <2>4 DEF PortInv, KqTypeOK, Filter, Interest
  <2>6. PortInv'
    BY <2>1, <2>5 DEF PortInv, EpTypeOK, SelInv, Used, IsLargest, sel_vars, ep_vars
  <2>7. KqMask(f)' = m /\ kq'[f].ud = u
    <3>1. kq'[f] = [kq[f] EXCEPT ![i] = "off"]
      BY <2>4 DEF PortInv, KqTypeOK
    <3>2. kq[f] \in [R : Filter, W : Filter, ud : Slots \cup {NoSlot}]
      BY DEF PortInv, KqTypeOK
    <3>3. \A j \in Interest : j \in KqMask(f)' <=> j \in a \ {i}
      BY <2>2, <3>1, <3>2 DEF KqMask, Interest
    <3>4. kq'[f].ud = kq[f].ud
      BY <3>1, <3>2 DEF Interest
    <3>5. a \ {i} = m
      BY <2>3, <2>4 DEF Interest
    <3>6. KqMask(f)' \subseteq Interest
      BY DEF KqMask
    <3> QED
      BY <2>2, <3>3, <3>4, <3>5, <3>6
  <2>8. \A g \in Fds \ {f} : kq'[g] = kq[g]
    BY <2>4 DEF PortInv, KqTypeOK
  <2> QED
    BY <1>2, <2>1, <2>6, <2>7, <2>8 DEF RegBecomes, Reg, KqMask, ep_vars
<1>3. CASE backend = "select"
  <2>1. SelMod(f, m, u) /\ UNCHANGED <<ep_vars, kq>>
    BY <1>3 DEF NpMod
  <2>2. SelMask(f) # {} /\ ud[f] = u
    BY <1>3 DEF Reg, None
  <2>3. SelInv' /\ OthersSame(f) /\ SelMask(f)' = m /\ ud' = ud
    BY <2>1, <2>2, SelModInv DEF PortInv
  <2>4. PortInv'
    BY <2>1, <2>3 DEF PortInv, EpTypeOK, KqTypeOK, ep_vars
  <2> QED
    BY <1>3, <2>1, <2>2, <2>3, <2>4 DEF RegBecomes, Reg, OthersSame, ep_vars
<1> QED
  BY <1>1, <1>2, <1>3, BackendCases

\* What KqDel leaves of f.
LEMMA KqDelReg ==
  ASSUME PortInv, backend' = backend, backend = "kqueue", NEW f \in Fds,
         KqDel(f), UNCHANGED <<ep_vars, sel_vars>>
  PROVE  PortInv' /\ RegBecomes(f, None) /\ orphans' = orphans
<1>1. kq' = [kq EXCEPT ![f] = NoFilters]
  BY DEF KqDel
<1>2. KqTypeOK'
  BY <1>1 DEF PortInv, KqTypeOK, Filter, NoFilters
<1>3. PortInv'
  BY <1>2 DEF PortInv, EpTypeOK, SelInv, Used, IsLargest, sel_vars, ep_vars
<1>4. KqMask(f)' = {}
  <2>1. kq'[f] = NoFilters
    BY <1>1 DEF PortInv, KqTypeOK
  <2> QED
    BY <2>1 DEF KqMask, Interest, NoFilters
<1>5. \A g \in Fds \ {f} : kq'[g] = kq[g]
  BY <1>1 DEF PortInv, KqTypeOK
<1> QED
  BY <1>3, <1>4, <1>5 DEF RegBecomes, Reg, KqMask, ep_vars

LEMMA DelReg ==
  ASSUME PortInv, backend' = backend, NEW f \in Fds, Reg(f) # None, NpDel(f)
  PROVE  PortInv' /\ RegBecomes(f, None) /\ orphans' = orphans
<1>1. CASE backend = "epoll"
  <2>1. /\ ep' = [ep EXCEPT ![f] = None] /\ orphans' = orphans
        /\ UNCHANGED <<kq, sel_vars>>
    BY <1>1 DEF NpDel, EpDel
  <2>2. PortInv'
    BY <2>1 DEF PortInv, EpTypeOK, Registration, None, KqTypeOK, SelInv, Used, IsLargest, sel_vars
  <2> QED
    BY <1>1, <2>1, <2>2 DEF PortInv, EpTypeOK, RegBecomes, Reg
<1>2. CASE backend = "kqueue"
  BY <1>2, KqDelReg DEF NpDel
<1>3. CASE backend = "select"
  <2>1. SelDel(f) /\ UNCHANGED <<ep_vars, kq>>
    BY <1>3 DEF NpDel
  <2>2. SelMask(f) # {}
    BY <1>3 DEF Reg
  <2>3. SelInv' /\ OthersSame(f) /\ SelMask(f)' = {}
    BY <2>1, <2>2, SelDelInv DEF PortInv
  <2>4. PortInv'
    BY <2>1, <2>3 DEF PortInv, EpTypeOK, KqTypeOK, ep_vars
  <2> QED
    BY <1>3, <2>1, <2>3, <2>4 DEF RegBecomes, Reg, OthersSame, ep_vars
<1> QED
  BY <1>1, <1>2, <1>3, BackendCases

LEMMA NothingReg ==
  ASSUME PortInv, backend' = backend, UNCHANGED np_vars
  PROVE  PortInv' /\ RegSame /\ orphans' = orphans
BY DEF PortInv, EpTypeOK, RegSame, Reg, KqTypeOK, SelInv, Used, IsLargest, KqMask,
       SelMask, np_vars, sel_vars, ep_vars

\* A call that is refused, which is not np_add of what is registered.
LEMMA RefusedReg ==
  ASSUME PortInv, backend' = backend, NEW f \in Fds,
         NEW m,
         \/ Reg(f) = None /\ NpAddFails(f)
         \/ NpModFails(f, m)
         \/ NpDelFails(f)
  PROVE  PortInv' /\ RegSame /\ orphans' = orphans
<1>1. CASE UNCHANGED np_vars
  BY <1>1, NothingReg
<1>2. CASE /\ backend = "kqueue" /\ Reg(f) = None
           /\ KqAddFails(f) /\ UNCHANGED <<ep_vars, sel_vars>>
  <2>1. CASE UNCHANGED kq
    BY <1>1, <1>2, <2>1 DEF np_vars
  <2>2. CASE kq' = [kq EXCEPT ![f].R = "none"]
    <3>1. KqTypeOK'
      BY <2>2 DEF PortInv, KqTypeOK, Filter
    <3>2. PortInv'
      BY <1>2, <3>1 DEF PortInv, EpTypeOK, SelInv, Used, IsLargest, sel_vars, ep_vars
    <3>3. KqMask(f) = {}
      BY <1>2 DEF Reg, None
    <3>4. KqMask(f)' = {}
      <4>1. kq[f] \in [R : Filter, W : Filter, ud : Slots \cup {NoSlot}]
            /\ kq'[f] = [kq[f] EXCEPT !.R = "none"]
        BY <2>2 DEF PortInv, KqTypeOK
      <4>2. \A i \in Interest : kq[f][i] # "on"
        BY <3>3 DEF KqMask
      <4>3. \A i \in Interest : kq'[f][i] # "on"
        BY <4>1, <4>2 DEF Interest
      <4> QED
        BY <4>3 DEF KqMask
    <3>5. \A g \in Fds \ {f} : kq'[g] = kq[g]
      BY <2>2 DEF PortInv, KqTypeOK
    <3>6. Reg(f)' = Reg(f)
      BY <1>2, <3>3, <3>4 DEF Reg
    <3>7. ASSUME NEW g \in Fds \ {f} PROVE Reg(g)' = Reg(g)
      BY <1>2, <3>5 DEF Reg, KqMask
    <3> QED
      BY <1>2, <3>2, <3>6, <3>7 DEF RegSame, ep_vars
  <2>3. CASE kq' = [kq EXCEPT ![f] = NoFilters]
    <3>1. PortInv' /\ RegBecomes(f, None) /\ orphans' = orphans
      BY <1>2, <2>3, KqDelReg DEF KqDel
    <3> QED
      BY <1>2, <3>1 DEF RegBecomes, RegSame
  <2> QED
    BY <1>2, <2>1, <2>2, <2>3 DEF KqAddFails
<1> QED
  BY <1>1, <1>2, BackendCases
     DEF NpAddFails, NpModFails, NpDelFails, KqModFails, SelFails, np_vars

-----------------------------------------------------------------------------
(* The inductive invariant.                                                *)

ClientInv ==
  /\ fault \in Faults
  /\ fd \in [Slots -> Fds \cup {NoFd}]
  /\ mask \in [Slots -> SUBSET Interest]
  /\ misused \in BOOLEAN
  /\ child \in [Slots -> Copy]
  /\ \A s \in Slots : child[s].file # "none" => child[s].fd \in Fds
  /\ \A s, t \in Live : fd[s] = fd[t] => s = t

Asked(s) == IF mask[s] = {} THEN None ELSE [mask |-> mask[s], ud |-> s]

\* Until a misuse: the registrations are what the sockets ask for.
AsAsked ==
  ~misused =>
    /\ orphans = {}
    /\ \A s \in Live : Reg(fd[s]) = Asked(s)
    /\ \A f \in Fds : (\A s \in Live : fd[s] # f) => Reg(f) = None

\* After a misuse too.
SelectOwns ==
  backend = "select" =>
    \A s \in Live : mask[s] # {} => mask[s] \subseteq SelMask(fd[s]) /\ ud[fd[s]] = s

\* No other event of es is about the descriptor of e.
Alone(e, es) == \A x \in es \ {e} : x.fd # e.fd

BatchInv ==
  /\ batch \subseteq Event
  /\ ~misused /\ backend # "kqueue" =>
       /\ \A e \in batch : fd[e.ud] = e.fd
       /\ \A e1, e2 \in batch : e1.ud = e2.ud => e1 = e2
  /\ ~misused /\ backend = "kqueue" =>
       /\ \A e \in batch : e.read # e.write
       /\ \A e1, e2 \in batch : e1.ud = e2.ud <=> e1.fd = e2.fd
       /\ \A e \in batch : fd[e.ud] = e.fd \/ Alone(e, batch)

CoreInv == PortInv /\ ClientInv /\ AsAsked /\ SelectOwns

IInv == CoreInv /\ BatchInv

LEMMA LiveFd ==
  ASSUME CoreInv, NEW s \in Live
  PROVE  /\ s \in Slots /\ s # NoSlot
         /\ fd[s] \in Fds
         /\ \A t \in Live \ {s} : fd[t] # fd[s]
BY NpAssumption DEF CoreInv, ClientInv, Live, Slots, NoSlot

\* Only one socket's interest changes.
MaskBecomes(s, m) ==
  /\ mask' = [mask EXCEPT ![s] = m]
  /\ UNCHANGED <<backend, fault, fd, misused, child>>

LEMMA MaskClient ==
  ASSUME CoreInv, NEW s \in Live, NEW m \in SUBSET Interest, MaskBecomes(s, m)
  PROVE  /\ ClientInv'
         /\ Live' = Live
         /\ mask'[s] = m
         /\ \A t \in Live \ {s} : mask'[t] = mask[t]
BY DEF CoreInv, ClientInv, MaskBecomes, Live

LEMMA MaskAsAsked ==
  ASSUME CoreInv, ~misused, NEW s \in Live, NEW m \in SUBSET Interest,
         MaskBecomes(s, m), orphans' = orphans,
         RegBecomes(fd[s], IF m = {} THEN None ELSE [mask |-> m, ud |-> s])
  PROVE  AsAsked'
<1>1. /\ Live' = Live /\ fd' = fd /\ mask'[s] = m
      /\ \A t \in Live \ {s} : mask'[t] = mask[t]
  BY MaskClient DEF MaskBecomes
<1>2. orphans' = {}
  BY DEF CoreInv, AsAsked
<1>3. Reg(fd[s])' = Asked(s)'
  BY <1>1 DEF RegBecomes, Asked
<1>4. ASSUME NEW t \in Live \ {s} PROVE Reg(fd[t])' = Asked(t)'
  <2>1. fd[t] \in Fds \ {fd[s]}
    BY LiveFd
  <2>2. Reg(fd[t])' = Reg(fd[t])
    BY <1>1, <2>1 DEF RegBecomes
  <2>3. Reg(fd[t]) = Asked(t)
    BY DEF CoreInv, AsAsked
  <2> QED
    BY <1>1, <2>2, <2>3 DEF Asked
<1>5. ASSUME NEW f \in Fds, \A t \in Live : fd[t] # f PROVE Reg(f)' = None
  <2>1. Reg(f) = None
    BY <1>5 DEF CoreInv, AsAsked
  <2>2. f \in Fds \ {fd[s]}
    BY <1>5
  <2> QED
    BY <2>1, <2>2 DEF RegBecomes
<1> QED
  BY <1>1, <1>2, <1>3, <1>4, <1>5 DEF AsAsked

LEMMA MaskSelectOwns ==
  ASSUME CoreInv, backend = "select", NEW s \in Live, NEW m \in SUBSET Interest,
         MaskBecomes(s, m), OthersSame(fd[s]),
         m # {} => m \subseteq SelMask(fd[s])' /\ ud'[fd[s]] = s
  PROVE  SelectOwns'
<1>1. /\ Live' = Live /\ fd' = fd /\ mask'[s] = m
      /\ \A t \in Live \ {s} : mask'[t] = mask[t]
  BY MaskClient DEF MaskBecomes
<1>2. ASSUME NEW t \in Live \ {s}, mask[t] # {}
      PROVE  mask[t] \subseteq SelMask(fd[t])' /\ ud'[fd[t]] = t
  <2>1. fd[t] \in Fds \ {fd[s]}
    BY LiveFd
  <2>2. mask[t] \subseteq SelMask(fd[t]) /\ ud[fd[t]] = t
    BY <1>2 DEF CoreInv, SelectOwns
  <2>3. SelMask(fd[t])' = SelMask(fd[t]) /\ ud'[fd[t]] = ud[fd[t]]
    <3>1. SelMask(fd[t]) # {}
      BY <1>2, <2>2
    <3>2. \A g \in Fds \ {fd[s]} :
            /\ SelMask(g)' = SelMask(g)
            /\ SelMask(g) # {} => ud'[g] = ud[g]
      BY DEF OthersSame
    <3> QED
      BY <1>1, <2>1, <3>1, <3>2
  <2> QED
    BY <2>2, <2>3
<1>3. ASSUME NEW t \in Live, mask'[t] # {}
      PROVE  mask'[t] \subseteq SelMask(fd[t])' /\ ud'[fd[t]] = t
  BY <1>1, <1>2, <1>3
<1> QED
  BY <1>1, <1>3 DEF SelectOwns

\* A call that changes no registration.
LEMMA NothingInv ==
  ASSUME CoreInv, PortInv', ~misused => RegSame /\ orphans' = orphans, sel_vars' = sel_vars,
         UNCHANGED <<backend, fault, client_vars, misused, child>>
  PROVE  CoreInv'
<1>1. Live' = Live /\ fd' = fd /\ mask' = mask
  BY DEF Live, client_vars
<1>2. ClientInv'
  BY <1>1 DEF CoreInv, ClientInv
<1>3. AsAsked'
  <2>1. ASSUME ~misused, NEW s \in Live PROVE Reg(fd[s])' = Asked(s)'
    <3>1. Reg(fd[s]) = Asked(s) /\ Asked(s)' = Asked(s)
      BY <1>1, <2>1 DEF CoreInv, AsAsked, Asked
    <3>2. RegSame /\ fd[s] \in Fds
      BY <2>1, LiveFd
    <3> QED
      BY <1>1, <3>1, <3>2 DEF RegSame
  <2> QED
    BY <1>1, <2>1 DEF CoreInv, AsAsked, RegSame
<1>4. SelectOwns'
  BY <1>1 DEF CoreInv, SelectOwns, SelMask, sel_vars
<1> QED
  BY <1>2, <1>3, <1>4 DEF CoreInv

-----------------------------------------------------------------------------
(* Subscribe.                                                              *)

\* What a call makes of the table, as the multiplexer puts it.
RegChange ==
  \/ RegSame
  \/ \E f \in Fds, m \in SUBSET Interest, u \in Slots \cup {NoSlot} :
       /\ RegBecomes(f, [mask |-> m, ud |-> u])
       /\ m = {} <=> u = NoSlot
       /\ Reg(f) # None /\ m # {} => u = Reg(f).ud

LEMMA GrantTypes ==
  ASSUME PortInv, NEW f \in Fds, NEW m \in SUBSET Interest, NEW u \in Slots,
         NpAdd(f, m, u) \/ NpMod(f, m, u) \/ NpDel(f), backend' = backend
  PROVE  EpTypeOK' /\ KqTypeOK' /\ (backend # "select" => sel_vars' = sel_vars)
<1>1. CASE backend = "epoll"
  <2>1. /\ UNCHANGED <<orphans, kq, sel_vars>>
        /\ \/ ep' = [ep EXCEPT ![f] = [mask |-> m, ud |-> u]]
           \/ ep' = [ep EXCEPT ![f] = None]
    BY <1>1 DEF NpAdd, NpMod, NpDel, EpAdd, EpMod, EpDel
  <2>2. PICK r \in Registration :
          /\ ep' = [ep EXCEPT ![f] = r]
          /\ r # None => r.ud \in Slots
    <3> DEFINE r == [mask |-> m, ud |-> u]
    <3>1. r \in Registration /\ r.ud \in Slots /\ None \in Registration
      BY DEF Registration, None
    <3> QED
      BY <2>1, <3>1
  <2>3. EpTypeOK'
    BY <2>1, <2>2 DEF PortInv, EpTypeOK
  <2> QED
    BY <1>1, <2>1, <2>3 DEF PortInv, KqTypeOK
<1>2. CASE backend = "kqueue"
  <2>1. UNCHANGED <<ep_vars, sel_vars>> /\ (KqAdd(f, m, u) \/ KqMod(f, m, u) \/ KqDel(f))
    BY <1>2 DEF NpAdd, NpMod, NpDel
  <2>2. CASE KqAdd(f, m, u)
    BY <2>1, <2>2 DEF PortInv, EpTypeOK, ep_vars, KqAdd, KqTypeOK, Filter, On
  <2>3. CASE KqMod(f, m, u)
    BY <2>1, <2>3 DEF PortInv, EpTypeOK, ep_vars, KqMod, KqTypeOK, Filter
  <2>4. CASE KqDel(f)
    BY <2>1, <2>4 DEF PortInv, EpTypeOK, ep_vars, KqDel, KqTypeOK, Filter, NoFilters
  <2> QED
    BY <2>1, <2>2, <2>3, <2>4
<1>3. CASE backend = "select"
  BY <1>3 DEF NpAdd, NpMod, NpDel, PortInv, EpTypeOK, KqTypeOK, ep_vars
<1> QED
  BY <1>1, <1>2, <1>3, BackendCases

LEMMA RefuseTypes ==
  ASSUME PortInv, NEW f \in Fds, NEW m,
         NpAddFails(f) \/ NpModFails(f, m) \/ NpDelFails(f), backend' = backend
  PROVE  EpTypeOK' /\ KqTypeOK' /\ sel_vars' = sel_vars
<1>1. CASE UNCHANGED np_vars
  BY <1>1 DEF PortInv, EpTypeOK, KqTypeOK, np_vars, ep_vars
<1>2. CASE KqAddFails(f) /\ UNCHANGED <<ep_vars, sel_vars>>
  BY <1>2 DEF KqAddFails, PortInv, EpTypeOK, KqTypeOK, Filter, NoFilters, ep_vars
<1> QED
  BY <1>1, <1>2
     DEF NpAddFails, NpModFails, NpDelFails, KqModFails, SelFails, np_vars

\* select keeps its table, and what a socket asks for, whatever happened.
LEMMA GrantSelect ==
  ASSUME CoreInv, backend = "select", NEW s \in Live, NEW m \in SUBSET Interest,
         m # mask[s], Granting(s, m), MaskBecomes(s, m)
  PROVE  SelInv' /\ SelectOwns'
<1>1. fd[s] \in Fds /\ s \in Slots /\ SelInv /\ fd' = fd
  BY LiveFd DEF CoreInv, PortInv, MaskBecomes
<1>2. mask[s] # {} => SelMask(fd[s]) # {} /\ ud[fd[s]] = s
  BY DEF CoreInv, SelectOwns
<1>3. CASE m = {}
  <2>1. SelDel(fd[s]) /\ SelMask(fd[s]) # {}
    BY <1>2, <1>3 DEF Granting, NpDel
  <2>2. SelInv' /\ OthersSame(fd[s])
    BY <1>1, <2>1, SelDelInv
  <2> QED
    BY <1>3, <2>2, MaskSelectOwns
<1>4. CASE m # {} /\ mask[s] = {}
  <2>1. SelAdd(fd[s], m, s)
    BY <1>4 DEF Granting, NpAdd
  <2>2. /\ SelInv' /\ OthersSame(fd[s])
        /\ m \subseteq SelMask(fd[s])' /\ ud'[fd[s]] = s
    <3> DEFINE f == fd[s]
    <3>1. PICK g \in Fds : g = fd[s]
      BY <1>1
    <3>2. SelInv' /\ OthersSame(g) /\ SelMask(g)' = SelMask(g) \cup m /\ ud'[g] = s
      BY <1>1, <1>4, <2>1, <3>1, SelAddInv
    <3> QED
      BY <1>1, <3>1, <3>2
  <2> QED
    BY <2>2, MaskSelectOwns
<1>5. CASE m # {} /\ mask[s] # {}
  <2>1. SelMod(fd[s], m, s)
    BY <1>5 DEF Granting, NpMod
  <2>2. /\ SelInv' /\ OthersSame(fd[s])
        /\ m \subseteq SelMask(fd[s])' /\ ud'[fd[s]] = s
    <3>1. PICK g \in Fds : g = fd[s]
      BY <1>1
    <3>2. SelInv' /\ OthersSame(g) /\ SelMask(g)' = m /\ ud' = ud
      BY <1>1, <1>2, <1>5, <2>1, <3>1, SelModInv
    <3> QED
      BY <1>1, <1>2, <1>5, <3>1, <3>2
  <2> QED
    BY <2>2, MaskSelectOwns
<1> QED
  BY <1>3, <1>4, <1>5

LEMMA GrantReg ==
  ASSUME CoreInv, ~misused, NEW s \in Live, NEW m \in SUBSET Interest,
         m # mask[s], mask[s] \subseteq m \/ m \subseteq mask[s],
         Granting(s, m), MaskBecomes(s, m)
  PROVE  AsAsked' /\ RegChange
<1>1. /\ fd[s] \in Fds /\ s \in Slots /\ s # NoSlot
      /\ mask[s] \in SUBSET Interest /\ fd' = fd /\ backend' = backend
  BY LiveFd DEF CoreInv, ClientInv, MaskBecomes
<1>2. Reg(fd[s]) = Asked(s) /\ PortInv
  BY DEF CoreInv, AsAsked
<1> DEFINE r == IF m = {} THEN None ELSE [mask |-> m, ud |-> s]
<1>3. PICK f \in Fds : f = fd[s]
  BY <1>1
<1>4. RegBecomes(f, r) /\ orphans' = orphans
  <2>1. CASE m = {}
    <3>1. NpDel(f) /\ Reg(f) # None
      BY <1>2, <1>3, <2>1 DEF Granting, Asked, None
    <3> QED
      BY <1>1, <1>2, <2>1, <3>1, DelReg
  <2>2. CASE m # {} /\ mask[s] = {}
    <3>1. NpAdd(f, m, s) /\ Reg(f) = None
      BY <1>2, <1>3, <2>2 DEF Granting, Asked
    <3> QED
      BY <1>1, <1>2, <2>2, <3>1, AddReg
  <2>3. CASE m # {} /\ mask[s] # {}
    <3>1. NpMod(f, m, s) /\ Reg(f) = [mask |-> mask[s], ud |-> s]
      BY <1>2, <1>3, <2>3 DEF Granting, Asked
    <3> QED
      BY <1>1, <1>2, <2>3, <3>1, ModReg
  <2> QED
    BY <2>1, <2>2, <2>3
<1>5. AsAsked'
  <2>1. RegBecomes(fd[s], r)
    BY <1>1, <1>3, <1>4 DEF RegBecomes
  <2> QED
    BY <1>4, <2>1, MaskAsAsked
<1>6. RegChange
  <2>1. CASE m = {}
    <3>1. RegBecomes(f, [mask |-> {}, ud |-> NoSlot])
      BY <1>4, <2>1 DEF None
    <3> QED
      BY <3>1 DEF RegChange
  <2>2. CASE m # {}
    <3>1. RegBecomes(f, [mask |-> m, ud |-> s])
      BY <1>4, <2>2
    <3>2. Reg(f) # None => s = Reg(f).ud
      BY <1>2, <1>3 DEF Asked
    <3> QED
      BY <1>1, <2>2, <3>1, <3>2 DEF RegChange
  <2> QED
    BY <2>1, <2>2
<1> QED
  BY <1>5, <1>6

LEMMA SubscribeInv ==
  ASSUME CoreInv, NEW s \in Live, NEW m \in SUBSET Interest,
         mask[s] \subseteq m \/ m \subseteq mask[s],
         Subscribe(s, m), UNCHANGED <<backend, fault>>
  PROVE  CoreInv' /\ (~misused => RegChange)
<1>1. PortInv /\ fd[s] \in Fds /\ s \in Slots
  BY LiveFd DEF CoreInv
<1>2. CASE UNCHANGED <<np_vars, mask>>
  <2>1. PortInv' /\ RegSame /\ orphans' = orphans /\ sel_vars' = sel_vars
    BY <1>1, <1>2, NothingReg DEF np_vars
  <2> QED
    BY <1>2, <2>1, NothingInv DEF Subscribe, client_vars, RegChange
<1>3. CASE m # mask[s] /\ Granting(s, m) /\ mask' = [mask EXCEPT ![s] = m]
  <2>1. MaskBecomes(s, m)
    BY <1>3 DEF Subscribe, MaskBecomes
  <2>2. ClientInv'
    BY <2>1, MaskClient
  <2>3. EpTypeOK' /\ KqTypeOK' /\ (backend # "select" => sel_vars' = sel_vars)
    BY <1>1, <1>3, GrantTypes DEF Granting
  <2>4. SelInv' /\ SelectOwns'
    <3>1. CASE backend = "select"
      BY <1>3, <2>1, <3>1, GrantSelect
    <3>2. CASE backend # "select"
      BY <1>1, <2>3, <3>2 DEF PortInv, SelInv, Used, IsLargest, sel_vars, SelectOwns
    <3> QED
      BY <3>1, <3>2
  <2>5. PortInv'
    BY <1>1, <2>3, <2>4 DEF PortInv
  <2>6. ~misused => AsAsked' /\ RegChange
    BY <1>3, <2>1, GrantReg
  <2>7. misused => AsAsked'
    BY <2>1 DEF MaskBecomes, AsAsked
  <2> QED
    BY <2>2, <2>4, <2>5, <2>6, <2>7 DEF CoreInv
<1>4. CASE m # mask[s] /\ Refusing(s, m) /\ UNCHANGED mask
  <2>1. EpTypeOK' /\ KqTypeOK' /\ sel_vars' = sel_vars
    BY <1>1, <1>4, RefuseTypes DEF Refusing
  <2>2. PortInv'
    BY <1>1, <2>1 DEF PortInv, SelInv, Used, IsLargest, sel_vars
  <2>3. ~misused => RegSame /\ orphans' = orphans
    <3>1. ~misused /\ mask[s] = {} => Reg(fd[s]) = None
      BY DEF CoreInv, AsAsked, Asked
    <3>2. PICK f \in Fds : f = fd[s]
      BY <1>1
    <3>3. ~misused => \/ Reg(f) = None /\ NpAddFails(f)
                      \/ NpModFails(f, m)
                      \/ NpDelFails(f)
      BY <1>4, <3>1, <3>2 DEF Refusing
    <3> QED
      BY <1>1, <3>3, RefusedReg
  <2> QED
    BY <1>4, <2>1, <2>2, <2>3, NothingInv DEF Subscribe, client_vars, RegChange
<1> QED
  BY <1>2, <1>3, <1>4 DEF Subscribe

-----------------------------------------------------------------------------
(* Create and CloseSocket.                                                 *)

LEMMA CreateInv ==
  ASSUME CoreInv, NEW s \in Slots, NEW f \in Fds, Create(s, f),
         UNCHANGED <<backend, fault>>
  PROVE  CoreInv' /\ RegSame
<1>1. /\ fd' = [fd EXCEPT ![s] = f] /\ mask' = [mask EXCEPT ![s] = {}]
      /\ UNCHANGED <<np_vars, misused, child>>
      /\ s \notin Live /\ \A t \in Live : fd[t] # f
  BY DEF Create
<1>2. /\ Live' = Live \cup {s}
      /\ fd'[s] = f /\ mask'[s] = {}
      /\ \A t \in Live : t # s /\ fd'[t] = fd[t] /\ mask'[t] = mask[t]
  BY <1>1, NpAssumption DEF CoreInv, ClientInv, Live, NoFd
<1>3. ClientInv'
  <2>1. \A t, v \in Live : fd[t] = fd[v] => t = v
    BY DEF CoreInv, ClientInv
  <2>2. \A t, v \in Live' : fd'[t] = fd'[v] => t = v
    BY <1>1, <1>2, <2>1
  <2> QED
    BY <1>1, <2>2 DEF CoreInv, ClientInv
<1>4. PortInv' /\ RegSame /\ orphans' = orphans
  BY <1>1, NothingReg DEF CoreInv
<1>5. AsAsked'
  <2> SUFFICES ASSUME ~misused PROVE AsAsked'
    BY <1>1 DEF AsAsked
  <2>1. orphans' = {}
    BY <1>4 DEF CoreInv, AsAsked
  <2>2. Reg(f) = None
    BY <1>1 DEF CoreInv, AsAsked
  <2>3. Reg(fd[s])' = Asked(s)'
    BY <1>2, <1>4, <2>2 DEF RegSame, Asked
  <2>4. ASSUME NEW t \in Live PROVE Reg(fd[t])' = Asked(t)'
    <3>1. Reg(fd[t]) = Asked(t) /\ Asked(t)' = Asked(t)
      BY <1>2 DEF CoreInv, AsAsked, Asked
    <3> QED
      BY <1>2, <1>4, <3>1, LiveFd DEF RegSame
  <2>5. ASSUME NEW g \in Fds, \A t \in Live' : fd'[t] # g PROVE Reg(g)' = None
    <3>1. Reg(g) = None
      BY <1>2, <2>5 DEF CoreInv, AsAsked
    <3> QED
      BY <1>4, <3>1 DEF RegSame
  <2> QED
    BY <1>2, <2>1, <2>3, <2>4, <2>5 DEF AsAsked
<1>6. SelectOwns'
  <2>1. UNCHANGED <<rfds, wfds, ud>> /\ backend' = backend
    BY <1>1 DEF np_vars, sel_vars
  <2>2. ASSUME backend = "select", NEW t \in Live', mask'[t] # {}
        PROVE  mask'[t] \subseteq SelMask(fd[t])' /\ ud'[fd'[t]] = t
    <3>1. t \in Live /\ mask[t] # {}
      BY <1>2, <2>2
    <3>2. mask[t] \subseteq SelMask(fd[t]) /\ ud[fd[t]] = t
      BY <2>2, <3>1 DEF CoreInv, SelectOwns
    <3> QED
      BY <1>2, <2>1, <3>1, <3>2 DEF SelMask
  <2> QED
    BY <2>1, <2>2 DEF SelectOwns
<1> QED
  BY <1>3, <1>4, <1>5, <1>6 DEF CoreInv

LEMMA ClosedTypes ==
  ASSUME CoreInv, NEW s \in Live, Closed(s) \/ UNCHANGED np_vars, backend' = backend
  PROVE  PortInv' /\ sel_vars' = sel_vars
<1>1. PortInv /\ fd[s] \in Fds
  BY LiveFd DEF CoreInv
<1>2. sel_vars' = sel_vars
  BY DEF Closed, np_vars
<1>3. EpTypeOK' /\ KqTypeOK'
  <2>1. CASE UNCHANGED <<ep_vars, kq>>
    BY <1>1, <2>1 DEF PortInv, EpTypeOK, KqTypeOK, ep_vars
  <2>2. CASE EpClosed(fd[s], Shared(s)) /\ UNCHANGED kq
    <3> PICK f \in Fds : f = fd[s]
      BY <1>1
    <3>1. None \in Registration
      BY DEF Registration, None
    <3>2. /\ ep' \in [Fds -> Registration]
          /\ \A g \in Fds : ep'[g] # None => ep'[g].ud \in Slots
      BY <1>1, <2>2, <3>1 DEF PortInv, EpTypeOK, EpClosed
    <3>3. orphans' \subseteq [fd : Fds, mask : SUBSET Interest, ud : Slots]
      <4>1. ep[f] # None =>
              [fd |-> f, mask |-> ep[f].mask, ud |-> ep[f].ud]
                \in [fd : Fds, mask : SUBSET Interest, ud : Slots]
        BY <1>1 DEF PortInv, EpTypeOK, Registration
      <4> QED
        BY <1>1, <2>2, <4>1 DEF PortInv, EpTypeOK, EpClosed
    <3> QED
      BY <1>1, <2>2, <3>2, <3>3 DEF PortInv, EpTypeOK, KqTypeOK
  <2>3. CASE KqClosed(fd[s]) /\ UNCHANGED ep_vars
    BY <1>1, <2>3
       DEF PortInv, EpTypeOK, ep_vars, KqClosed, KqDel, KqTypeOK, Filter, NoFilters
  <2> QED
    BY <2>1, <2>2, <2>3 DEF Closed, np_vars
<1> QED
  BY <1>1, <1>2, <1>3 DEF PortInv, SelInv, Used, IsLargest, sel_vars

\* Unless net misuses its implementation close(2) clears the registration.
LEMMA ClosedReg ==
  ASSUME CoreInv, NEW s \in Live, ~misused, ~Misuse(s), backend' = backend,
         IF fd[s] \in StdFds THEN UNCHANGED np_vars ELSE Closed(s),
         NEW f \in Fds, f = fd[s]
  PROVE  RegBecomes(f, None) /\ orphans' = {}
<1>1. PortInv /\ orphans = {} /\ Reg(f) = Asked(s)
  BY DEF CoreInv, AsAsked
<1>2. CASE mask[s] = {} /\ UNCHANGED np_vars
  <2>1. RegSame /\ orphans' = orphans
    BY <1>1, <1>2, NothingReg
  <2> QED
    BY <1>1, <1>2, <2>1 DEF RegBecomes, RegSame, Asked
<1>3. CASE backend = "epoll" /\ EpClosed(f, Shared(s))
  <2>1. Shared(s) => ep[f] = None
    BY <1>1, <1>3 DEF Misuse, Asked, Reg
  <2>2. orphans' = {} /\ ep' = [ep EXCEPT ![f] = None]
    BY <1>1, <1>3, <2>1 DEF EpClosed
  <2> QED
    BY <1>1, <1>3, <2>2 DEF PortInv, EpTypeOK, RegBecomes, Reg
<1>4. CASE backend = "kqueue" /\ KqClosed(f) /\ UNCHANGED <<ep_vars, sel_vars>>
  BY <1>1, <1>4, KqDelReg DEF KqClosed
<1> QED
  BY <1>2, <1>3, <1>4 DEF Closed, Misuse

LEMMA CloseInv ==
  ASSUME CoreInv, NEW s \in Live, CloseSocket(s), UNCHANGED <<backend, fault>>
  PROVE  CoreInv' /\ (~misused' => RegChange)
<1>1. /\ fd' = [fd EXCEPT ![s] = NoFd] /\ mask' = mask
      /\ misused' = (misused \/ Misuse(s))
      /\ IF fd[s] \in StdFds THEN UNCHANGED np_vars ELSE Closed(s)
  BY DEF CloseSocket
<1>2. /\ Live' = Live \ {s}
      /\ \A t \in Live' : fd'[t] = fd[t] /\ fd[t] # fd[s]
      /\ s \in Slots /\ fd[s] \in Fds
  BY <1>1, LiveFd DEF CoreInv, ClientInv, Live
<1>3. ClientInv'
  <2>1. /\ child' \in [Slots -> Copy]
        /\ \A t \in Slots : child'[t].file # "none" => child'[t].fd \in Fds
    <3>1. CASE child' = child
      BY <3>1 DEF CoreInv, ClientInv
    <3>2. CASE Shared(s) /\ child' = [child EXCEPT ![s].file = "only"]
      BY <1>2, <3>2 DEF Shared, Copy, CoreInv, ClientInv
    <3> QED
      BY <3>1, <3>2 DEF CloseSocket
  <2>2. misused' \in BOOLEAN
    BY <1>1 DEF CoreInv, ClientInv, Misuse
  <2>3. \A t, v \in Live' : fd'[t] = fd'[v] => t = v
    BY <1>2 DEF CoreInv, ClientInv
  <2> QED
    BY <1>1, <2>1, <2>2, <2>3 DEF CoreInv, ClientInv
<1>4. PortInv' /\ sel_vars' = sel_vars
  BY <1>1, ClosedTypes
<1>5. SelectOwns'
  <2>1. ASSUME backend = "select", NEW t \in Live', mask'[t] # {}
        PROVE  mask'[t] \subseteq SelMask(fd[t])' /\ ud'[fd'[t]] = t
    <3>1. mask[t] \subseteq SelMask(fd[t]) /\ ud[fd[t]] = t
      BY <1>1, <1>2, <2>1 DEF CoreInv, SelectOwns
    <3> QED
      BY <1>1, <1>2, <1>4, <2>1, <3>1 DEF SelMask, sel_vars
  <2> QED
    BY <2>1 DEF SelectOwns
<1>6. ~misused' => AsAsked' /\ RegChange
  <2> SUFFICES ASSUME ~misused, ~Misuse(s) PROVE AsAsked' /\ RegChange
    BY <1>1
  <2>1. PICK f \in Fds : f = fd[s]
    BY <1>2
  <2>2. RegBecomes(f, None) /\ orphans' = {}
    BY <1>1, <2>1, ClosedReg
  <2>3. ASSUME NEW t \in Live' PROVE Reg(fd[t])' = Asked(t)'
    <3>1. Reg(fd[t]) = Asked(t) /\ Asked(t)' = Asked(t) /\ fd'[t] \in Fds \ {f}
      BY <1>1, <1>2, <2>1, LiveFd DEF CoreInv, AsAsked, Asked
    <3> QED
      BY <1>2, <2>2, <3>1 DEF RegBecomes
  <2>4. ASSUME NEW g \in Fds, \A t \in Live' : fd'[t] # g PROVE Reg(g)' = None
    <3>1. CASE g = f
      BY <2>2, <3>1 DEF RegBecomes
    <3>2. CASE g # f
      <4>1. Reg(g) = None
        BY <1>2, <2>1, <2>4, <3>2 DEF CoreInv, AsAsked
      <4> QED
        BY <2>2, <3>2, <4>1 DEF RegBecomes
    <3> QED
      BY <3>1, <3>2
  <2>5. AsAsked'
    BY <2>2, <2>3, <2>4 DEF AsAsked
  <2>6. RegChange
    BY <2>2 DEF RegChange, None
  <2> QED
    BY <2>5, <2>6
<1>7. misused' => AsAsked'
  BY DEF AsAsked
<1> QED
  BY <1>3, <1>4, <1>5, <1>6, <1>7 DEF CoreInv

-----------------------------------------------------------------------------
(* The batch.                                                              *)

\* What np_poll reports belongs to a live socket, by its slot.
LEMMA ReportsOwned ==
  ASSUME CoreInv, ~misused, NEW e \in Reports
  PROVE  /\ e \in Event
         /\ e.ud \in Live /\ fd[e.ud] = e.fd
         /\ mask[e.ud] # {}
         /\ Reg(e.fd) = [mask |-> mask[e.ud], ud |-> e.ud]
         /\ e.read => "R" \in mask[e.ud]
<1>1. PortInv /\ orphans = {}
  BY DEF CoreInv, AsAsked
<1>2. e \in Event
  BY <1>1, BackendCases DEF Reports, EpReports, KqReports, SelReports
<1>3. e.fd \in Fds /\ e.ud \in Slots /\ e.ud # NoSlot
  BY <1>2, NpAssumption DEF Event, Slots, NoSlot
<1>4. Reg(e.fd).ud = e.ud /\ (e.read => "R" \in Reg(e.fd).mask)
  <2>1. CASE backend = "epoll"
    <3>1. Reg(e.fd) = ep[e.fd]
      BY <2>1 DEF Reg
    <3>2. ep[e.fd].ud = e.ud /\ (e.read => "R" \in ep[e.fd].mask)
      BY <1>1, <2>1 DEF Reports, EpReports
    <3> QED
      BY <3>1, <3>2
  <2>2. CASE backend = "kqueue"
    <3>1. /\ kq[e.fd].ud = e.ud
          /\ e.read => "R" \in KqMask(e.fd)
          /\ e.read # e.write
          /\ e.write => "W" \in KqMask(e.fd)
      BY <2>2 DEF Reports, KqReports
    <3>2. KqMask(e.fd) # {}
      BY <1>2, <3>1 DEF Event
    <3>3. Reg(e.fd) = [mask |-> KqMask(e.fd), ud |-> kq[e.fd].ud]
      BY <2>2, <3>2 DEF Reg
    <3> QED
      BY <3>1, <3>3
  <2>3. CASE backend = "select"
    <3>1. /\ ud[e.fd] = e.ud /\ (e.read \/ e.write)
          /\ e.read => e.fd \in rfds
          /\ e.write => e.fd \in wfds
      BY <2>3 DEF Reports, SelReports
    <3>2. SelMask(e.fd) # {} /\ (e.read => "R" \in SelMask(e.fd))
      BY <3>1 DEF SelMask, Interest
    <3>3. Reg(e.fd) = [mask |-> SelMask(e.fd), ud |-> ud[e.fd]]
      BY <2>3, <3>2 DEF Reg
    <3> QED
      BY <3>1, <3>2, <3>3
  <2> QED
    BY <1>1, <2>1, <2>2, <2>3, BackendCases
<1>5. Reg(e.fd) # None
  BY <1>3, <1>4 DEF None
<1>6. PICK s \in Live : fd[s] = e.fd
  BY <1>3, <1>5 DEF CoreInv, AsAsked
<1>7. Reg(e.fd) = Asked(s)
  BY <1>6 DEF CoreInv, AsAsked
<1>8. mask[s] # {} /\ Reg(e.fd) = [mask |-> mask[s], ud |-> s]
  BY <1>5, <1>7 DEF Asked
<1>9. s = e.ud /\ (e.read => "R" \in mask[s])
  BY <1>4, <1>8
<1> QED
  BY <1>2, <1>6, <1>8, <1>9

LEMMA PollInv ==
  ASSUME IInv, Poll, UNCHANGED <<backend, fault>>
  PROVE  IInv' /\ RegSame
<1>1. CoreInv' /\ RegSame
  <2>1. PortInv' /\ RegSame /\ orphans' = orphans /\ sel_vars' = sel_vars
    BY NothingReg DEF IInv, CoreInv, Poll, np_vars
  <2> QED
    BY <2>1, NothingInv DEF IInv, Poll, client_vars
<1>2. batch' \subseteq Reports /\ misused' = misused /\ fd' = fd
  BY DEF Poll, client_vars
<1>3. batch' \subseteq Event
  BY <1>2, BackendCases DEF IInv, CoreInv, Reports, EpReports, KqReports, SelReports
<1>4. ASSUME ~misused, backend # "kqueue"
      PROVE  /\ \A e \in batch' : fd[e.ud] = e.fd
             /\ \A e1, e2 \in batch' : e1.ud = e2.ud => e1 = e2
  <2>1. \A e \in batch' : fd[e.ud] = e.fd
    BY <1>2, <1>4, ReportsOwned DEF IInv
  <2>2. \A e1, e2 \in batch' : e1.fd = e2.fd /\ e1.ud = e2.ud => e1 = e2
    BY <1>4, BackendCases DEF IInv, CoreInv, Poll, NpBatch, EpBatch, SelBatch
  <2> QED
    BY <2>1, <2>2
<1>5. ASSUME ~misused, backend = "kqueue"
      PROVE  /\ \A e \in batch' : e.read # e.write /\ fd[e.ud] = e.fd
             /\ \A e1, e2 \in batch' : e1.ud = e2.ud <=> e1.fd = e2.fd
  <2>1. \A e \in batch' : fd[e.ud] = e.fd
    BY <1>2, <1>5, ReportsOwned DEF IInv
  <2>2. batch' \subseteq KqReports
    BY <1>2, <1>5 DEF Reports
  <2>3. \A e \in batch' : e.read # e.write /\ kq[e.fd].ud = e.ud
    BY <2>2 DEF KqReports
  <2> QED
    BY <2>1, <2>3
<1> QED
  BY <1>1, <1>2, <1>3, <1>4, <1>5 DEF IInv, BatchInv

\* An event is taken from the batch while one socket at most is given up, and
\* that one is its own; another one may be created.
LEMMA HandleBatch ==
  ASSUME IInv, NEW e \in batch, batch' = batch \ {e}, backend' = backend,
         misused => misused',
         \A s \in Live \ {e.ud} : fd'[s] = fd[s]
  PROVE  BatchInv'
<1>1. batch' \subseteq Event
  BY DEF IInv, BatchInv
<1>2. ASSUME ~misused', backend # "kqueue"
      PROVE  /\ \A x \in batch' : fd'[x.ud] = x.fd
             /\ \A e1, e2 \in batch' : e1.ud = e2.ud => e1 = e2
  <2>1. /\ \A x \in batch : fd[x.ud] = x.fd
        /\ \A e1, e2 \in batch : e1.ud = e2.ud => e1 = e2
    BY <1>2 DEF IInv, BatchInv
  <2>2. ASSUME NEW x \in batch' PROVE fd'[x.ud] = x.fd
    <3>1. x \in batch /\ x.ud # e.ud /\ x.ud \in Slots /\ x.fd \in Fds
      BY <2>1 DEF IInv, BatchInv, Event
    <3>2. x.ud \in Live
      BY <2>1, <3>1, NpAssumption DEF Live, NoFd
    <3> QED
      BY <2>1, <3>1, <3>2
  <2> QED
    BY <2>1, <2>2
<1>3. ASSUME ~misused', backend = "kqueue"
      PROVE  /\ \A x \in batch' : x.read # x.write
             /\ \A e1, e2 \in batch' : e1.ud = e2.ud <=> e1.fd = e2.fd
             /\ \A x \in batch' : fd'[x.ud] = x.fd \/ Alone(x, batch')
  <2>1. /\ \A x \in batch : x.read # x.write
        /\ \A e1, e2 \in batch : e1.ud = e2.ud <=> e1.fd = e2.fd
        /\ \A x \in batch : fd[x.ud] = x.fd \/ Alone(x, batch)
    BY <1>3 DEF IInv, BatchInv
  <2>2. ASSUME NEW x \in batch' PROVE fd'[x.ud] = x.fd \/ Alone(x, batch')
    <3>1. x \in batch /\ x # e /\ x.ud \in Slots /\ x.fd \in Fds
      BY DEF IInv, BatchInv, Event
    <3>2. CASE x.ud = e.ud
      <4>1. ASSUME NEW y \in batch' \ {x}, y.fd = x.fd PROVE FALSE
        <5>1. x.fd = e.fd /\ y.ud = e.ud /\ y.fd = e.fd
          BY <2>1, <3>1, <3>2, <4>1
        <5>2. x \in Event /\ y \in Event /\ e \in Event
          BY <3>1, <4>1 DEF IInv, BatchInv
        <5>3. x # e /\ y # e /\ y # x
          BY <3>1, <4>1
        <5>4. x.read # x.write /\ y.read # y.write /\ e.read # e.write
          BY <2>1, <3>1, <4>1
        <5> QED
          BY <3>2, <5>1, <5>2, <5>3, <5>4 DEF Event
      <4> QED
        BY <4>1 DEF Alone
    <3>3. CASE x.ud # e.ud /\ fd[x.ud] = x.fd
      <4>1. x.ud \in Live
        BY <3>1, <3>3, NpAssumption DEF Live, NoFd
      <4> QED
        BY <3>3, <4>1
    <3>4. CASE Alone(x, batch)
      BY <3>4 DEF Alone
    <3> QED
      BY <2>1, <3>1, <3>2, <3>3, <3>4
  <2> QED
    BY <2>1, <2>2
<1> QED
  BY <1>1, <1>2, <1>3 DEF BatchInv

LEMMA HandleInv ==
  ASSUME IInv, NEW e \in batch, Handle(e), UNCHANGED <<backend, fault>>
  PROVE  IInv' /\ (~misused' => ~misused /\ RegChange)
<1>1. CoreInv /\ batch' = batch \ {e}
  BY DEF IInv, Handle
<1>2. CASE e.ud \in Live /\ CloseSocket(e.ud)
  <2>1. misused => misused'
    BY <1>2 DEF CloseSocket
  <2>2. \A s \in Live \ {e.ud} : fd'[s] = fd[s]
    BY <1>1, <1>2 DEF CloseSocket, CoreInv, ClientInv, Live
  <2> QED
    BY <1>1, <1>2, <2>1, <2>2, CloseInv, HandleBatch DEF IInv
<1>3. CASE e.ud \in Live /\ \E m \in {mask[e.ud] \ {"W"}, {}} : Subscribe(e.ud, m)
  <2>1. PICK m \in {mask[e.ud] \ {"W"}, {}} : Subscribe(e.ud, m)
    BY <1>3
  <2>2. m \in SUBSET Interest /\ m \subseteq mask[e.ud]
    BY <1>1, <1>3, <2>1 DEF CoreInv, ClientInv, Live
  <2>3. misused' = misused /\ fd' = fd
    BY <2>1 DEF Subscribe
  <2>4. CoreInv' /\ (~misused => RegChange)
    BY <1>1, <1>3, <2>1, <2>2, SubscribeInv
  <2> QED
    BY <1>1, <2>3, <2>4, HandleBatch DEF IInv
<1>4. CASE \E s \in Slots, f \in Fds \ StdFds : Create(s, f)
  <2>1. PICK s \in Slots, f \in Fds \ StdFds : Create(s, f)
    BY <1>4
  <2>2. misused' = misused /\ \A t \in Live : fd'[t] = fd[t]
    BY <1>1, <2>1 DEF Create, CoreInv, ClientInv, Live
  <2>3. CoreInv' /\ RegSame
    BY <1>1, <2>1, CreateInv
  <2> QED
    BY <1>1, <2>2, <2>3, HandleBatch DEF IInv, RegChange
<1>5. CASE UNCHANGED <<np_vars, client_vars, misused, child>>
  <2>1. PortInv' /\ RegSame /\ orphans' = orphans /\ sel_vars' = sel_vars
    BY <1>1, <1>5, NothingReg DEF CoreInv, np_vars
  <2>2. CoreInv'
    BY <1>1, <1>5, <2>1, NothingInv
  <2>3. BatchInv'
    BY <1>1, <1>5, HandleBatch DEF client_vars
  <2> QED
    BY <1>5, <2>1, <2>2, <2>3 DEF IInv, RegChange
<1> QED
  BY <1>2, <1>3, <1>4, <1>5 DEF Handle

LEMMA CallInv ==
  ASSUME IInv, Call, UNCHANGED <<backend, fault>>
  PROVE  IInv' /\ (~misused' => ~misused /\ RegChange)
<1>1. CoreInv /\ batch = {} /\ batch' = {}
  BY DEF IInv, Call
<1>2. BatchInv'
  BY <1>1 DEF BatchInv
<1>3. CASE \E s \in Slots, f \in Fds : Create(s, f)
  <2>1. PICK s \in Slots, f \in Fds : Create(s, f)
    BY <1>3
  <2>2. CoreInv' /\ RegSame
    BY <1>1, <2>1, CreateInv
  <2> QED
    BY <1>2, <2>1, <2>2 DEF IInv, RegChange, Create
<1>4. CASE \E s \in Live : \E m \in Asks(mask[s]) : Subscribe(s, m)
  <2> PICK s \in Live : \E m \in Asks(mask[s]) : Subscribe(s, m)
    BY <1>4
  <2>1. PICK m \in Asks(mask[s]) : Subscribe(s, m)
    OBVIOUS
  <2>2. m \in SUBSET Interest /\ (mask[s] \subseteq m \/ m \subseteq mask[s])
    BY <1>1, <2>1 DEF CoreInv, ClientInv, Live, Asks, Interest
  <2>3. CoreInv' /\ (~misused => RegChange)
    BY <1>1, <2>1, <2>2, SubscribeInv
  <2> QED
    BY <1>2, <2>1, <2>3 DEF IInv, Subscribe
<1>5. CASE \E s \in Live : CloseSocket(s)
  <2>1. PICK s \in Live : CloseSocket(s)
    BY <1>5
  <2>2. CoreInv' /\ (~misused' => RegChange)
    BY <1>1, <2>1, CloseInv
  <2> QED
    BY <1>2, <2>1, <2>2 DEF IInv, CloseSocket
<1> QED
  BY <1>3, <1>4, <1>5 DEF Call

\* What the other process does changes no registration of this one's.
LEMMA OtherInv ==
  ASSUME IInv, UNCHANGED <<ep, kq, sel_vars, client_vars, batch, misused, backend, fault>>,
         orphans' \subseteq orphans, child' \in [Slots -> Copy],
         \A s \in Slots : child'[s].file # "none" => child'[s].fd \in Fds
  PROVE  IInv' /\ RegSame
<1>1. Live' = Live /\ fd' = fd /\ mask' = mask
  BY DEF Live, client_vars
<1>2. PortInv' /\ RegSame
  BY DEF IInv, CoreInv, PortInv, EpTypeOK, KqTypeOK, SelInv, Used, IsLargest,
         RegSame, Reg, KqMask, SelMask, sel_vars
<1>3. ClientInv'
  BY <1>1 DEF IInv, CoreInv, ClientInv
<1>4. AsAsked'
  <2>1. ASSUME ~misused, NEW s \in Live PROVE Reg(fd[s])' = Asked(s)'
    <3>1. Reg(fd[s]) = Asked(s) /\ Asked(s)' = Asked(s) /\ fd[s] \in Fds
      BY <1>1, <2>1, LiveFd DEF IInv, CoreInv, AsAsked, Asked
    <3> QED
      BY <1>1, <1>2, <3>1 DEF RegSame
  <2> QED
    BY <1>1, <1>2, <2>1 DEF IInv, CoreInv, AsAsked, RegSame
<1>5. SelectOwns'
  BY <1>1 DEF IInv, CoreInv, SelectOwns, SelMask, sel_vars
<1>6. BatchInv'
  BY <1>1 DEF IInv, BatchInv
<1> QED
  BY <1>2, <1>3, <1>4, <1>5, <1>6 DEF IInv, CoreInv

LEMMA ForkInv ==
  ASSUME IInv, Fork \/ \E s \in Slots : ChildCloses(s), UNCHANGED <<backend, fault>>
  PROVE  IInv' /\ RegSame
<1>1. /\ child' \in [Slots -> Copy]
      /\ \A s \in Slots : child'[s].file # "none" => child'[s].fd \in Fds
  <2>1. NoCopy \in Copy /\ NoCopy.file = "none"
    BY DEF NoCopy, Copy
  <2>2. CASE Fork
    <3>1. \A s \in Live : [file |-> "shared", fd |-> fd[s], mask |-> mask[s]] \in Copy
      BY DEF Copy, IInv, CoreInv, ClientInv, Live
    <3>2. \A s \in Live : fd[s] \in Fds
      BY LiveFd DEF IInv
    <3> QED
      BY <2>1, <2>2, <3>1, <3>2 DEF Fork
  <2>3. ASSUME NEW s \in Slots, ChildCloses(s)
        PROVE  /\ child' \in [Slots -> Copy]
               /\ \A t \in Slots : child'[t].file # "none" => child'[t].fd \in Fds
    BY <2>1, <2>3 DEF ChildCloses, IInv, CoreInv, ClientInv
  <2> QED
    BY <2>2, <2>3
<1>2. UNCHANGED <<ep, kq, sel_vars, client_vars, batch, misused>>
  BY DEF Fork, ChildCloses, EpGone, np_vars, ep_vars
<1>3. orphans' \subseteq orphans
  BY DEF Fork, ChildCloses, EpGone, np_vars, ep_vars
<1> QED
  BY <1>1, <1>2, <1>3, OtherInv

\* What the other process subscribes to is a misuse, of which only the types
\* of epoll's state and of the copies remain to be shown.
LEMMA ChildInv ==
  ASSUME IInv, NEW s \in Slots, NEW m \in SUBSET Interest, ChildSubscribes(s, m),
         UNCHANGED <<backend, fault>>
  PROVE  IInv' /\ misused'
<1>1. /\ misused' = TRUE
      /\ child' = [child EXCEPT ![s].mask = m]
      /\ UNCHANGED <<kq, sel_vars, client_vars, batch>>
      /\ child[s].file # "none"
  BY DEF ChildSubscribes
<1>2. PICK f \in Fds : f = child[s].fd
  BY <1>1 DEF IInv, CoreInv, ClientInv
<1>3. EpTypeOK'
  <2>1. CASE child[s].file = "shared"
    <3>1. /\ orphans' = orphans
          /\ \/ ep' = [ep EXCEPT ![f] = [mask |-> m, ud |-> s]]
             \/ ep' = [ep EXCEPT ![f] = None]
      BY <1>2, <2>1 DEF ChildSubscribes, EpAdd, EpMod, EpDel
    <3>2. PICK r \in Registration :
            /\ ep' = [ep EXCEPT ![f] = r]
            /\ r # None => r.ud \in Slots
      <4> DEFINE r == [mask |-> m, ud |-> s]
      <4>1. r \in Registration /\ r.ud \in Slots /\ None \in Registration
        BY DEF Registration, None
      <4> QED
        BY <3>1, <4>1
    <3> QED
      BY <3>1, <3>2 DEF IInv, CoreInv, PortInv, EpTypeOK
  <2>2. CASE child[s].file # "shared"
    <3>1. ep' = ep /\ orphans' \subseteq orphans \cup {[fd |-> f, mask |-> m, ud |-> s]}
      BY <1>2, <2>2 DEF ChildSubscribes, EpOther
    <3>2. [fd |-> f, mask |-> m, ud |-> s] \in [fd : Fds, mask : SUBSET Interest, ud : Slots]
      OBVIOUS
    <3> QED
      BY <3>1, <3>2 DEF IInv, CoreInv, PortInv, EpTypeOK
  <2> QED
    BY <2>1, <2>2
<1>4. PortInv'
  BY <1>1, <1>3
     DEF IInv, CoreInv, PortInv, KqTypeOK, SelInv, Used, IsLargest, sel_vars
<1>5. ClientInv'
  <2>1. /\ child' \in [Slots -> Copy]
        /\ \A t \in Slots : child'[t].file # "none" => child'[t].fd \in Fds
    BY <1>1 DEF Copy, IInv, CoreInv, ClientInv
  <2>2. UNCHANGED <<fd, mask>> /\ Live' = Live
    BY <1>1 DEF client_vars, Live
  <2> QED
    BY <1>1, <2>1, <2>2 DEF IInv, CoreInv, ClientInv
<1>6. AsAsked' /\ BatchInv'
  BY <1>1 DEF AsAsked, IInv, BatchInv
<1>7. SelectOwns'
  BY <1>1 DEF IInv, CoreInv, SelectOwns, SelMask, sel_vars, client_vars, Live
<1> QED
  BY <1>1, <1>4, <1>5, <1>6, <1>7 DEF IInv, CoreInv

-----------------------------------------------------------------------------
(* The specification.                                                      *)

LEMMA InitInv == Init => IInv
<1> SUFFICES ASSUME Init PROVE IInv
  OBVIOUS
<1>1. Live = {}
  BY DEF Init, Live
<1>2. EpTypeOK
  BY DEF Init, EpInit, EpTypeOK, Registration, None
<1>3. KqTypeOK
  BY DEF Init, KqInit, KqTypeOK, NoFilters, Filter
<1>4. PortInv
  BY <1>2, <1>3, SelInitInv DEF Init, PortInv
<1>5. ClientInv
  BY <1>1 DEF Init, ClientInv, Copy, NoCopy
<1>6. ASSUME NEW f \in Fds PROVE Reg(f) = None
  <2>1. ep[f] = None /\ kq[f] = NoFilters /\ SelMask(f) = {}
    BY DEF Init, EpInit, KqInit, SelInit, SelMask, Interest
  <2>2. KqMask(f) = {}
    BY <2>1 DEF KqMask, NoFilters, Interest
  <2> QED
    BY <1>4, <2>1, <2>2, BackendCases DEF Reg
<1>7. AsAsked /\ SelectOwns /\ BatchInv
  BY <1>1, <1>6 DEF Init, EpInit, AsAsked, SelectOwns, BatchInv
<1> QED
  BY <1>4, <1>5, <1>7 DEF IInv, CoreInv

LEMMA NextInv == IInv /\ [Next]_vars => IInv'
<1> SUFFICES ASSUME IInv, [Next]_vars PROVE IInv'
  OBVIOUS
<1>1. CASE Next
  <2>1. CASE Call
    BY <1>1, <2>1, CallInv DEF Next
  <2>2. CASE Poll
    BY <1>1, <2>2, PollInv DEF Next
  <2>3. CASE \E e \in batch : Handle(e)
    BY <1>1, <2>3, HandleInv DEF Next
  <2>4. CASE Fork \/ \E s \in Slots : ChildCloses(s)
    BY <1>1, <2>4, ForkInv DEF Next
  <2>5. CASE \E s \in Slots, m \in SUBSET Interest : ChildSubscribes(s, m)
    BY <1>1, <2>5, ChildInv DEF Next
  <2> QED
    BY <1>1, <2>1, <2>2, <2>3, <2>4, <2>5 DEF Next, Step
<1>2. CASE UNCHANGED vars
  <2>1. child' = child /\ UNCHANGED <<ep, kq, sel_vars, client_vars, batch, misused, backend, fault>>
    BY <1>2 DEF vars, np_vars, ep_vars
  <2>2. orphans' = orphans
    BY <1>2 DEF vars, np_vars, ep_vars
  <2> QED
    BY <2>1, <2>2, OtherInv DEF IInv, CoreInv, ClientInv
<1> QED
  BY <1>1, <1>2

LEMMA Invariance == Spec => []IInv
<1> QED
  BY InitInv, NextInv, PTL DEF Spec

\* The type invariant of NpPorts, for every Max, Fds and FD_SETSIZE.
THEOREM TypeCorrect == Spec => []TypeOK
<1>1. IInv => TypeOK
  <2>1. ASSUME SelInv PROVE maxfd \in Fds \cup {NoFd}
    BY <2>1 DEF SelInv, IsLargest
  <2> QED
    BY <2>1 DEF IInv, CoreInv, PortInv, ClientInv, BatchInv, SelInv, SelTypeOK, TypeOK
<1> QED
  BY <1>1, Invariance, PTL

\* np_select.h's array covers its sets and maxfd is its largest entry, also
\* after sockets were closed without np_del.
THEOREM TableCorrect == Spec => []SelectTable
<1>1. IInv => SelectTable
  <2> SUFFICES ASSUME SelInv PROVE SelectTable
    BY DEF IInv, CoreInv, PortInv
  <2>1. Used \in SUBSET Nat /\ Used = rfds \cup wfds /\ IsLargest(maxfd, Used)
    BY DEF SelInv, Used
  <2>2. \E x : x = maxfd
    OBVIOUS
  <2>3. maxfd = Largest(Used)
    BY <2>1, LargestUnique
  <2> QED
    BY <2>1, <2>3 DEF SelectTable
<1> QED
  BY <1>1, Invariance, PTL

\* Of all three implementations: until a misuse a live socket's mask is what
\* is registered for it, and nothing else is registered.
THEOREM RegistrationsCorrect == Spec => []RegisteredAsAsked
<1>1. IInv => RegisteredAsAsked
  <2> SUFFICES ASSUME IInv PROVE RegisteredAsAsked
    OBVIOUS
  <2>1. ASSUME ~misused, NEW s \in Live, mask[s] # {} PROVE Registered(s)
    BY <2>1 DEF IInv, CoreInv, AsAsked, Asked, Registered
  <2>2. ASSUME ~misused, NEW f \in Fds, Reg(f) # None
        PROVE  \E s \in Live : fd[s] = f /\ mask[s] # {}
    <3>1. PICK s \in Live : fd[s] = f
      BY <2>2 DEF IInv, CoreInv, AsAsked
    <3>2. Reg(f) = Asked(s)
      BY <2>2, <3>1 DEF IInv, CoreInv, AsAsked
    <3> QED
      BY <2>2, <3>1, <3>2 DEF Asked
  <2>3. ~misused => orphans = {}
    BY DEF IInv, CoreInv, AsAsked
  <2>4. backend = "select" =>
          \A s \in Live : mask[s] # {} => mask[s] \subseteq SelMask(fd[s]) /\ ud[fd[s]] = s
    BY DEF IInv, CoreInv, SelectOwns
  <2> QED
    BY <2>1, <2>2, <2>3, <2>4 DEF RegisteredAsAsked
<1> QED
  BY <1>1, Invariance, PTL

\* An event that waits to be handled names the slot that holds its descriptor,
\* or is the second one that kqueue has for it.
THEOREM EventsCorrect == Spec => []EventsReachOwner
<1>1. IInv => EventsReachOwner
  BY DEF IInv, BatchInv, Alone, EventsReachOwner
<1> QED
  BY <1>1, Invariance, PTL

-----------------------------------------------------------------------------
(* The refinement.                                                         *)

\* select(2)'s events are no more than there are slots, since each socket has
\* one at most.
LEMMA BatchSize ==
  ASSUME NEW es, es \subseteq Event, \A e1, e2 \in es : e1.ud = e2.ud => e1 = e2
  PROVE  Cardinality(es) <= Max
<1> DEFINE g == [e \in es |-> e.ud]
<1>1. g \in [es -> Slots] /\ \A e1, e2 \in es : g[e1] = g[e2] => e1 = e2
  BY DEF Event
<1>2. g \in Injection(es, Slots)
  BY <1>1 DEF Injection, IsInjective
<1>3. IsFiniteSet(Slots) /\ Cardinality(Slots) = Max
  <2>1. 0 \in Int /\ Max - 1 \in Int /\ ~(0 > Max - 1) /\ (Max - 1) - 0 + 1 = Max
    BY NpAssumption
  <2> QED
    BY <2>1, FS_Interval DEF Slots
<1> HIDE DEF g
<1>4. Cardinality(es) <= Cardinality(Slots)
  BY <1>2, <1>3, FS_Injection
<1> QED
  BY <1>3, <1>4

LEMMA ChangeIsChange ==
  ASSUME RegChange PROVE M!Change
<1> DEFINE reg == [f \in Fds |-> Reg(f)]
<1>1. CASE RegSame
  BY <1>1 DEF RegSame, M!Change
<1>2. CASE \E f \in Fds, m \in SUBSET Interest, u \in Slots \cup {NoSlot} :
             /\ RegBecomes(f, [mask |-> m, ud |-> u])
             /\ m = {} <=> u = NoSlot
             /\ Reg(f) # None /\ m # {} => u = Reg(f).ud
  <2>1. PICK f \in Fds, m \in SUBSET Interest, u \in Slots \cup {NoSlot} :
             /\ RegBecomes(f, [mask |-> m, ud |-> u])
             /\ m = {} <=> u = NoSlot
             /\ Reg(f) # None /\ m # {} => u = Reg(f).ud
    BY <1>2
  <2>2. reg' = [reg EXCEPT ![f] = [mask |-> m, ud |-> u]]
    BY <2>1 DEF RegBecomes
  <2>3. reg[f] = Reg(f)
    OBVIOUS
  <2> QED
    BY <2>1, <2>2, <2>3 DEF M!Change, M!Interest, M!Slots, M!NoSlot, M!None,
       Interest, Slots, NoSlot, None
<1> QED
  BY <1>1, <1>2 DEF RegChange

LEMMA PollIsPoll ==
  ASSUME IInv, Poll, UNCHANGED <<backend, fault>>, ~misused PROVE M!Poll
<1>1. RegSame /\ IInv' /\ misused' = misused /\ batch = {} /\ batch' \subseteq Reports
  BY PollInv DEF Poll
<1>2. Cardinality(batch') <= Max
  <2>1. CASE backend = "select"
    <3>1. batch' \subseteq Event /\ \A e1, e2 \in batch' : e1.ud = e2.ud => e1 = e2
      BY <1>1, <2>1 DEF IInv, BatchInv
    <3> QED
      BY <3>1, BatchSize
  <2>2. CASE backend # "select"
    BY <2>2, BackendCases DEF Poll, NpBatch, EpBatch, KqBatch, IInv, CoreInv
  <2> QED
    BY <2>1, <2>2
<1>3. ASSUME NEW e \in batch'
      PROVE  /\ e.fd \in Fds /\ Reg(e.fd) # None
             /\ e.ud = Reg(e.fd).ud
             /\ e.read => "R" \in Reg(e.fd).mask
  <2>1. /\ e \in Event /\ mask[e.ud] # {}
        /\ Reg(e.fd) = [mask |-> mask[e.ud], ud |-> e.ud]
        /\ e.read => "R" \in mask[e.ud]
    BY <1>1, <1>3, ReportsOwned DEF IInv
  <2> QED
    BY <2>1 DEF Event, None
<1>4. [f \in Fds |-> Reg(f)]' = [f \in Fds |-> Reg(f)]
  BY <1>1 DEF RegSame
<1>5. M!None = None
  BY DEF M!None, M!NoSlot, None, NoSlot
<1>6. ASSUME NEW e \in batch'
      PROVE  /\ [f \in Fds |-> Reg(f)][e.fd] # M!None
             /\ e.ud = [f \in Fds |-> Reg(f)][e.fd].ud
             /\ e.read => "R" \in [f \in Fds |-> Reg(f)][e.fd].mask
  BY <1>3, <1>5
<1> QED
  <2>1. batch = {}
    BY <1>1
  <2>2. UNCHANGED [f \in Fds |-> Reg(f)]
    BY <1>4
  <2>3. \A e \in batch' :
          /\ [f \in Fds |-> Reg(f)][e.fd] # M!None
          /\ e.ud = [f \in Fds |-> Reg(f)][e.fd].ud
          /\ e.read => "R" \in [f \in Fds |-> Reg(f)][e.fd].mask
    BY <1>6, Zenon
  <2>4. M!Cardinality(batch') = Cardinality(batch')
    BY DEF M!Cardinality, Cardinality
  <2> QED
    BY <2>1, <1>2, <2>2, <2>3, <2>4 DEF M!Poll

\* Each implementation, with what net does with it, is the multiplexer until
\* net misuses it.
THEOREM PortsImplementMultiplexer == Spec => ImplementsMultiplexer
<1>1. Init => M!Init
  <2> SUFFICES ASSUME Init PROVE M!Init
    OBVIOUS
  <2>1. Live = {} /\ ~misused /\ batch = {}
    BY DEF Init, Live
  <2>2. \A f \in Fds : Reg(f) = None
    BY <2>1, InitInv DEF IInv, CoreInv, AsAsked
  <2> QED
    BY <2>1, <2>2 DEF M!Init, M!None, M!NoSlot, None, NoSlot
<1>2. ASSUME IInv, [Next]_vars
      PROVE  [M!Next]_<<[f \in Fds |-> Reg(f)], batch, misused>>
  <2>1. CASE UNCHANGED vars
    <3>1. np_vars' = np_vars /\ backend' = backend
      BY <2>1 DEF vars
    <3>2. RegSame
      BY <1>2, <3>1, NothingReg DEF IInv, CoreInv
    <3> QED
      BY <2>1, <3>2 DEF RegSame, vars
  <2>2. CASE Next /\ misused'
    BY <2>2 DEF M!Next
  <2>3. CASE Next /\ ~misused'
    <3>1. CASE Call
      BY <1>2, <2>3, <3>1, CallInv, ChangeIsChange DEF Next, Call, M!Next, M!Call
    <3>2. CASE Poll
      BY <1>2, <2>3, <3>2, PollIsPoll DEF Next, Poll, M!Next
    <3>3. CASE \E e \in batch : Handle(e)
      <4>1. PICK e \in batch : Handle(e)
        BY <3>3
      <4>2. ~misused /\ M!Change /\ batch' = batch \ {e}
        BY <1>2, <2>3, <4>1, HandleInv, ChangeIsChange DEF Next, Handle
      <4> QED
        BY <2>3, <4>2 DEF M!Next, M!Handle
    <3>4. CASE Fork \/ \E s \in Slots : ChildCloses(s)
      <4>1. UNCHANGED <<batch, misused>>
        BY <3>4 DEF Fork, ChildCloses
      <4>2. M!Change
        BY <1>2, <2>3, <3>4, ForkInv, ChangeIsChange DEF Next, RegChange
      <4> QED
        BY <2>3, <4>1, <4>2 DEF M!Next, M!Call
    <3>5. CASE \E s \in Slots, m \in SUBSET Interest : ChildSubscribes(s, m)
      BY <2>3, <3>5 DEF ChildSubscribes
    <3> QED
      BY <2>3, <3>1, <3>2, <3>3, <3>4, <3>5 DEF Next, Step
  <2> QED
    BY <1>2, <2>1, <2>2, <2>3
<1> QED
  BY <1>1, <1>2, Invariance, PTL DEF Spec, ImplementsMultiplexer, M!Spec
=============================================================================
