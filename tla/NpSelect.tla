------------------------------ MODULE NpSelect ------------------------------
(***************************************************************************)
(* src/src/np_select.h: two sets of descriptors, and an array that maps a  *)
(* descriptor to its user data and grows with the largest one.             *)
(***************************************************************************)
EXTENDS Np

VARIABLES rfds, wfds,
          ud,       \* the array; its domain is what has been allocated
          cap, maxfd

sel_vars == <<rfds, wfds, ud, cap, maxfd>>

Powers ==
  LET most == FD_SETSIZE + Max IN
  {c \in 1 .. 2 * most : \E k \in 0 .. most : c = 2^k}

\* The first of 1, 2, 4, ... for which np_init's and _grow's loops end.
Fits(c, n) == c >= n /\ (c = 1 \/ c \div 2 < n)

SelTypeOK ==
  /\ rfds \subseteq Fds /\ wfds \subseteq Fds
  /\ cap \in Nat \ {0}
  /\ ud \in [0 .. cap - 1 -> Slots \cup {NoSlot}]
  /\ maxfd \in Fds \cup {NoFd}

SelInit ==
  /\ rfds = {} /\ wfds = {}
  /\ cap \in Powers /\ Fits(cap, Max)
  /\ ud = [f \in 0 .. cap - 1 |-> NoSlot]
  /\ maxfd = NoFd

\* The descriptors that have user data.
Used == {f \in 0 .. cap - 1 : ud[f] # NoSlot}

Valid(f) == f < FD_SETSIZE

\* np_add's array: room for f, whose entry becomes u.
Grow(f, u) ==
  /\ cap' \in Powers \cup {cap}
  /\ IF f < cap THEN cap' = cap ELSE cap' > cap /\ Fits(cap', f + 1)
  /\ ud' = [g \in 0 .. cap' - 1 |->
              IF g = f THEN u ELSE IF g < cap THEN ud[g] ELSE NoSlot]

\* Mutant of SelAdd: maxfd is the last descriptor, not the largest.
SelAddLast(f, m, u) ==
  /\ Valid(f)
  /\ rfds' = rfds \cup (IF "R" \in m THEN {f} ELSE {})
  /\ wfds' = wfds \cup (IF "W" \in m THEN {f} ELSE {})
  /\ Grow(f, u)
  /\ maxfd' = f

\* np_add adds to what an earlier registration has left in the sets.
SelAdd(f, m, u) ==
  /\ Valid(f)
  /\ rfds' = rfds \cup (IF "R" \in m THEN {f} ELSE {})
  /\ wfds' = wfds \cup (IF "W" \in m THEN {f} ELSE {})
  /\ Grow(f, u)
  /\ maxfd' = IF maxfd < f THEN f ELSE maxfd

\* np_mod.
SelMod(f, m, u) ==
  /\ Valid(f)
  /\ rfds' = IF "R" \in m THEN rfds \cup {f} ELSE rfds \ {f}
  /\ wfds' = IF "W" \in m THEN wfds \cup {f} ELSE wfds \ {f}
  /\ UNCHANGED <<ud, cap, maxfd>>

Largest(S) == IF S = {} THEN NoFd ELSE CHOOSE f \in S : \A g \in S : g <= f

\* np_del, and the scan for the new maxfd.
SelDel(f) ==
  /\ Valid(f)
  /\ rfds' = rfds \ {f}
  /\ wfds' = wfds \ {f}
  /\ ud' = [ud EXCEPT ![f] = NoSlot]
  /\ maxfd' = IF f # maxfd THEN maxfd
              ELSE Largest({g \in 0 .. f - 1 : ud[g] # NoSlot})
  /\ UNCHANGED cap

SelFails(f) == ~Valid(f) /\ UNCHANGED sel_vars

SelMask(f) == {i \in Interest : f \in [R |-> rfds, W |-> wfds][i]}

\* np_poll: select(2) fails with EBADF if one of its descriptors is closed;
\* nothing limits the number of events.
SelReports(open) ==
  {e \in Event :
     /\ (rfds \cup wfds) \cap 0 .. maxfd \subseteq open
     /\ e.read \/ e.write
     /\ e.fd <= maxfd /\ e.fd < cap /\ ud[e.fd] = e.ud
     /\ e.read => e.fd \in rfds
     /\ e.write => e.fd \in wfds}

SelBatch(es, open) ==
  /\ es \subseteq SelReports(open)
  /\ \A e1, e2 \in es : e1.fd = e2.fd => e1 = e2
=============================================================================
