------------------------------ MODULE NpEpoll ------------------------------
(***************************************************************************)
(* src/src/np_epoll.h and the epoll set behind it.  The kernel keeps a     *)
(* registration by descriptor and open file: it lives on as an orphan when *)
(* the process closes the descriptor and another process has the file.     *)
(***************************************************************************)
EXTENDS Np

VARIABLES ep,       \* the registration of each descriptor of the process
          orphans   \* registrations of files that only another process has

ep_vars == <<ep, orphans>>

EpTypeOK ==
  /\ ep \in [Fds -> Registration]
  /\ \A f \in Fds : ep[f] # None => ep[f].ud \in Slots
  /\ orphans \subseteq [fd : Fds, mask : SUBSET Interest, ud : Slots]

EpInit == ep = [f \in Fds |-> None] /\ orphans = {}

\* EPOLL_CTL_ADD of what is there, EPOLL_CTL_MOD and EPOLL_CTL_DEL of what is
\* not, fail.
EpAdd(f, m, u) ==
  /\ ep[f] = None
  /\ ep' = [ep EXCEPT ![f] = [mask |-> m, ud |-> u]]
  /\ UNCHANGED orphans

EpMod(f, m, u) ==
  /\ ep[f] # None
  /\ ep' = [ep EXCEPT ![f] = [mask |-> m, ud |-> u]]
  /\ UNCHANGED orphans

EpDel(f) ==
  /\ ep[f] # None
  /\ ep' = [ep EXCEPT ![f] = None]
  /\ UNCHANGED orphans

\* close(2) of f, whose file another process has or not.
EpClosed(f, shared) ==
  /\ ep' = [ep EXCEPT ![f] = None]
  /\ orphans' = orphans \cup
       IF shared /\ ep[f] # None
       THEN {[fd |-> f, mask |-> ep[f].mask, ud |-> ep[f].ud]} ELSE {}

\* The other process closes the file that was in slot s.
EpGone(s) ==
  /\ orphans' = {o \in orphans : o.ud # s}
  /\ UNCHANGED ep

\* epoll_ctl there on that file, whose descriptor there is f.
EpOther(f, m, s) ==
  /\ orphans' = {o \in orphans : o.ud # s} \cup
       IF m = {} THEN {} ELSE {[fd |-> f, mask |-> m, ud |-> s]}
  /\ UNCHANGED ep

\* np_poll: errors and hang-ups come unasked, as "write".
EpReports ==
  {e \in Event :
     /\ e.read \/ e.write
     /\ \/ ep[e.fd].ud = e.ud /\ (e.read => "R" \in ep[e.fd].mask)
        \/ \E o \in orphans : o.fd = e.fd /\ o.ud = e.ud /\ (e.read => "R" \in o.mask)}

\* One event for a registration, and no more than were asked for.
EpBatch(es) ==
  /\ es \subseteq EpReports
  /\ Cardinality(es) <= Max
  /\ \A e1, e2 \in es : e1.fd = e2.fd /\ e1.ud = e2.ud => e1 = e2
=============================================================================
