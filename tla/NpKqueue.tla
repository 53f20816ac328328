------------------------------ MODULE NpKqueue ------------------------------
(***************************************************************************)
(* src/src/np_kqueue.h: one kernel event for each direction of a           *)
(* descriptor, which exists or not and is enabled or disabled.             *)
(***************************************************************************)
EXTENDS Np

VARIABLE kq         \* of each descriptor, the two filters and their user data

Filter == {"none", "off", "on"}

KqTypeOK == kq \in [Fds -> [R : Filter, W : Filter, ud : Slots \cup {NoSlot}]]

NoFilters == [R |-> "none", W |-> "none", ud |-> NoSlot]

KqInit == kq = [f \in Fds |-> NoFilters]

On(b) == IF b THEN "on" ELSE "off"

\* Mutant of KqAdd: the filters stay enabled as EV_ADD has left them.
KqAddEnabled(f, m, u) == kq' = [kq EXCEPT ![f] = [R |-> "on", W |-> "on", ud |-> u]]

\* np_add: both filters are added, and those not in m disabled; EV_ADD of a
\* filter that exists replaces it.
KqAdd(f, m, u) ==
  kq' = [kq EXCEPT ![f] = [R |-> On("R" \in m), W |-> On("W" \in m), ud |-> u]]

\* Mutant of KqAddFails: the filter that has been added stays.
KqAddHalf(f) ==
  \/ UNCHANGED kq
  \/ kq' = [kq EXCEPT ![f].R = "on"]

\* It takes back what it has done when one of its calls of kevent fails.
KqAddFails(f) ==
  \/ UNCHANGED kq
  \/ kq' = [kq EXCEPT ![f].R = "none"]
  \/ kq' = [kq EXCEPT ![f] = NoFilters]

\* np_mod disables one filter and enables none.
KqMod(f, m, u) ==
  \/ /\ "W" \notin m /\ kq[f].W # "none"
     /\ kq' = [kq EXCEPT ![f].W = "off"]
  \/ /\ m = {"W"} /\ kq[f].R # "none"
     /\ kq' = [kq EXCEPT ![f].R = "off"]

\* It refuses to ask for both, and the kernel to disable what is not there.
KqModFails(f, m, fault) ==
  /\ \/ m = Interest \/ fault
     \/ kq[f][IF m = {"W"} THEN "R" ELSE "W"] = "none"
  /\ UNCHANGED kq

KqDel(f) == kq' = [kq EXCEPT ![f] = NoFilters]

\* close(2) deletes the filters.
KqClosed(f) == KqDel(f)

KqMask(f) == {i \in Interest : kq[f][i] = "on"}

\* np_poll: an event for each filter that has fired.
KqReports ==
  {e \in Event :
     /\ e.read # e.write
     /\ kq[e.fd].ud = e.ud
     /\ e.read => "R" \in KqMask(e.fd)
     /\ e.write => "W" \in KqMask(e.fd)}

KqBatch(es) == es \subseteq KqReports /\ Cardinality(es) <= Max
=============================================================================
