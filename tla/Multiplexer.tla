---------------------------- MODULE Multiplexer ----------------------------
(***************************************************************************)
(* What net relies on when it calls np_add, np_mod, np_del and np_poll: a  *)
(* table of registrations, at most one of which a call changes, and which  *)
(* close(2) clears; np_poll gives at most Max events, each of a registered *)
(* descriptor, with its user data, and readable only if that was asked.    *)
(* An implementation promises this until it is misused in its own way.     *)
(***************************************************************************)
EXTENDS Np

VARIABLES reg,       \* the registration of each descriptor
          batch,     \* np_poll's events that have not been handled
          misused

Init ==
  /\ reg = [f \in Fds |-> None]
  /\ batch = {}
  /\ misused = FALSE

\* np_add, np_mod, np_del or close(2), or one of them that fails.
Change ==
  \/ UNCHANGED reg
  \/ \E f \in Fds, m \in SUBSET Interest, u \in Slots \cup {NoSlot} :
       /\ reg' = [reg EXCEPT ![f] = [mask |-> m, ud |-> u]]
       /\ m = {} <=> u = NoSlot
       /\ reg[f] # None /\ m # {} => u = reg[f].ud

Poll ==
  /\ batch = {}
  /\ Cardinality(batch') <= Max
  /\ \A e \in batch' :
       /\ reg[e.fd] # None
       /\ e.ud = reg[e.fd].ud
       /\ e.read => "R" \in reg[e.fd].mask
  /\ UNCHANGED reg

\* An event is handled, and its handler may make a call.
Handle == Change /\ \E e \in batch : batch' = batch \ {e}

Call == Change /\ UNCHANGED batch

Next ==
  \/ misused'
  \/ ~misused /\ ~misused' /\ (Poll \/ Handle \/ Call)

Spec == Init /\ [][Next]_<<reg, batch, misused>>
=============================================================================
