----------------------------- MODULE SlotQueue -----------------------------
(***************************************************************************)
(* What struct net's table of sockets promises to the rest of socket.c:    *)
(* every slot is either live or waiting in one first-in first-out queue,   *)
(* so that the slot handed out is always the one that was freed longest    *)
(* ago.  SlotPool implements this with links threaded through the slots;   *)
(* Net uses it.                                                            *)
(***************************************************************************)
EXTENDS Integers, Sequences

CONSTANT Max        \* the number of slots, net_create's argument

VARIABLES queue,    \* the free slots, the one freed longest ago first
          live      \* the slots in use

Slots == 0 .. Max - 1

Init ==
  /\ queue = [i \in 1 .. Max |-> i - 1]
  /\ live = {}

\* The oldest free slot is handed out.
Allocate ==
  /\ queue # <<>>
  /\ live' = live \cup {Head(queue)}
  /\ queue' = Tail(queue)

\* A live slot comes back, behind every slot that is already free.
Release(s) ==
  /\ s \in live
  /\ live' = live \ {s}
  /\ queue' = Append(queue, s)

\* A slot is handed out and given back by one call that fails half way.
Cycle ==
  /\ queue # <<>>
  /\ queue' = Append(Tail(queue), Head(queue))
  /\ UNCHANGED live

\* The table is freed and created again.
Reset ==
  /\ queue' = [i \in 1 .. Max |-> i - 1]
  /\ live' = {}

Next ==
  \/ Allocate
  \/ \E s \in live : Release(s)
  \/ Cycle
  \/ Reset

Spec == Init /\ [][Next]_<<queue, live>>
=============================================================================
