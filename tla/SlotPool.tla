------------------------------ MODULE SlotPool ------------------------------
(***************************************************************************)
(* The table of sockets of struct net (src/src/socket.c).  A free slot is  *)
(* linked to the next free one through its own field "fd", which in a live *)
(* slot holds the operating system's descriptor: the same integer means    *)
(* two things, and only the slot's status says which.  free_socket is the  *)
(* head of the list, tail_socket the end where _close_socket appends; the  *)
(* latter is left dangling whenever the list runs empty.                   *)
(***************************************************************************)
EXTENDS Integers, Sequences

CONSTANTS Max,      \* the number of slots, net_create's argument
          Fds       \* descriptors the operating system may hand out

ASSUME MaxAssumption == Max \in Nat \ {0}
ASSUME FdsAssumption == Fds \subseteq Nat

VARIABLES fd,           \* the overloaded field fd of every slot
          status,       \* "INVALID", or "SUSPEND" for every other status
          free_socket,  \* the first free slot, or NULL
          tail_socket,  \* the last free slot; stale when there is none
          queue         \* history: the free slots in the order they were freed

vars == <<fd, status, free_socket, tail_socket, queue>>

NULL == -1
Slots == 0 .. Max - 1
FreeSlots == {s \in Slots : status[s] = "INVALID"}

TypeOK ==
  /\ fd \in [Slots -> Fds \cup Slots \cup {-1}]
  /\ status \in [Slots -> {"INVALID", "SUSPEND"}]
  /\ free_socket \in Slots \cup {NULL}
  /\ tail_socket \in Slots
  /\ queue \in Seq(Slots)

-----------------------------------------------------------------------------
\* _alloc_sockets links slot i to slot i+1; net_create sets both ends.
Init ==
  /\ fd = [s \in Slots |-> IF s = Max - 1 THEN -1 ELSE s + 1]
  /\ status = [s \in Slots |-> "INVALID"]
  /\ free_socket = 0
  /\ tail_socket = Max - 1
  /\ queue = [i \in 1 .. Max |-> i - 1]

\* The slot that a free slot's field fd leads to.
Link(s) == IF fd[s] >= 0 THEN fd[s] ELSE NULL

\* _create_socket: the head of the list becomes a live slot holding f.
CreateSocket(f) ==
  /\ free_socket # NULL
  /\ free_socket' = Link(free_socket)
  /\ fd' = [fd EXCEPT ![free_socket] = f]
  /\ status' = [status EXCEPT ![free_socket] = "SUSPEND"]
  /\ UNCHANGED tail_socket
  /\ queue' = Tail(queue)

\* Mutant of CloseSocket: a slot that is closed into an empty list is not
\* remembered as its end.
CloseSocketForgetsTail(s) ==
  /\ status[s] # "INVALID"
  /\ status' = [status EXCEPT ![s] = "INVALID"]
  /\ \/ /\ free_socket = NULL
        /\ free_socket' = s
        /\ fd' = [fd EXCEPT ![s] = -1]
        /\ UNCHANGED tail_socket
     \/ /\ free_socket # NULL
        /\ UNCHANGED free_socket
        /\ fd' = [fd EXCEPT ![s] = -1, ![tail_socket] = s]
        /\ tail_socket' = s
  /\ queue' = Append(queue, s)

\* Mutant of CloseSocket: the slot goes to the head of the list.
CloseSocketFirst(s) ==
  /\ status[s] # "INVALID"
  /\ status' = [status EXCEPT ![s] = "INVALID"]
  /\ free_socket' = s
  /\ fd' = [fd EXCEPT ![s] = free_socket]
  /\ tail_socket' = IF free_socket = NULL THEN s ELSE tail_socket
  /\ queue' = <<s>> \o queue

\* _close_socket: the slot goes to the tail.  Every caller has seen a valid
\* status first (_socket, or the switch in socket_poll).
CloseSocket(s) ==
  /\ status[s] # "INVALID"
  /\ fd[s] >= 0
  /\ status' = [status EXCEPT ![s] = "INVALID"]
  /\ \/ /\ free_socket = NULL
        /\ free_socket' = s
        /\ fd' = [fd EXCEPT ![s] = -1]
     \/ /\ free_socket # NULL
        /\ UNCHANGED free_socket
        /\ fd' = [fd EXCEPT ![s] = -1, ![tail_socket] = s]
  /\ tail_socket' = s
  /\ queue' = Append(queue, s)

Next ==
  \/ \E f \in Fds : CreateSocket(f)
  \/ \E s \in Slots : CloseSocket(s)

Spec == Init /\ [][Next]_vars

-----------------------------------------------------------------------------
(***************************************************************************)
(* The assertions of _close_socket (socket.c:182-183).  When the list is   *)
(* not empty, tail_socket is its last slot: it is free and its link is -1, *)
(* so that appending behind it loses nothing.                              *)
(***************************************************************************)
TailIsLast ==
  free_socket # NULL => /\ status[tail_socket] = "INVALID"
                        /\ fd[tail_socket] = -1

(***************************************************************************)
(* The inductive invariant: the links spell out the history "queue".       *)
(***************************************************************************)
QueueIsFreeSlots ==
  /\ \A i \in 1 .. Len(queue) : status[queue[i]] = "INVALID"
  /\ \A s \in Slots : status[s] = "INVALID" =>
       \E i \in 1 .. Len(queue) : queue[i] = s
  /\ \A i, j \in 1 .. Len(queue) : queue[i] = queue[j] => i = j

LinksSpellQueue ==
  /\ free_socket = IF queue = <<>> THEN NULL ELSE queue[1]
  /\ queue # <<>> => tail_socket = queue[Len(queue)]
  /\ \A i \in 1 .. Len(queue) :
       fd[queue[i]] = IF i = Len(queue) THEN -1 ELSE queue[i+1]

LiveHoldFds == \A s \in Slots : status[s] # "INVALID" => fd[s] \in Fds

ListInv == TypeOK /\ QueueIsFreeSlots /\ LinksSpellQueue /\ LiveHoldFds

(***************************************************************************)
(* The linked list implements the first-in first-out queue: the slot that  *)
(* _create_socket takes is always the one that was closed longest ago, and *)
(* closing a slot never changes the order of the others.                   *)
(***************************************************************************)
Q == INSTANCE SlotQueue WITH queue <- queue, live <- Slots \ FreeSlots

ImplementsQueue == Q!Spec
=============================================================================
