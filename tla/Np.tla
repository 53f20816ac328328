--------------------------------- MODULE Np ---------------------------------
(***************************************************************************)
(* src/src/np.h: what the three implementations of the multiplexer share.  *)
(* The user data that net registers is the slot of the socket.             *)
(***************************************************************************)
EXTENDS Integers, FiniteSets

CONSTANTS
  Max,          \* the number of slots, np_init's argument
  Fds,          \* descriptors of the process
  StdFds,       \* those at most STDERR_FILENO, which net never closes
  FD_SETSIZE    \* the size of an fd_set

ASSUME NpAssumption ==
  /\ Max \in Nat \ {0}
  /\ Fds \subseteq Nat
  /\ StdFds \subseteq Fds
  /\ FD_SETSIZE \in Nat

Slots == 0 .. Max - 1
NoSlot == -1                                                         \* NULL
NoFd == -1

Interest == {"R", "W"}                               \* NP_RABLE, NP_WABLE
Registration == [mask : SUBSET Interest, ud : Slots \cup {NoSlot}]
None == [mask |-> {}, ud |-> NoSlot]

\* struct np_event, and the descriptor that it is about.
Event == [fd : Fds, ud : Slots, read : BOOLEAN, write : BOOLEAN]
=============================================================================
