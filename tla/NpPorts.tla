------------------------------ MODULE NpPorts ------------------------------
(***************************************************************************)
(* The three implementations of np.h under the client that net is: slots   *)
(* that take a descriptor, _subscribe and _close_socket, which closes a    *)
(* descriptor without np_del (socket.c:156-162), and the loop that handles *)
(* the events of one np_poll.  With epoll another process may come of a    *)
(* fork, which has the sockets and the epoll set of its parent: it closes  *)
(* its copies, or goes on using them.                                      *)
(***************************************************************************)
EXTENDS NpEpoll, NpKqueue, NpSelect

CONSTANTS Backends,  \* of "epoll", "kqueue", "select"
          Faults     \* the values of "fault"

ASSUME NpPortsAssumption ==
  /\ Backends \subseteq {"epoll", "kqueue", "select"}
  /\ Faults \subseteq BOOLEAN

VARIABLES
  backend,
  fault,       \* epoll_ctl and kevent may fail for want of memory
  fd, mask,    \* fields of struct socket
  batch,       \* the events that socket_poll has not handled
  misused,     \* history: something was done that the implementation does
               \* not bear, see Misuse and ChildSubscribes
  child        \* the other process's copy of each socket, and whether its
               \* file is "shared" with this process or open "only" there

np_vars == <<ep_vars, kq, sel_vars>>
client_vars == <<fd, mask>>
vars == <<backend, fault, np_vars, client_vars, batch, misused, child>>

Live == {s \in Slots : fd[s] # NoFd}
Open == StdFds \cup {fd[s] : s \in Live}

Copy == [file : {"none", "shared", "only"}, fd : Fds \cup {NoFd}, mask : SUBSET Interest]
NoCopy == [file |-> "none", fd |-> NoFd, mask |-> {}]

TypeOK ==
  /\ backend \in Backends /\ fault \in Faults
  /\ EpTypeOK /\ KqTypeOK /\ SelTypeOK
  /\ fd \in [Slots -> Fds \cup {NoFd}]
  /\ mask \in [Slots -> SUBSET Interest]
  /\ batch \subseteq Event
  /\ misused \in BOOLEAN
  /\ child \in [Slots -> Copy]

Init ==
  /\ backend \in Backends /\ fault \in Faults
  /\ EpInit /\ KqInit /\ SelInit
  /\ fd = [s \in Slots |-> NoFd]
  /\ mask = [s \in Slots |-> {}]
  /\ batch = {}
  /\ misused = FALSE
  /\ child = [s \in Slots |-> NoCopy]

-----------------------------------------------------------------------------
(* The functions of np.h, by what they return.                             *)

NpAdd(f, m, u) ==
  \/ backend = "epoll" /\ EpAdd(f, m, u) /\ UNCHANGED <<kq, sel_vars>>
  \/ backend = "kqueue" /\ KqAdd(f, m, u) /\ UNCHANGED <<ep_vars, sel_vars>>
  \/ backend = "select" /\ SelAdd(f, m, u) /\ UNCHANGED <<ep_vars, kq>>

NpAddFails(f) ==
  \/ backend = "epoll" /\ (ep[f] # None \/ fault) /\ UNCHANGED np_vars
  \/ backend = "kqueue" /\ fault /\ KqAddFails(f) /\ UNCHANGED <<ep_vars, sel_vars>>
  \/ backend = "select" /\ SelFails(f) /\ UNCHANGED <<ep_vars, kq>>

NpMod(f, m, u) ==
  \/ backend = "epoll" /\ EpMod(f, m, u) /\ UNCHANGED <<kq, sel_vars>>
  \/ backend = "kqueue" /\ KqMod(f, m, u) /\ UNCHANGED <<ep_vars, sel_vars>>
  \/ backend = "select" /\ SelMod(f, m, u) /\ UNCHANGED <<ep_vars, kq>>

NpModFails(f, m) ==
  \/ backend = "epoll" /\ (ep[f] = None \/ fault) /\ UNCHANGED np_vars
  \/ backend = "kqueue" /\ KqModFails(f, m, fault) /\ UNCHANGED <<ep_vars, sel_vars>>
  \/ backend = "select" /\ SelFails(f) /\ UNCHANGED <<ep_vars, kq>>

NpDel(f) ==
  \/ backend = "epoll" /\ EpDel(f) /\ UNCHANGED <<kq, sel_vars>>
  \/ backend = "kqueue" /\ KqDel(f) /\ UNCHANGED <<ep_vars, sel_vars>>
  \/ backend = "select" /\ SelDel(f) /\ UNCHANGED <<ep_vars, kq>>

NpDelFails(f) ==
  \/ backend = "epoll" /\ (ep[f] = None \/ fault) /\ UNCHANGED np_vars
  \/ backend = "select" /\ SelFails(f) /\ UNCHANGED <<ep_vars, kq>>

\* The other process has the file of this socket.
Shared(s) == child[s].file = "shared" /\ child[s].fd = fd[s]

\* close(2).
Closed(s) ==
  \/ backend = "epoll" /\ EpClosed(fd[s], Shared(s)) /\ UNCHANGED <<kq, sel_vars>>
  \/ backend = "kqueue" /\ KqClosed(fd[s]) /\ UNCHANGED <<ep_vars, sel_vars>>
  \/ backend = "select" /\ UNCHANGED np_vars

NpBatch(es) ==
  \/ backend = "epoll" /\ EpBatch(es)
  \/ backend = "kqueue" /\ KqBatch(es)
  \/ backend = "select" /\ SelBatch(es, Open)

Reports ==
  CASE backend = "epoll" -> EpReports
    [] backend = "kqueue" -> KqReports
    [] backend = "select" -> SelReports(Open)

-----------------------------------------------------------------------------
(* net.                                                                    *)

\* What _subscribe calls to go from mask[s] to m, done or refused.
Granting(s, m) ==
  IF m = {} THEN NpDel(fd[s])
  ELSE IF mask[s] = {} THEN NpAdd(fd[s], m, s) ELSE NpMod(fd[s], m, s)

Refusing(s, m) ==
  IF m = {} THEN NpDelFails(fd[s])
  ELSE IF mask[s] = {} THEN NpAddFails(fd[s]) ELSE NpModFails(fd[s], m)

\* _subscribe.
Subscribe(s, m) ==
  /\ \/ m = mask[s] /\ UNCHANGED <<np_vars, mask>>
     \/ m # mask[s] /\ Granting(s, m) /\ mask' = [mask EXCEPT ![s] = m]
     \/ m # mask[s] /\ Refusing(s, m) /\ UNCHANGED mask
  /\ UNCHANGED <<fd, misused, child>>

\* Mutant of Create: the mask of the slot's last socket stays.
CreateMasked(s, f) ==
  /\ s \notin Live
  /\ \A t \in Live : fd[t] # f
  /\ fd' = [fd EXCEPT ![s] = f]
  /\ UNCHANGED <<np_vars, mask, misused, child>>

\* _create_socket, with a descriptor that socket(), accept() or the
\* application has just opened, or a standard one.
Create(s, f) ==
  /\ s \notin Live
  /\ \A t \in Live : fd[t] # f
  /\ fd' = [fd EXCEPT ![s] = f]
  /\ mask' = [mask EXCEPT ![s] = {}]
  /\ UNCHANGED <<np_vars, misused, child>>

\* A socket goes while it is registered, and its registration stays: select
\* is told of nothing, epoll keeps what another process has open, and no
\* implementation notices that a standard descriptor is given up.
Misuse(s) ==
  /\ mask[s] # {}
  /\ \/ backend = "select"
     \/ backend = "epoll" /\ Shared(s)
     \/ fd[s] \in StdFds

\* Mutant of CloseSocket: the descriptor stays open.
CloseSlotOnly(s) ==
  /\ fd' = [fd EXCEPT ![s] = NoFd]
  /\ misused' = (misused \/ Misuse(s))
  /\ UNCHANGED <<np_vars, mask, child>>

\* _close_socket.
CloseSocket(s) ==
  /\ fd' = [fd EXCEPT ![s] = NoFd]
  /\ IF fd[s] \in StdFds THEN UNCHANGED <<np_vars, child>>
     ELSE /\ Closed(s)
          /\ child' = IF Shared(s) THEN [child EXCEPT ![s].file = "only"] ELSE child
  /\ misused' = (misused \/ Misuse(s))
  /\ UNCHANGED mask

\* What net asks for: reading on and off, writing while data is queued, both
\* for a connection in progress.
Asks(m) ==
  {m \cup {"R"}, m \ {"R"}, m \cup {"W"}} \cup (IF m = {} THEN {Interest} ELSE {})

\* A call between two socket_poll.
Call ==
  /\ batch = {}
  /\ UNCHANGED batch
  /\ \/ \E s \in Slots, f \in Fds : Create(s, f)
     \/ \E s \in Live : \E m \in Asks(mask[s]) : Subscribe(s, m)
     \/ \E s \in Live : CloseSocket(s)

Poll ==
  /\ batch = {}
  /\ batch' \in SUBSET Reports
  /\ batch' # {}
  /\ NpBatch(batch')
  /\ UNCHANGED <<np_vars, client_vars, misused, child>>

\* One iteration: the socket is closed, sends the last of its data or turns
\* out to be connected; it listens, and another one is accepted.
Handle(e) ==
  /\ batch' = batch \ {e}
  /\ \/ /\ e.ud \in Live
        /\ \/ CloseSocket(e.ud)
           \/ \E m \in {mask[e.ud] \ {"W"}, {}} : Subscribe(e.ud, m)
           \/ \E s \in Slots, f \in Fds \ StdFds : Create(s, f)
     \/ UNCHANGED <<np_vars, client_vars, misused, child>>

-----------------------------------------------------------------------------
(* The other process.                                                      *)

Fork ==
  /\ backend = "epoll"
  /\ batch = {}
  /\ \A s \in Slots : child[s].file = "none"
  /\ Live # {}
  /\ child' = [s \in Slots |-> IF s \in Live
                               THEN [file |-> "shared", fd |-> fd[s], mask |-> mask[s]]
                               ELSE NoCopy]
  /\ UNCHANGED <<np_vars, client_vars, batch, misused>>

\* Mutant of ChildCloses: with the line that is commented out (socket.c:162).
ChildUnsubscribes(s) ==
  /\ child[s].file # "none"
  /\ IF child[s].file = "shared" THEN ep' = [ep EXCEPT ![child[s].fd] = None] /\ UNCHANGED orphans
     ELSE EpGone(s)
  /\ child' = [child EXCEPT ![s] = NoCopy]
  /\ UNCHANGED <<kq, sel_vars, client_vars, batch, misused>>

\* _close_socket there.
ChildCloses(s) ==
  /\ child[s].file # "none"
  /\ IF child[s].file = "shared" THEN UNCHANGED ep_vars ELSE EpGone(s)
  /\ child' = [child EXCEPT ![s] = NoCopy]
  /\ UNCHANGED <<kq, sel_vars, client_vars, batch, misused>>

\* _subscribe there, by the mask that is kept there, when epoll_ctl accepts
\* it: what it asks for becomes the registration that this process has.
ChildSubscribes(s, m) ==
  LET c == child[s] IN
  /\ c.file # "none"
  /\ m # c.mask
  /\ IF c.file = "shared"
     THEN IF m = {} THEN EpDel(c.fd)
          ELSE IF c.mask = {} THEN EpAdd(c.fd, m, s) ELSE EpMod(c.fd, m, s)
     ELSE /\ (\E o \in orphans : o.ud = s) <=> (m = {} \/ c.mask # {})
          /\ EpOther(c.fd, m, s)
  /\ child' = [child EXCEPT ![s].mask = m]
  /\ misused' = TRUE
  /\ UNCHANGED <<kq, sel_vars, client_vars, batch>>

Step ==
  \/ Call
  \/ Poll
  \/ \E e \in batch : Handle(e)
  \/ Fork
  \/ \E s \in Slots : ChildCloses(s)
  \/ \E s \in Slots, m \in SUBSET Interest : ChildSubscribes(s, m)

Next == Step /\ UNCHANGED <<backend, fault>>

Spec == Init /\ [][Next]_vars

\* TLC's bounds: after a misuse only the properties of select say anything,
\* and only select knows FD_SETSIZE.
Bounded ==
  backend # "select" => ~misused /\ \A s \in Live : fd[s] < FD_SETSIZE

-----------------------------------------------------------------------------
\* What is registered for a descriptor.
Reg(f) ==
  CASE backend = "epoll" -> ep[f]
    [] backend = "kqueue" -> IF KqMask(f) = {} THEN None
                             ELSE [mask |-> KqMask(f), ud |-> kq[f].ud]
    [] backend = "select" -> IF SelMask(f) = {} THEN None
                             ELSE [mask |-> SelMask(f), ud |-> ud[f]]

(***************************************************************************)
(* Each implementation is the multiplexer that net relies on, as long as   *)
(* net gives up no socket in a way that it does not bear.                  *)
(***************************************************************************)
M == INSTANCE Multiplexer WITH reg <- [f \in Fds |-> Reg(f)]
ImplementsMultiplexer == M!Spec

(***************************************************************************)
(* np_select.h's array covers the two sets: every descriptor in them is    *)
(* below its size, at most maxfd and has user data, and maxfd is the       *)
(* largest one with user data; in particular assert(fd < np->cap) holds    *)
(* (line 120), whatever net does.                                          *)
(***************************************************************************)
SelectTable ==
  /\ Used = rfds \cup wfds
  /\ maxfd = Largest(Used)

(***************************************************************************)
(* A live socket's mask is what is registered for it, with its slot, and   *)
(* nothing is registered for other descriptors, nor for a file that only   *)
(* the other process has: not even when that process closes its copies of  *)
(* the sockets, which is why _close_socket leaves epoll alone.  Of select  *)
(* it survives every misuse that what a socket asks for is registered.     *)
(***************************************************************************)
Registered(s) == Reg(fd[s]) = [mask |-> mask[s], ud |-> s]

RegisteredAsAsked ==
  /\ ~misused =>
       /\ orphans = {}
       /\ \A s \in Live : mask[s] # {} => Registered(s)
       /\ \A f \in Fds : Reg(f) # None => \E s \in Live : fd[s] = f /\ mask[s] # {}
  /\ backend = "select" =>
       \A s \in Live : mask[s] # {} => mask[s] \subseteq SelMask(fd[s]) /\ ud[fd[s]] = s

(***************************************************************************)
(* An event that has not been handled names the slot that holds its        *)
(* descriptor.  Of kqueue, which has two events for one descriptor, it may *)
(* be out of date, but only when the other one of the two has been handled *)
(* and that one has given up the socket.                                   *)
(***************************************************************************)
EventsReachOwner ==
  ~misused => \A e \in batch :
    \/ fd[e.ud] = e.fd
    \/ backend = "kqueue" /\ \A e2 \in batch \ {e} : e2.fd # e.fd

(***************************************************************************)
(* A subscription fails only when the system does, or for a descriptor     *)
(* that no fd_set holds; but kqueue never lets a socket that waits for one *)
(* thing wait for the other one too.                                       *)
(***************************************************************************)
Granted ==
  batch = {} /\ ~fault /\ ~misused =>
    \A s \in Live : \A m \in Asks(mask[s]) \ {mask[s]} :
      \/ ENABLED (Granting(s, m) /\ UNCHANGED mask)
      \/ backend = "kqueue" /\ m = Interest
      \/ backend = "select" /\ fd[s] >= FD_SETSIZE

(***************************************************************************)
(* np_select.h:8-9: the array is there so that net need not be altered.    *)
(* What net has closed is in neither set when select(2) is called.         *)
(***************************************************************************)
SelectKnowsClosed == rfds \cup wfds \subseteq Open
=============================================================================
