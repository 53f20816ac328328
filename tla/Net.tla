-------------------------------- MODULE Net --------------------------------
(***************************************************************************)
(* struct net of src/src/socket.c over epoll: the table of sockets, the    *)
(* interest each one has registered with the kernel, and the loop of       *)
(* socket_poll, one iteration of which is one step.  The program is single *)
(* threaded: the calls of the API happen between two socket_poll, the      *)
(* kernel and the peers act at any time.                                   *)
(*                                                                         *)
(* The list of free slots is the queue that SlotQueue specifies and        *)
(* SlotPool implements; a slot's send list is the number of bytes in it    *)
(* (sbuffersz), whose chunks SendQueue details.                            *)
(***************************************************************************)
EXTENDS Integers, Sequences, FiniteSets

CONSTANTS
  Max,            \* the number of slots, net_create's argument
  Fds,            \* descriptors of the process
  StdFds,         \* those at most STDERR_FILENO; open from start to end
  NoFd,           \* the descriptor of a free slot
  INT_MAX,        \* also the bound on the bytes queued on one socket
  Limits,         \* the values the application gives to socket_limit
  BindProtocols,  \* the protocols the application gives to socket_bind
  Blocking,       \* the values of "block" it gives to socket_connect
  EarlySend,      \* whether it sends before it hears of the connection
  Faults          \* "nonblock", "epoll": fcntl, epoll_ctl may fail

ASSUME NetAssumption ==
  /\ Max \in Nat \ {0}
  /\ IsFiniteSet(Fds)
  /\ StdFds \subseteq Fds
  /\ NoFd \notin Fds
  /\ INT_MAX \in Nat \ {0}
  /\ Limits \subseteq 1 .. INT_MAX
  /\ BindProtocols \subseteq {"TCP", "UDP", "IPC"}
  /\ Blocking \subseteq BOOLEAN
  /\ EarlySend \in BOOLEAN
  /\ Faults \subseteq {"nonblock", "epoll"}

VARIABLES
  \* struct socket, one value per slot
  status, fd, protocol, mask, sbuffersz, slimit,
  free,           \* free_socket .. tail_socket: the free slots in order
  \* the kernel
  os,             \* what each descriptor is
  ep_ud, ep_mask, \* epoll's registration of each descriptor: slot, events
  \* socket_poll
  polling,        \* inside socket_poll
  ievents,        \* np_poll's events that the loop has not reached
  oevents         \* the events put out so far

table == <<status, fd, protocol, mask, sbuffersz, slimit, free>>
kernel == <<os, ep_ud, ep_mask>>
loop == <<polling, ievents, oevents>>
vars == <<table, kernel, loop>>

Slots == 0 .. Max - 1
NoSlot == -1
Interest == {"R", "W"}
Status == {"INVALID", "LISTENING", "CONNECTING", "CONNECTED", "HALFCLOSE", "BIND"}
Protocols == {"TCP", "UDP", "IPC"}
EventTypes == {"READ", "ACCEPT", "CONNECT", "CONNERR", "SOCKERR",
               "WRIDONECLOSE", "CONN_THEN_READ"}
Live == {s \in Slots : status[s] # "INVALID"}

Kinds == {"closed", "listen", "connecting", "conn", "failed"}

TableOK ==
  /\ status \in [Slots -> Status]
  /\ fd \in [Slots -> Fds \cup {NoFd}]
  /\ protocol \in [Slots -> Protocols]
  /\ mask \in [Slots -> SUBSET Interest]
  /\ sbuffersz \in [Slots -> 0 .. INT_MAX]
  /\ slimit \in [Slots -> 0 .. INT_MAX]
  /\ free \in Seq(Slots)

KernelOK ==
  /\ os \in [Fds -> Kinds]
  /\ ep_ud \in [Fds -> Slots \cup {NoSlot}]
  /\ ep_mask \in [Fds -> SUBSET Interest]

LoopOK ==
  /\ polling \in BOOLEAN
  /\ ievents \in SUBSET [fd : Fds, slot : Slots, read : BOOLEAN, write : BOOLEAN]
  /\ oevents \in Seq([type : EventTypes, id : Slots])

\* The fields of struct socket, the kernel's state and the arrays of events.
TypeOK == TableOK /\ KernelOK /\ LoopOK

-----------------------------------------------------------------------------
(* net_create; the descriptors StdFds are open from the start.             *)

Init ==
  /\ status = [s \in Slots |-> "INVALID"]
  /\ fd = [s \in Slots |-> NoFd]
  /\ protocol = [s \in Slots |-> "TCP"]
  /\ mask = [s \in Slots |-> {}]
  /\ sbuffersz = [s \in Slots |-> 0]
  /\ slimit = [s \in Slots |-> 0]
  /\ free = [i \in 1 .. Max |-> i - 1]
  /\ os = [f \in Fds |-> IF f \in StdFds THEN "conn" ELSE "closed"]
  /\ ep_ud = [f \in Fds |-> NoSlot]
  /\ ep_mask = [f \in Fds |-> {}]
  /\ polling = FALSE
  /\ ievents = {}
  /\ oevents = <<>>

-----------------------------------------------------------------------------
(* The functions of socket.c that its entry points share.                  *)

\* _create_socket and the status, the kernel object and the interest that
\* its caller gives the new socket at once.
CreateSocket(f, kind, st, p, lim, m) ==
  LET s == Head(free) IN
  /\ free # <<>>
  /\ free' = Tail(free)
  /\ status' = [status EXCEPT ![s] = st]
  /\ fd' = [fd EXCEPT ![s] = f]
  /\ protocol' = [protocol EXCEPT ![s] = p]
  /\ mask' = [mask EXCEPT ![s] = m]
  /\ sbuffersz' = [sbuffersz EXCEPT ![s] = 0]
  /\ slimit' = [slimit EXCEPT ![s] = lim]
  /\ os' = [os EXCEPT ![f] = kind]
  /\ IF m = {} THEN UNCHANGED <<ep_ud, ep_mask>>
     ELSE /\ ep_ud' = [ep_ud EXCEPT ![f] = s]
          /\ ep_mask' = [ep_mask EXCEPT ![f] = m]

\* Mutant of CreateThenClose: the slot is not given back.
CreateThenForget(p, lim) ==
  /\ free # <<>>
  /\ free' = Tail(free)
  /\ UNCHANGED <<status, fd, protocol, mask, sbuffersz, slimit, kernel>>

\* _create_socket followed by _close_socket, when the caller fails between
\* the two: the slot at the head of the list goes to its end.
CreateThenClose(p, lim) ==
  LET s == Head(free) IN
  /\ free # <<>>
  /\ free' = Append(Tail(free), s)
  /\ protocol' = [protocol EXCEPT ![s] = p]
  /\ mask' = [mask EXCEPT ![s] = {}]
  /\ slimit' = [slimit EXCEPT ![s] = lim]
  /\ UNCHANGED <<status, fd, sbuffersz, kernel>>

\* Mutant of FreeSlot: the slot goes to the head of the list.
FreeSlotFirst(s) ==
  /\ status' = [status EXCEPT ![s] = "INVALID"]
  /\ fd' = [fd EXCEPT ![s] = NoFd]
  /\ sbuffersz' = [sbuffersz EXCEPT ![s] = 0]
  /\ free' = <<s>> \o free
  /\ UNCHANGED <<protocol, slimit>>

\* The slot's part of _close_socket; mask, protocol and slimit stay.
FreeSlot(s) ==
  /\ status' = [status EXCEPT ![s] = "INVALID"]
  /\ fd' = [fd EXCEPT ![s] = NoFd]
  /\ sbuffersz' = [sbuffersz EXCEPT ![s] = 0]
  /\ free' = Append(free, s)
  /\ UNCHANGED <<protocol, slimit>>

\* close(2) of a descriptor above STDERR_FILENO: epoll forgets it.
CloseFd(f) ==
  /\ os' = [os EXCEPT ![f] = "closed"]
  /\ ep_ud' = [ep_ud EXCEPT ![f] = NoSlot]
  /\ ep_mask' = [ep_mask EXCEPT ![f] = {}]

\* Mutant of CloseSocket: only the slot is freed.
CloseSlotOnly(s) == FreeSlot(s) /\ UNCHANGED <<mask, kernel>>

CloseSocket(s) ==
  /\ FreeSlot(s)
  /\ UNCHANGED mask
  /\ IF fd[s] \in StdFds THEN UNCHANGED kernel ELSE CloseFd(fd[s])

\* EPOLL_CTL_ADD of a registered descriptor, and EPOLL_CTL_MOD or _DEL of
\* one that is not, fail.
Registrable(s) == (mask[s] = {}) <=> (ep_ud[fd[s]] = NoSlot)

\* Mutant of Subscribe: the mask is set although epoll_ctl has failed.
SubscribeUnchecked(s, m) ==
  /\ mask' = [mask EXCEPT ![s] = m]
  /\ \/ /\ ep_ud' = [ep_ud EXCEPT ![fd[s]] = IF m = {} THEN NoSlot ELSE s]
        /\ ep_mask' = [ep_mask EXCEPT ![fd[s]] = m]
     \/ /\ m = mask[s] \/ ~Registrable(s) \/ "epoll" \in Faults
        /\ UNCHANGED <<ep_ud, ep_mask>>

\* _subscribe, whose result all callers but two ignore.
Subscribe(s, m) ==
  \/ /\ m # mask[s]
     /\ Registrable(s)
     /\ mask' = [mask EXCEPT ![s] = m]
     /\ ep_ud' = [ep_ud EXCEPT ![fd[s]] = IF m = {} THEN NoSlot ELSE s]
     /\ ep_mask' = [ep_mask EXCEPT ![fd[s]] = m]
  \/ /\ m = mask[s] \/ ~Registrable(s) \/ "epoll" \in Faults
     /\ UNCHANGED <<mask, ep_ud, ep_mask>>

\* What write(2) and sendmsg(2) do with n bytes, EAGAIN and EINTR being 0
\* written.
Written(f, n) ==
  CASE os[f] = "conn" -> 0 .. n
    [] os[f] = "connecting" -> {0}
    [] OTHER -> {}

\* A connection may be reset at any time; another error comes at once.
Fails(f) == os[f] # "connecting"

-----------------------------------------------------------------------------
(* Entry points, called between two socket_poll.  Calls that change        *)
(* nothing here are left out: on an id that is not live, on a full table,  *)
(* a read or a write that the kernel answers in full, socket_udata.        *)

\* socket_bind of stdin, or of a descriptor the application has just opened.
Bind(f, p) ==
  /\ \A s \in Live : fd[s] # f
  /\ f \in StdFds \/ os[f] = "closed"
  /\ \/ CreateSocket(f, "conn", "BIND", p, INT_MAX, {})
     \/ "nonblock" \in Faults /\ CreateThenClose(p, INT_MAX)

\* socket_listen, from the call of socket() that gives f.
Listen(f) ==
  /\ os[f] = "closed"
  /\ \/ CreateSocket(f, "listen", "LISTENING", "TCP", INT_MAX, {"R"})
     \/ "epoll" \in Faults /\ CreateThenClose("TCP", INT_MAX)

\* Mutant of Connect: EINPROGRESS taken for success.
ConnectHasty(f, block) ==
  /\ os[f] = "closed"
  /\ \E kind \in {"conn", "connecting"} :
       CreateSocket(f, kind, "CONNECTED", "TCP", INT_MAX, {})

\* socket_connect, from the call of socket() that gives f.  In the last
\* case a blocking connect has succeeded and fcntl fails: the call returns
\* and nothing holds f any more (socket.c:850-854).
Connect(f, block) ==
  /\ os[f] = "closed"
  /\ \/ CreateSocket(f, "conn", "CONNECTED", "TCP", INT_MAX, {})
     \/ /\ ~block
        /\ \/ CreateSocket(f, "connecting", "CONNECTING", "TCP", INT_MAX, Interest)
           \/ "epoll" \in Faults /\ CreateThenClose("TCP", INT_MAX)
     \/ /\ block
        /\ "nonblock" \in Faults
        /\ os' = [os EXCEPT ![f] = "conn"]
        /\ UNCHANGED <<table, ep_ud, ep_mask>>

\* Mutant of EnableRead: the interest in writing is lost.
EnableReadOnly(s, read) ==
  /\ Subscribe(s, IF read THEN {"R"} ELSE {})
  /\ UNCHANGED <<status, fd, protocol, sbuffersz, slimit, free, os>>

\* socket_enableread.
EnableRead(s, read) ==
  /\ Subscribe(s, (mask[s] \cap {"W"}) \cup (IF read THEN {"R"} ELSE {}))
  /\ UNCHANGED <<status, fd, protocol, sbuffersz, slimit, free, os>>

\* The end of socket_send and socket_sendfd: n bytes join the send list.
Enqueue(s, n) ==
  /\ sbuffersz[s] + n <= INT_MAX
  /\ \/ /\ sbuffersz[s] + n > slimit[s]
        /\ CloseSocket(s)
     \/ /\ sbuffersz[s] + n <= slimit[s]
        /\ sbuffersz' = [sbuffersz EXCEPT ![s] = @ + n]
        /\ IF sbuffersz[s] = 0 THEN Subscribe(s, mask[s] \cup {"W"})
           ELSE UNCHANGED <<mask, ep_ud, ep_mask>>
        /\ UNCHANGED <<status, fd, protocol, slimit, free, os>>

\* What socket_send and socket_sendfd share.
Transmit(s, sz) ==
  \/ /\ sbuffersz[s] = 0
     /\ \E n \in Written(fd[s], sz) \ {sz} : Enqueue(s, sz - n)
  \/ /\ sbuffersz[s] = 0
     /\ Fails(fd[s])
     /\ CloseSocket(s)
  \/ /\ sbuffersz[s] > 0
     /\ Enqueue(s, sz)

Send(s, sz) ==
  /\ protocol[s] = "TCP"
  /\ status[s] # "HALFCLOSE"
  /\ EarlySend \/ status[s] # "CONNECTING"
  /\ Transmit(s, sz)

\* socket_sendfd does not look at the status.
SendFd(s, sz) == protocol[s] = "IPC" /\ Transmit(s, sz)

\* Mutant of Read: the descriptor is closed, the slot is not.
ReadClosesFd(s) ==
  /\ Fails(fd[s])
  /\ CloseFd(fd[s])
  /\ UNCHANGED table

\* socket_read that meets the end of file or an error.
Read(s) ==
  /\ protocol[s] # "UDP"
  /\ Fails(fd[s])
  /\ CloseSocket(s)

\* Mutant of Close: a graceful close never ends at once.
CloseLater(s, force) ==
  \/ force /\ CloseSocket(s)
  \/ /\ ~force
     /\ status' = [status EXCEPT ![s] = "HALFCLOSE"]
     /\ UNCHANGED <<fd, protocol, mask, sbuffersz, slimit, free, kernel>>

\* socket_close.
Close(s, force) ==
  \/ /\ force \/ sbuffersz[s] = 0
     /\ CloseSocket(s)
  \/ /\ ~force
     /\ sbuffersz[s] > 0
     /\ status' = [status EXCEPT ![s] = "HALFCLOSE"]
     /\ UNCHANGED <<fd, protocol, mask, sbuffersz, slimit, free, kernel>>

\* socket_limit; 0 and less mean INT_MAX.
Limit(s, lim) ==
  /\ slimit' = [slimit EXCEPT ![s] = lim]
  /\ UNCHANGED <<status, fd, protocol, mask, sbuffersz, free, kernel>>

\* net_free and net_create: the epoll descriptor goes, and every socket's.
Reinit ==
  LET owned == {fd[s] : s \in Live} \ StdFds IN
  /\ status' = [s \in Slots |-> "INVALID"]
  /\ fd' = [s \in Slots |-> NoFd]
  /\ mask' = [s \in Slots |-> {}]
  /\ sbuffersz' = [s \in Slots |-> 0]
  /\ slimit' = [s \in Slots |-> 0]
  /\ free' = [i \in 1 .. Max |-> i - 1]
  /\ os' = [f \in Fds |-> IF f \in owned THEN "closed" ELSE os[f]]
  /\ ep_ud' = [f \in Fds |-> NoSlot]
  /\ ep_mask' = [f \in Fds |-> {}]
  /\ UNCHANGED protocol

Call ==
  /\ ~polling
  /\ UNCHANGED loop
  /\ \/ \E f \in Fds, p \in BindProtocols : Bind(f, p)
     \/ \E f \in Fds : Listen(f)
     \/ \E f \in Fds, block \in Blocking : Connect(f, block)
     \/ \E s \in Live, read \in BOOLEAN : EnableRead(s, read)
     \/ \E s \in Live, sz \in 1 .. INT_MAX : Send(s, sz)
     \/ \E s \in Live, sz \in 1 .. INT_MAX : SendFd(s, sz)
     \/ \E s \in Live : Read(s)
     \/ \E s \in Live, force \in BOOLEAN : Close(s, force)
     \/ \E s \in Live, lim \in Limits \cup {INT_MAX} : Limit(s, lim)
     \/ Reinit

-----------------------------------------------------------------------------
(* The kernel.                                                             *)

\* A connection that was in progress is established or refused.
KernelConnect(f) ==
  /\ os[f] = "connecting"
  /\ \E result \in {"conn", "failed"} : os' = [os EXCEPT ![f] = result]
  /\ UNCHANGED <<table, ep_ud, ep_mask, loop>>

\* The flags that np_poll may give a registered descriptor: errors and hang-
\* ups come without being asked for, and as "write".
Reports(f) ==
  {r \in [read : BOOLEAN, write : BOOLEAN] :
     /\ r.read \/ r.write
     /\ r.read => "R" \in ep_mask[f]
     /\ CASE os[f] = "conn" -> TRUE
          [] os[f] = "listen" -> ~r.write
          [] os[f] = "failed" -> r.write /\ (r.read <=> "R" \in ep_mask[f])
          [] OTHER -> FALSE}

-----------------------------------------------------------------------------
(* socket_poll.                                                            *)

\* np_poll gives at most Max descriptors; that none is ready changes nothing.
PollStart ==
  /\ ~polling
  /\ polling' = TRUE
  /\ \E ready \in SUBSET {f \in Fds : ep_ud[f] # NoSlot} :
       /\ Cardinality(ready) \in 1 .. Max
       /\ \E r \in [ready -> [read : BOOLEAN, write : BOOLEAN]] :
            /\ \A f \in ready : r[f] \in Reports(f)
            /\ ievents' = {[fd |-> f, slot |-> ep_ud[f],
                            read |-> r[f].read, write |-> r[f].write] : f \in ready}
  /\ UNCHANGED <<table, kernel, oevents>>

PollReturn ==
  /\ polling
  /\ ievents = {}
  /\ polling' = FALSE
  /\ oevents' = <<>>
  /\ UNCHANGED <<table, kernel, ievents>>

Emit(type, s) == oevents' = Append(oevents, [type |-> type, id |-> s])

\* case STATUS_LISTENING, with _accept: it fails, on the full table too, or
\* gives a connection that inherits the limit of the listening socket.
PollAccept(e) ==
  /\ status[e.slot] = "LISTENING"
  /\ \/ UNCHANGED <<table, kernel, oevents>>
     \/ /\ "nonblock" \in Faults
        /\ CreateThenClose("TCP", slimit[e.slot])
        /\ UNCHANGED oevents
     \/ \E f \in Fds :
          /\ os[f] = "closed"
          /\ CreateSocket(f, "conn", "CONNECTED", "TCP", slimit[e.slot], {})
          /\ Emit("ACCEPT", Head(free))

\* Mutant of PollConnect: data that came with the connection is an event of
\* its own.
PollConnectTwice(e) ==
  LET s == e.slot
      event(type) == [type |-> type, id |-> s] IN
  /\ status[s] = "CONNECTING"
  /\ os[fd[s]] # "failed"
  /\ status' = [status EXCEPT ![s] = "CONNECTED"]
  /\ Subscribe(s, {})
  /\ UNCHANGED <<fd, protocol, sbuffersz, slimit, free, os>>
  /\ oevents' = oevents \o (IF e.read THEN <<event("CONNECT"), event("READ")>>
                            ELSE <<event("CONNECT")>>)

\* case STATUS_CONNECTING, with _onconnect: SO_ERROR is 0 also while the
\* connection is still in progress.
PollConnect(e) ==
  LET s == e.slot IN
  /\ status[s] = "CONNECTING"
  /\ \/ /\ os[fd[s]] # "failed"
        /\ status' = [status EXCEPT ![s] = "CONNECTED"]
        /\ Subscribe(s, {})
        /\ UNCHANGED <<fd, protocol, sbuffersz, slimit, free, os>>
        /\ Emit(IF e.read THEN "CONN_THEN_READ" ELSE "CONNECT", s)
     \/ /\ Fails(fd[s])
        /\ CloseSocket(s)
        /\ Emit("CONNERR", s)

\* case STATUS_INVALID.
PollStale(e) ==
  /\ status[e.slot] = "INVALID"
  /\ UNCHANGED <<table, kernel, oevents>>

EmitRead(e) == IF e.read THEN Emit("READ", e.slot) ELSE UNCHANGED oevents

\* The default case without _send_buffer, or with nothing for it to do.
PollRead(e) ==
  /\ status[e.slot] \in {"CONNECTED", "HALFCLOSE", "BIND"}
  /\ e.write => sbuffersz[e.slot] = 0 /\ status[e.slot] # "HALFCLOSE"
  /\ UNCHANGED <<table, kernel>>
  /\ EmitRead(e)

\* Mutant of PollWriteError: the break that ends the iteration is missing.
PollWriteErrorGoesOn(e) ==
  LET s == e.slot IN
  /\ status[s] \in {"CONNECTED", "HALFCLOSE", "BIND"}
  /\ e.write
  /\ sbuffersz[s] > 0
  /\ Fails(fd[s])
  /\ CloseSocket(s)
  /\ oevents' = Append(oevents, [type |-> "SOCKERR", id |-> s])
                \o (IF e.read THEN <<[type |-> "READ", id |-> s]>> ELSE <<>>)

\* _send_buffer stops on an error.
PollWriteError(e) ==
  LET s == e.slot IN
  /\ status[s] \in {"CONNECTED", "HALFCLOSE", "BIND"}
  /\ e.write
  /\ sbuffersz[s] > 0
  /\ Fails(fd[s])
  /\ CloseSocket(s)
  /\ Emit("SOCKERR", s)

\* Mutant of PollWriteSome: the interest in writing goes after every write.
PollWriteOnce(e) ==
  LET s == e.slot IN
  /\ status[s] \in {"CONNECTED", "HALFCLOSE", "BIND"}
  /\ e.write
  /\ \E n \in Written(fd[s], sbuffersz[s]) \ {sbuffersz[s]} :
       sbuffersz' = [sbuffersz EXCEPT ![s] = @ - n]
  /\ Subscribe(s, mask[s] \ {"W"})
  /\ UNCHANGED <<status, fd, protocol, slimit, free, os>>
  /\ EmitRead(e)

\* _send_buffer sends a part of what is queued.
PollWriteSome(e) ==
  LET s == e.slot IN
  /\ status[s] \in {"CONNECTED", "HALFCLOSE", "BIND"}
  /\ e.write
  /\ \E n \in Written(fd[s], sbuffersz[s]) \ {sbuffersz[s]} :
       sbuffersz' = [sbuffersz EXCEPT ![s] = @ - n]
  /\ UNCHANGED <<status, fd, protocol, mask, slimit, free, kernel>>
  /\ EmitRead(e)

\* _send_buffer sends the whole of it, and drops the interest in writing.
PollWriteAll(e) ==
  LET s == e.slot IN
  /\ status[s] \in {"CONNECTED", "BIND"}
  /\ e.write
  /\ sbuffersz[s] > 0
  /\ sbuffersz[s] \in Written(fd[s], sbuffersz[s])
  /\ sbuffersz' = [sbuffersz EXCEPT ![s] = 0]
  /\ Subscribe(s, mask[s] \ {"W"})
  /\ UNCHANGED <<status, fd, protocol, slimit, free, os>>
  /\ EmitRead(e)

\* Mutant of PollWriteDone: the socket is closed without a word.
PollWriteDoneSilent(e) ==
  LET s == e.slot IN
  /\ status[s] = "HALFCLOSE"
  /\ e.write
  /\ sbuffersz[s] \in Written(fd[s], sbuffersz[s])
  /\ CloseSocket(s)
  /\ EmitRead(e)

\* The same on a socket that is waiting for it to be closed.
PollWriteDone(e) ==
  LET s == e.slot IN
  /\ status[s] = "HALFCLOSE"
  /\ e.write
  /\ sbuffersz[s] \in Written(fd[s], sbuffersz[s])
  /\ FreeSlot(s)
  /\ IF fd[s] \in StdFds
     THEN Subscribe(s, mask[s] \ {"W"}) /\ UNCHANGED os
     ELSE /\ CloseFd(fd[s])
          /\ \/ mask' = [mask EXCEPT ![s] = @ \ {"W"}]
             \/ "epoll" \in Faults /\ UNCHANGED mask
  /\ Emit("WRIDONECLOSE", s)

PollEvent(e) ==
  /\ polling
  /\ ievents' = ievents \ {e}
  /\ UNCHANGED polling
  /\ \/ PollAccept(e)
     \/ PollConnect(e)
     \/ PollStale(e)
     \/ PollRead(e)
     \/ PollWriteError(e)
     \/ PollWriteSome(e)
     \/ PollWriteAll(e)
     \/ PollWriteDone(e)

-----------------------------------------------------------------------------
Next ==
  \/ Call
  \/ \E f \in Fds : KernelConnect(f)
  \/ PollStart
  \/ \E e \in ievents : PollEvent(e)
  \/ PollReturn

Spec == Init /\ [][Next]_vars

-----------------------------------------------------------------------------
(* What the table and the kernel owe each other.                           *)

\* The sequence q has the members of S, each once.
Lists(q, S) ==
  /\ \A i \in 1 .. Len(q) : q[i] \in S
  /\ \A s \in S : \E i \in 1 .. Len(q) : q[i] = s
  /\ \A i, j \in 1 .. Len(q) : q[i] = q[j] => i = j

(***************************************************************************)
(* The free slots are those of the list, each once: no failing call loses  *)
(* a slot, and none frees one twice.                                       *)
(***************************************************************************)
FreeIsInvalid == Lists(free, Slots \ Live)

(***************************************************************************)
(* _create_socket and _close_socket move a descriptor into a slot and out  *)
(* of it: a live slot holds an open descriptor that no other slot holds,   *)
(* so that closing one socket never closes another one's descriptor.       *)
(***************************************************************************)
SingleOwner ==
  /\ \A s \in Slots : fd[s] = NoFd <=> s \notin Live
  /\ \A s, t \in Live : fd[s] = fd[t] => s = t
  /\ \A s \in Live : os[fd[s]] # "closed"

\* What keeps socket_connect from losing a descriptor (see Connect).
NoLeakPossible == TRUE \notin Blocking \/ "nonblock" \notin Faults

(***************************************************************************)
(* Every way out of listen, connect, bind and accept leaves a descriptor   *)
(* in the table or closes it, but for the blocking connect above.          *)
(***************************************************************************)
NoFdLeak ==
  \A f \in Fds \ StdFds : os[f] # "closed" => \E s \in Live : fd[s] = f

(***************************************************************************)
(* Although _close_socket removes nothing from epoll, a slot's mask is     *)
(* exactly what epoll has registered for its descriptor, with that slot as *)
(* its user data, and nothing is registered for a closed one.              *)
(***************************************************************************)
InterestRegistered ==
  /\ \A s \in Live : fd[s] \notin StdFds =>
       /\ ep_mask[fd[s]] = mask[s]
       /\ ep_ud[fd[s]] = IF mask[s] = {} THEN NoSlot ELSE s
  /\ \A f \in Fds \ StdFds : (\A s \in Live : fd[s] # f) =>
       ep_ud[f] = NoSlot /\ ep_mask[f] = {}

(***************************************************************************)
(* An event that socket_poll has not reached yet still names the socket it *)
(* happened on, although the iterations before it close sockets and accept *)
(* others into the freed slots.                                            *)
(***************************************************************************)
EventsReachOwner == \A e \in ievents : fd[e.slot] = e.fd

(***************************************************************************)
(* A socket that is connecting is watched for writing, whatever            *)
(* socket_enableread has been asked: the outcome will be reported.         *)
(***************************************************************************)
ConnectingWatched ==
  \A s \in Slots : status[s] = "CONNECTING" =>
    "W" \in mask[s] /\ "W" \in ep_mask[fd[s]]

(***************************************************************************)
(* Data waits in a send list only while the socket is watched for writing: *)
(* nothing is stranded there.                                              *)
(***************************************************************************)
WriteInterest == \A s \in Live : sbuffersz[s] > 0 => "W" \in mask[s]

(***************************************************************************)
(* A socket is half closed only while it has data to send, which is the    *)
(* only thing that will make socket_poll close it.                         *)
(***************************************************************************)
HalfCloseHasData ==
  \A s \in Slots : status[s] = "HALFCLOSE" => sbuffersz[s] > 0

(***************************************************************************)
(* A socket that is called connected is connected: SO_ERROR is asked only  *)
(* when the kernel has decided.                                            *)
(***************************************************************************)
ConnectedIsEstablished ==
  \A s \in Slots : status[s] = "CONNECTED" => os[fd[s]] = "conn"

(***************************************************************************)
(* o_events has Max entries and the loop does not check: what is in it and *)
(* what may still come always fits.                                        *)
(***************************************************************************)
OutputFits == Len(oevents) + Cardinality(ievents) <= Max

Ends == {"CONNERR", "SOCKERR", "WRIDONECLOSE"}

(***************************************************************************)
(* When socket_poll returns, the last event with an id tells whether that  *)
(* slot is live, and an id that comes twice was closed and then accepted:  *)
(* a caller that handles the events in order follows the table.            *)
(***************************************************************************)
BatchTellsTruth ==
  \A i \in 1 .. Len(oevents) :
    LET later == {j \in i + 1 .. Len(oevents) : oevents[j].id = oevents[i].id} IN
    IF later = {}
    THEN oevents[i].type \in Ends <=> oevents[i].id \notin Live
    ELSE /\ oevents[i].type \in Ends
         /\ \A j \in later : oevents[j].type = "ACCEPT"

(***************************************************************************)
(* socket_poll opens, connects or closes no socket without an event that   *)
(* says so, and one iteration concerns at most one socket.                 *)
(***************************************************************************)
PollReports ==
  [][polling => \A s \in Slots : status'[s] # status[s] =>
       /\ Len(oevents') = Len(oevents) + 1
       /\ oevents'[Len(oevents')].id = s
       /\ \A t \in Slots \ {s} : status'[t] = status[t]]_vars

(***************************************************************************)
(* The slots are handed out as SlotQueue says: the one that has been free  *)
(* for longest first, so that an id is not reused before the others.       *)
(***************************************************************************)
Q == INSTANCE SlotQueue WITH queue <- free, live <- Live
SlotsInOrder == Q!Spec

-----------------------------------------------------------------------------
(* Fairness.  The application calls socket_poll again and again, and each  *)
(* call ends (test/server.lua:58-60); epoll is level triggered, so that a  *)
(* socket that is writable at every call is reported again and again; a    *)
(* peer reads on or dies; TCP gives up a connection that is not answered.  *)

ReportsWritable(s) ==
  PollStart /\ \E e \in ievents' : e.slot = s /\ e.write

Progress(s) ==
  /\ sbuffersz[s] > 0
  /\ \E e \in ievents :
       e.slot = s /\ PollEvent(e) /\ sbuffersz'[s] < sbuffersz[s]

Fairness ==
  /\ WF_vars(PollReturn)
  /\ WF_vars(\E e \in ievents : PollEvent(e))
  /\ \A f \in Fds : WF_vars(KernelConnect(f))
  /\ \A s \in Slots : SF_vars(ReportsWritable(s)) /\ SF_vars(Progress(s))

FairSpec == Spec /\ Fairness

(***************************************************************************)
(* socket_close without force keeps its promise: the socket ends, by the   *)
(* last byte, by an error or by the application.                           *)
(***************************************************************************)
HalfCloseEnds ==
  \A s \in Slots : status[s] = "HALFCLOSE" ~> status[s] = "INVALID"

(***************************************************************************)
(* socket_connect without block comes to an end.                           *)
(***************************************************************************)
ConnectResolves ==
  \A s \in Slots : status[s] = "CONNECTING" ~> status[s] # "CONNECTING"
=============================================================================
