----------------------------- MODULE LuaSocket -----------------------------
(***************************************************************************)
(* The layer of coroutines of src/lib/socket.lua: socket_pool, the         *)
(* coroutines that wait in connect and in read, and the handlers that the  *)
(* events of one socket_poll reach one by one (psocket_poll).  The C       *)
(* library is reduced to what Net says of it: the status of each slot,     *)
(* slots taken from and given back to a queue, one event at most for a     *)
(* slot that was live when the poll began.                                 *)
(***************************************************************************)
EXTENDS Naturals, Sequences, Functions

CONSTANTS
  cmax,        \* slots
  Cos,         \* coroutines
  MaxConns,    \* bound on the connections made and accepted
  MaxUnits,    \* bound on what one read delivers, in units that a pop takes
  Faults,      \* what may go wrong, see "fault"
  NoEntry, NoBuffer

ASSUME LuaSocketAssumption ==
  /\ cmax \in Nat \ {0} /\ MaxConns \in Nat /\ MaxUnits \in Nat
  /\ Faults \subseteq {"none", "sockerr", "send", "enable", "reuse"}
  /\ NoBuffer \notin Seq(1 .. MaxConns)
  /\ NoEntry \notin [co : Cos, buf : {NoBuffer} \cup Seq(1 .. MaxConns)]

Ids == 1 .. cmax
NoConn == 0

VARIABLES
  fault,       \* what goes wrong in this behaviour: "sockerr", a write of what
               \* is queued may fail; "send", so may socket_send; "enable", so
               \* may the subscription to read events; "reuse", the table is so
               \* full that a slot is taken again while the event that tells of
               \* its end waits in the batch; or "none"
  sock,        \* C: the slots, and which connection each one holds
  free,        \* C: the free slots, in order
  conns,       \* the number of connections so far
  phase,       \* in socket_poll, or in the loop of psocket_poll and outside
  polled,      \* the slots that this socket_poll has no (more) event for
  batch,       \* the events that are left
  pool,        \* socket_pool
  stack,       \* the coroutines that have resumed each other, inner last
  cst,         \* what each coroutine does
  own,         \* the socket it uses: the id, which connection it means by
               \* that, and whether it has asked for read events
  got,         \* what its last call has returned
  failed       \* the assertions that have failed

c_vars == <<sock, free, conns>>
poll_vars == <<phase, polled, batch>>
co_vars == <<stack, cst, own, got>>
vars == <<fault, sock, free, conns, phase, polled, batch, pool, stack, cst, own, got,
          failed>>

Types == {"READ", "ACCEPT", "CONNECT", "CONNERR", "SOCKERR", "WRIDONECLOSE",
          "CONN_THEN_READ"}
Event == [type : Types, id : Ids]

Entry == [co : Cos, buf : {NoBuffer} \cup Seq(1 .. MaxConns)]

FreeSlot == [st |-> "free", rd |-> FALSE, queued |-> FALSE, conn |-> NoConn]
NoSocket == [id |-> 0, conn |-> NoConn, rd |-> FALSE]
Result == [kind : {"none", "ok", "data", "error"}, conn : 0 .. MaxConns]
NoResult == [kind |-> "none", conn |-> NoConn]

TypeOK ==
  /\ fault \in Faults
  /\ sock \in [Ids -> [st : {"free", "listen", "connecting", "connected",
                             "halfclose"},
                       rd : BOOLEAN, queued : BOOLEAN, conn : 0 .. MaxConns]]
  /\ free \in Seq(Ids) /\ IsInjective(free)
  /\ conns \in 0 .. MaxConns
  /\ phase \in {"poll", "dispatch"}
  /\ polled \subseteq Ids
  /\ batch \in Seq(Event)
  /\ pool \in [Ids -> {NoEntry} \cup Entry]
  /\ stack \in Seq(Cos)
  /\ cst \in [Cos -> {"fresh", "running", "connect", "read", "dead"}]
  /\ own \in [Cos -> [id : 0 .. cmax, conn : 0 .. MaxConns, rd : BOOLEAN]]
  /\ got \in [Cos -> Result]
  /\ failed \subseteq {"disconnect", "wakeup", "pool"}

\* After socket.init and, for one socket or several, socket.listen and
\* socket.start with the callback; the entry of a listener is not in "pool",
\* since nothing changes it.
Init ==
  /\ fault \in Faults
  /\ \E n \in Ids :
       /\ sock = [id \in Ids |-> IF id <= n THEN [FreeSlot EXCEPT !.st = "listen"]
                                 ELSE FreeSlot]
       /\ free = [i \in 1 .. cmax - n |-> i + n]
  /\ conns = 0
  /\ phase = "dispatch" /\ polled = {} /\ batch = <<>>
  /\ pool = [id \in Ids |-> NoEntry]
  /\ stack = <<>>
  /\ cst = [c \in Cos |-> "fresh"]
  /\ own = [c \in Cos |-> NoSocket]
  /\ got = [c \in Cos |-> NoResult]
  /\ failed = {}

-----------------------------------------------------------------------------
(* The C library.                                                          *)

\* _create_socket.
Create(id, st, rd) ==
  /\ free # <<>> /\ id = Head(free)
  /\ fault = "reuse" \/ \A i \in DOMAIN batch : batch[i].id # id
  /\ conns < MaxConns
  /\ sock' = [sock EXCEPT ![id] = [st |-> st, rd |-> rd, queued |-> FALSE,
                                   conn |-> conns + 1]]
  /\ free' = Tail(free)
  /\ conns' = conns + 1

\* Mutant of CClose: the status of the slot is not looked at.
CCloseAgain(id) ==
  /\ sock' = [sock EXCEPT ![id] = FreeSlot]
  /\ free' = Append(free, id)
  /\ UNCHANGED conns

\* _close_socket, and socket_close of a free slot.
CClose(id) ==
  /\ sock' = [sock EXCEPT ![id] = FreeSlot]
  /\ free' = IF sock[id].st = "free" THEN free ELSE Append(free, id)
  /\ UNCHANGED conns

\* _create_socket and then _close_socket, when what follows the first fails:
\* the slot goes to the end of the list.
CreateThenClose ==
  /\ free # <<>>
  /\ free' = Append(Tail(free), Head(free))
  /\ UNCHANGED <<sock, conns>>

(* The functions of the module socket.c, through psocket.c.                *)

\* lconnect: the id, and whether the connection is in progress.
CConnect(id, conning) ==
  IF conning THEN Create(id, "connecting", TRUE) ELSE Create(id, "connected", FALSE)

\* lclose.
CCloseCall(id, force) ==
  \/ (force \/ ~sock[id].queued) /\ CClose(id)
  \/ /\ ~force /\ sock[id].queued
     /\ sock' = [sock EXCEPT ![id].st = "halfclose"]
     /\ UNCHANGED <<free, conns>>

\* lread returns nothing, data, or an error, which has closed the socket.
CReads(id, result) ==
  CASE result = "nothing" -> sock[id].st # "free"
    [] result = "data" -> sock[id].st = "connected"
    [] result = "error" -> TRUE

\* lreadenable, which drops the result of the subscription.
CReadEnable(id, enable) ==
  /\ \/ (sock[id].st = "free" \/ fault = "enable") /\ UNCHANGED sock
     \/ sock[id].st # "free" /\ sock' = [sock EXCEPT ![id].rd = enable]
  /\ UNCHANGED <<free, conns>>

\* lsend that returns no error.  psocket_send calls a failure a success.
CSend(id) ==
  LET open == sock[id].st \in {"connecting", "connected"} IN
  \/ ~open /\ UNCHANGED c_vars
  \/ /\ open
     /\ \E queued \in {sock[id].queued \/ sock[id].st = "connecting", TRUE} :
          sock' = [sock EXCEPT ![id].queued = queued]
     /\ UNCHANGED <<free, conns>>
  \/ open /\ fault = "send" /\ CClose(id)

\* lsend that returns one: of a success that has sent something psocket_send
\* returns event.err, which nobody has set.
CSendErrs(id) == sock[id].st = "connected" /\ ~sock[id].queued

-----------------------------------------------------------------------------
(* socket_poll.                                                            *)

Emit(type, id) == batch' = Append(batch, [type |-> type, id |-> id])

PollStart ==
  /\ phase = "dispatch" /\ stack = <<>> /\ batch = <<>>
  /\ phase' = "poll"
  /\ polled' = {id \in Ids : sock[id].st = "free"}
  /\ UNCHANGED <<c_vars, batch, pool, co_vars, failed>>

PollAccept ==
  \/ \E id \in Ids :
       /\ Create(id, "connected", FALSE)
       /\ Emit("ACCEPT", id)
  \/ CreateThenClose /\ UNCHANGED batch

PollConnect(id) ==
  \/ /\ sock' = [sock EXCEPT ![id].st = "connected", ![id].rd = FALSE]
     /\ Emit("CONNECT", id) \/ Emit("CONN_THEN_READ", id)
     /\ UNCHANGED <<free, conns>>
  \/ CClose(id) /\ Emit("CONNERR", id)

\* A write of what is queued comes first: an error and the end of a half
\* closed socket are reported instead of data.
PollData(id) ==
  LET s == sock[id] IN
  \/ /\ s.queued
     /\ \/ fault = "sockerr" /\ Emit("SOCKERR", id)
        \/ s.st = "halfclose" /\ Emit("WRIDONECLOSE", id)
     /\ CClose(id)
  \/ /\ \/ UNCHANGED sock
        \/ s.st = "connected" /\ s.queued /\ sock' = [sock EXCEPT ![id].queued = FALSE]
     /\ (s.rd /\ Emit("READ", id)) \/ UNCHANGED batch
     /\ UNCHANGED <<free, conns>>

PollEvent(id) ==
  /\ phase = "poll"
  /\ id \notin polled
  /\ CASE sock[id].st = "listen" -> PollAccept
       [] sock[id].st = "connecting" -> PollConnect(id)
       [] OTHER -> PollData(id)
  /\ polled' = polled \cup {id}
  /\ UNCHANGED <<phase, pool, co_vars, failed>>

PollReturn ==
  /\ phase = "poll"
  /\ phase' = "dispatch"
  /\ polled' = {}
  /\ UNCHANGED <<c_vars, batch, pool, co_vars, failed>>

-----------------------------------------------------------------------------
(* wakeup, suspend, disconnect and start.                                  *)

\* Resuming a coroutine that does not wait fails, and so does the assertion
\* on it; the handler ends there.
Wakeup(c, result) ==
  \/ /\ cst[c] \in {"connect", "read"}
     /\ cst' = [cst EXCEPT ![c] = "running"]
     /\ stack' = <<c>>
     /\ got' = [got EXCEPT ![c] = result]
     /\ own' = IF result.kind = "error" THEN [own EXCEPT ![c] = NoSocket] ELSE own
     /\ UNCHANGED failed
  \/ /\ cst[c] \notin {"connect", "read"}
     /\ failed' = failed \cup {"wakeup"}
     /\ UNCHANGED co_vars

Error == [kind |-> "error", conn |-> NoConn]

\* Mutant of Disconnect: the entry stays in the pool.
DisconnectKeepsEntry(id, force) ==
  /\ CCloseCall(id, force)
  /\ UNCHANGED pool

\* disconnect, after its assertions.
Disconnect(id, force) ==
  /\ CCloseCall(id, force)
  /\ pool' = [pool EXCEPT ![id] = NoEntry]

Start(id, c) ==
  pool' = IF pool[id] = NoEntry
          THEN [pool EXCEPT ![id] = [co |-> c, buf |-> NoBuffer]]
          ELSE [pool EXCEPT ![id].co = c]

-----------------------------------------------------------------------------
(* The handlers.                                                           *)

\* Mutant of OnRead: the coroutine is not told of the end.
OnReadSilent(id) ==
  \/ pool[id] = NoEntry /\ UNCHANGED <<c_vars, pool, co_vars, failed>>
  \/ pool[id] # NoEntry /\ Disconnect(id, TRUE) /\ UNCHANGED <<co_vars, failed>>

\* event[LS_EREAD]; without a buffer, data is lost in an error.
OnRead(id) ==
  \/ /\ pool[id] = NoEntry \/ CReads(id, "nothing")
     /\ UNCHANGED <<c_vars, pool, co_vars, failed>>
  \/ /\ pool[id] # NoEntry /\ CReads(id, "error")
     /\ Disconnect(id, TRUE)
     /\ Wakeup(pool[id].co, Error)
  \/ /\ pool[id] # NoEntry /\ CReads(id, "data")
     /\ UNCHANGED c_vars
     /\ \/ pool[id].buf = NoBuffer /\ UNCHANGED <<pool, co_vars, failed>>
        \/ /\ pool[id].buf # NoBuffer
           /\ \E n \in 0 .. MaxUnits :
                LET buf == pool[id].buf \o [i \in 1 .. n |-> sock[id].conn] IN
                \/ /\ buf = <<>>
                   /\ UNCHANGED <<pool, co_vars, failed>>
                \/ /\ buf # <<>> /\ Len(buf) <= MaxUnits
                   /\ pool' = [pool EXCEPT ![id].buf = Tail(buf)]
                   /\ Wakeup(pool[id].co, [kind |-> "data", conn |-> Head(buf)])

\* event[LS_EACCEPT]: the callback starts a coroutine, as test/server.lua 54
\* does, which calls socket.start; or it leaves the connection alone.
OnAccept(id) ==
  \/ \E c \in Cos :
       /\ cst[c] = "fresh"
       /\ cst' = [cst EXCEPT ![c] = "running"]
       /\ stack' = <<c>>
       /\ own' = [own EXCEPT ![c] = [id |-> id, conn |-> sock[id].conn, rd |-> FALSE]]
       /\ Start(id, c)
       /\ UNCHANGED <<c_vars, got, failed>>
  \/ UNCHANGED <<c_vars, pool, co_vars, failed>>

OnConnect(id) ==
  \/ pool[id] = NoEntry /\ UNCHANGED <<co_vars, failed>>
  \/ /\ pool[id] # NoEntry
     /\ Wakeup(pool[id].co, [kind |-> "ok", conn |-> NoConn])

OnConnErr(id) ==
  \/ /\ pool[id] = NoEntry
     /\ UNCHANGED <<c_vars, pool, co_vars, failed>>
  \/ /\ pool[id] # NoEntry
     /\ Disconnect(id, TRUE)
     /\ Wakeup(pool[id].co, Error)

\* event[LS_ESOCKERR] gives disconnect the module instead of the id: there
\* is no entry for it, and the assertion fails.
OnSockErr(id) ==
  failed' = IF pool[id] = NoEntry THEN failed ELSE failed \cup {"disconnect"}

\* One step of psocket_poll's loop; an event of two is dispatched twice.
Dispatch ==
  /\ phase = "dispatch" /\ stack = <<>> /\ batch # <<>>
  /\ LET e == Head(batch) IN
     /\ batch' = IF e.type = "CONN_THEN_READ"
                 THEN <<[e EXCEPT !.type = "READ"]>> \o Tail(batch)
                 ELSE Tail(batch)
     /\ CASE e.type = "READ" -> OnRead(e.id)
          [] e.type = "ACCEPT" -> OnAccept(e.id)
          [] e.type \in {"CONNECT", "CONN_THEN_READ"} ->
               OnConnect(e.id) /\ UNCHANGED <<c_vars, pool>>
          [] e.type = "CONNERR" -> OnConnErr(e.id)
          [] e.type = "SOCKERR" ->
               OnSockErr(e.id) /\ UNCHANGED <<c_vars, pool, co_vars>>
          [] e.type = "WRIDONECLOSE" ->                    \* no handler
               UNCHANGED <<c_vars, pool, co_vars, failed>>
  /\ UNCHANGED <<phase, polled>>

-----------------------------------------------------------------------------
(***************************************************************************)
(* What a coroutine does while it runs.  A coroutine uses one socket, the  *)
(* one it connected, was started with or was given, reads only with read   *)
(* events asked for, and does not end while they are on.                   *)
(***************************************************************************)
Runs(c) == phase = "dispatch" /\ stack # <<>> /\ c = stack[Len(stack)]

Yield(c, st) ==
  /\ cst' = [cst EXCEPT ![c] = st]
  /\ stack' = SubSeq(stack, 1, Len(stack) - 1)

Return(c, result) ==
  /\ got' = [got EXCEPT ![c] = result]
  /\ UNCHANGED <<stack, cst>>

\* A failed assertion ends the coroutine, and those that have resumed it.
Die(assertion) ==
  /\ failed' = failed \cup {assertion}
  /\ cst' = [c \in Cos |-> IF \E i \in DOMAIN stack : stack[i] = c THEN "dead" ELSE cst[c]]
  /\ stack' = <<>>
  /\ UNCHANGED <<c_vars, pool, own, got>>

Resume(c) ==
  /\ cst[c] = "fresh"
  /\ cst' = [cst EXCEPT ![c] = "running"]
  /\ stack' = Append(stack, c)

\* The application starts a coroutine, from the main program or another one.
Fork(c) ==
  /\ phase = "dispatch"
  /\ stack = <<>> => batch = <<>>
  /\ Resume(c)
  /\ UNCHANGED <<c_vars, pool, own, got, failed>>

\* A connect that fails at once, with a slot taken or without.
ConnectFails(c) ==
  /\ UNCHANGED c_vars \/ CreateThenClose
  /\ Return(c, Error)
  /\ UNCHANGED <<pool, own>>

\* socket.connect.
Connect(c) ==
  /\ own[c].id = 0
  /\ \/ \E id \in Ids :
          /\ Start(id, c)
          /\ own' = [own EXCEPT ![c] = [id |-> id, conn |-> conns + 1, rd |-> FALSE]]
          /\ \/ /\ CConnect(id, TRUE)
                /\ Yield(c, "connect")
                /\ UNCHANGED got
             \/ /\ CConnect(id, FALSE)
                /\ Return(c, [kind |-> "ok", conn |-> NoConn])
     \/ ConnectFails(c)
  /\ UNCHANGED failed

\* socket.bind, and the coroutine that gets the socket is started.
Bind(c, c2) ==
  /\ own[c].id # 0
  /\ \/ pool[own[c].id] = NoEntry /\ Die("pool")
     \/ /\ pool[own[c].id] # NoEntry
        /\ pool' = [pool EXCEPT ![own[c].id].co = c2]
        /\ Resume(c2)
        /\ own' = [own EXCEPT ![c] = NoSocket, ![c2] = own[c]]
        /\ UNCHANGED <<c_vars, got, failed>>

\* socket.readenable.
ReadEnable(c, enable) ==
  LET id == own[c].id IN
  /\ id # 0
  /\ \/ pool[id] = NoEntry /\ Die("pool")
     \/ /\ pool[id] # NoEntry
        /\ own' = [own EXCEPT ![c].rd = enable]
        /\ CReadEnable(id, enable)
        /\ pool' = IF enable /\ pool[id].buf = NoBuffer
                   THEN [pool EXCEPT ![id].buf = <<>>] ELSE pool
        /\ UNCHANGED <<stack, cst, got, failed>>

\* socket.read.
Read(c) ==
  LET id == own[c].id IN
  /\ own[c].rd
  /\ \/ pool[id] = NoEntry /\ Die("pool")
     \/ pool[id] # NoEntry /\ pool[id].buf = NoBuffer /\ Die("pool")
     \/ /\ pool[id] # NoEntry /\ pool[id].buf \notin {NoBuffer, <<>>}
        /\ pool' = [pool EXCEPT ![id].buf = Tail(@)]
        /\ Return(c, [kind |-> "data", conn |-> Head(pool[id].buf)])
        /\ UNCHANGED <<c_vars, own, failed>>
     \/ /\ pool[id] # NoEntry /\ pool[id].buf = <<>>
        /\ \/ pool[id].co # c /\ Die("pool")
           \/ /\ pool[id].co = c
              /\ Yield(c, "read")
              /\ UNCHANGED <<c_vars, pool, own, got, failed>>

\* socket.close and socket.shutdown.
Close(c, force) ==
  LET id == own[c].id IN
  /\ id # 0
  /\ \/ pool[id] = NoEntry /\ Die("disconnect")
     \/ /\ pool[id] # NoEntry
        /\ Disconnect(id, force)
        /\ own' = [own EXCEPT ![c] = NoSocket]
        /\ UNCHANGED <<stack, cst, got, failed>>

\* socket.send.
Send(c) ==
  LET id == own[c].id IN
  /\ id # 0
  /\ \/ /\ CSend(id)
        /\ Return(c, [kind |-> "ok", conn |-> NoConn])
        /\ UNCHANGED <<pool, own, failed>>
     \/ CSendErrs(id) /\ pool[id] = NoEntry /\ Die("disconnect")
     \/ /\ CSendErrs(id) /\ pool[id] # NoEntry
        /\ Disconnect(id, TRUE)
        /\ Return(c, Error)
        /\ own' = [own EXCEPT ![c] = NoSocket]
        /\ UNCHANGED failed

Finish(c) ==
  /\ ~own[c].rd
  /\ Yield(c, "dead")
  /\ UNCHANGED <<c_vars, pool, own, got, failed>>

Run(c) ==
  /\ Runs(c)
  /\ \/ Connect(c)
     \/ \E c2 \in Cos : Bind(c, c2)
     \/ \E enable \in BOOLEAN : ReadEnable(c, enable)
     \/ Read(c)
     \/ \E force \in BOOLEAN : Close(c, force)
     \/ Send(c)
     \/ Finish(c)
  /\ UNCHANGED poll_vars

Step ==
  \/ PollStart
  \/ \E id \in Ids : PollEvent(id)
  \/ PollReturn
  \/ Dispatch
  \/ \E c \in Cos : Run(c) \/ (Fork(c) /\ UNCHANGED poll_vars)

Next == Step /\ UNCHANGED fault

Spec == Init /\ [][Next]_vars

-----------------------------------------------------------------------------
OnItsWay(id, types) == \E i \in DOMAIN batch : batch[i] \in [type : types, id : {id}]

(***************************************************************************)
(* A coroutine that waits is not forgotten: the pool names it for its      *)
(* socket, and the socket is still the connection it means and is watched  *)
(* for what it waits for, or an event that ends the wait is on its way.    *)
(***************************************************************************)
WaiterKept ==
  fault = "none" => \A c \in Cos : cst[c] \in {"connect", "read"} =>
    LET id == own[c].id IN
    /\ pool[id] # NoEntry
    /\ pool[id].co = c
    /\ \/ sock[id].conn = own[c].conn /\ sock[id].rd
       \/ OnItsWay(id, {"CONNERR"})
       \/ cst[c] = "connect" /\ OnItsWay(id, {"CONNECT", "CONN_THEN_READ"})

(***************************************************************************)
(* A handler resumes a coroutine only with the answer it waits for: the    *)
(* event is of its socket, read after read and connect after connect, and  *)
(* data is of the connection it means.                                     *)
(***************************************************************************)
RightAnswer ==
  [][\A c \in Cos :
       /\ fault \in {"none", "sockerr", "enable"}
       /\ cst[c] \in {"connect", "read"}
       /\ cst'[c] = "running"
       => /\ Head(batch).id = own[c].id
          /\ cst[c] = "read" <=> Head(batch).type = "READ"
          /\ got'[c].kind = "data" => got'[c].conn = own[c].conn]_vars

(***************************************************************************)
(* A coroutine that runs finds its socket in the pool under its own name,  *)
(* and in the buffer only data of the connection it means: nothing is left *)
(* there of the connection that had the slot before.                       *)
(***************************************************************************)
OwnSocket ==
  fault \in {"none", "enable"} =>
    \A c \in Cos : cst[c] = "running" /\ own[c].id # 0 =>
      LET id == own[c].id IN
      /\ pool[id] # NoEntry
      /\ pool[id].co = c
      /\ pool[id].buf # NoBuffer =>
           \A i \in DOMAIN pool[id].buf : pool[id].buf[i] = own[c].conn

(***************************************************************************)
(* assert(s) in disconnect (lib/socket.lua:18): whoever ends a connection  *)
(* names one that is in the pool.                                          *)
(***************************************************************************)
DisconnectFindsSocket == "disconnect" \notin failed
=============================================================================
