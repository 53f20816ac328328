------------------------- MODULE LuaSocket_proofs -------------------------
(***************************************************************************)
(* The layer of coroutines keeps its promises for every number of slots,   *)
(* coroutines, connections and units of data.                              *)
(*                                                                         *)
(* LuaInv has two parts.  TableInv is kept whatever goes wrong: types, the *)
(* free list, the stack of the coroutines that run.  The rest is kept      *)
(* under the faults that the layer survives (Tame): one event at most for  *)
(* a slot, and OwnersInv, which says of every entry of the pool, of every  *)
(* coroutine and of every event on its way which connection it is about.   *)
(***************************************************************************)
EXTENDS LuaSocket, QueueLemmas

(* The faults under which an event is of the connection that the slot holds. *)
Tame == fault \in {"none", "sockerr", "enable"}
(* The faults under which, besides, no connection ends behind the back of
   its coroutine. *)
Calm == fault \in {"none", "enable"}

(* The pool has an entry for a slot; a slot is connected for connection n. *)
Has(id) == pool[id] # NoEntry
Connected(id, n) == sock[id].st = "connected" /\ sock[id].conn = n

(* The type of the event for a slot that is left in the batch. *)
Told(id) ==
  IF \E i \in DOMAIN batch : batch[i].id = id
  THEN batch[CHOOSE i \in DOMAIN batch : batch[i].id = id].type ELSE "none"
told == [id \in Ids |-> Told(id)]

(* The free slots are those of the list. *)
FreeIsListed ==
  \A id \in Ids : sock[id].st = "free" <=> \E i \in DOMAIN free : free[i] = id
(* A slot in use holds a connection, and only such a slot has data queued. *)
SlotsHold == \A id \in Ids :
  /\ sock[id].st \in {"connecting", "connected", "halfclose"} => sock[id].conn # NoConn
  /\ sock[id].queued => sock[id].st \in {"connecting", "connected", "halfclose"}
Slot == [st : {"free", "listen", "connecting", "connected", "halfclose"},
         rd : BOOLEAN, queued : BOOLEAN, conn : 0 .. MaxConns]
(* The C library. *)
CTable ==
  /\ sock \in [Ids -> Slot] /\ conns \in 0 .. MaxConns
  /\ free \in Seq(Ids) /\ IsInjective(free)
  /\ FreeIsListed /\ SlotsHold

(* The poll, in which no coroutine runs. *)
PollTable ==
  /\ phase \in {"poll", "dispatch"} /\ polled \subseteq Ids /\ batch \in Seq(Event)
  /\ phase = "poll" => stack = <<>>

PoolTable == pool \in [Ids -> {NoEntry} \cup Entry]

(* The coroutines that run are those of the stack. *)
RunningStacked ==
  \A c \in Cos : cst[c] = "running" <=> \E i \in DOMAIN stack : stack[i] = c
Owns == {o \in [id : 0 .. cmax, conn : 0 .. MaxConns, rd : BOOLEAN] : o.rd => o.id # 0}
(* The coroutines.  One that has not begun has no socket, one that reads has
   asked for read events. *)
CoTable ==
  /\ stack \in Seq(Cos) /\ IsInjective(stack)
  /\ cst \in [Cos -> {"fresh", "running", "connect", "read", "dead"}]
  /\ own \in [Cos -> Owns] /\ got \in [Cos -> Result]
  /\ RunningStacked
  /\ \A c \in Cos : cst[c] = "fresh" => own[c] = NoSocket
  /\ \A c \in Cos : cst[c] = "read" => own[c].rd

(* The batch has one event at most for a slot. *)
OneEventEach == \A i, j \in DOMAIN batch : batch[i].id = batch[j].id => i = j
(* A slot that is still to be polled is in use, and has no event yet. *)
PolledOnce ==
  phase = "poll" =>
    \A id \in Ids : id \notin polled => sock[id].st # "free" /\ told[id] = "none"
(* The coroutine of an entry has begun, and uses the slot unless it has died.
   A slot with an entry is no listener and not half closed; it is in use or
   its refusal is on its way, and its buffer is of the connection it holds. *)
Entered(id) ==
  /\ cst[pool[id].co] # "fresh"
  /\ cst[pool[id].co] # "dead" => own[pool[id].co].id = id
  /\ sock[id].st \notin {"listen", "halfclose"}
  /\ Calm => /\ sock[id].st # "free" \/ told[id] = "CONNERR"
             /\ pool[id].buf # NoBuffer =>
                  \A i \in DOMAIN pool[id].buf : pool[id].buf[i] = sock[id].conn
EntriesOK == \A id \in Ids : Has(id) => Entered(id)
(* A coroutine that runs owns the entry of its socket, and the socket is
   connected, with the subscription it has asked for. *)
Runner(c) ==
  /\ Has(own[c].id) /\ pool[own[c].id].co = c
  /\ Connected(own[c].id, own[c].conn)
  /\ fault = "none" => sock[own[c].id].rd = own[c].rd
RunningOK == \A c \in Cos : cst[c] = "running" /\ own[c].id # 0 => Runner(c)
(* A coroutine that waits for a connect owns the entry, and the connect is
   in progress or its event on its way; nobody else connects. *)
Connects(c) ==
  /\ own[c].id \in Ids /\ Has(own[c].id) /\ pool[own[c].id].co = c
  /\ ~own[c].rd
  /\ Calm => pool[own[c].id].buf = NoBuffer
  /\ \/ /\ sock[own[c].id].st = "connecting" /\ sock[own[c].id].conn = own[c].conn
        /\ sock[own[c].id].rd /\ told[own[c].id] = "none"
     \/ told[own[c].id] \in {"CONNECT", "CONN_THEN_READ", "CONNERR"}
ConnectsOK == \A c \in Cos : cst[c] = "connect" => Connects(c)
ConnectingSlots ==
  \A id \in Ids : sock[id].st = "connecting" => Has(id) /\ cst[pool[id].co] = "connect"
ConnectingOK == ConnectsOK /\ ConnectingSlots
(* What an event tells is still so when it is dispatched. *)
AcceptsOK == \A id \in Ids : told[id] = "ACCEPT" =>
  /\ sock[id].st = "connected" /\ ~sock[id].rd /\ ~sock[id].queued
  /\ Has(id) => ~Calm /\ cst[pool[id].co] \in {"dead", "read"}
ConnectedOK == \A id \in Ids : told[id] \in {"CONNECT", "CONN_THEN_READ"} =>
  /\ Has(id) /\ cst[pool[id].co] = "connect"
  /\ Connected(id, own[pool[id].co].conn) /\ ~sock[id].rd
ErrorsOK == \A id \in Ids :
  /\ told[id] = "CONNERR" =>
       Has(id) /\ cst[pool[id].co] = "connect" /\ sock[id].st = "free"
  /\ told[id] = "SOCKERR" => ~Calm /\ sock[id].st = "free"
EventsOK == AcceptsOK /\ ConnectedOK /\ ErrorsOK
(* The slot of a reader to whom the end of the connection is not told: what
   OnSockErr leaves of it, or the next connection on that slot. *)
Lost(id) ==
  /\ fault = "sockerr"
  /\ \/ sock[id].st = "free"
     \/ sock[id].st = "connected" /\ ~sock[id].rd /\ ~sock[id].queued
  /\ told[id] \in {"none", "SOCKERR", "ACCEPT"}
(* A coroutine that reads owns the entry, the buffer is empty and the socket
   is the connection it means; or, with socket errors, it is lost. *)
Reader(id) ==
  \/ /\ Connected(id, own[pool[id].co].conn) /\ pool[id].buf = <<>>
     /\ told[id] # "ACCEPT"
     /\ fault = "none" => sock[id].rd
  \/ Lost(id)
ReadersOK == \A id \in Ids : Has(id) /\ cst[pool[id].co] = "read" => Reader(id)
ReadersOwn == Calm => \A c \in Cos : cst[c] = "read" =>
  own[c].id \in Ids /\ Has(own[c].id) /\ pool[own[c].id].co = c
ReadingOK == ReadersOK /\ ReadersOwn

(* What holds under every fault. *)
TableInv ==
  /\ fault \in Faults /\ failed \subseteq {"disconnect", "wakeup", "pool"}
  /\ CTable /\ PollTable /\ PoolTable /\ CoTable
(* What holds under the faults of Tame. *)
OwnersInv == EntriesOK /\ RunningOK /\ ConnectingOK /\ EventsOK /\ ReadingOK
(* The inductive invariant. *)
LuaInv == TableInv /\ (Tame => OneEventEach /\ PolledOnce /\ OwnersInv)

-----------------------------------------------------------------------------
(* TypeOK is part of the invariant. *)
LEMMA TableTyped == TableInv => TypeOK
  BY DEF TableInv, TypeOK, CTable, PollTable, PoolTable, CoTable, Slot, Owns

(* _create_socket takes the head of the free list. *)
LEMMA CreateTable ==
  ASSUME CTable, NEW id, NEW st \in {"connecting", "connected"}, NEW rd \in BOOLEAN,
         Create(id, st, rd)
  PROVE  /\ CTable'
         /\ id \in Ids /\ sock[id].st = "free"
         /\ conns + 1 \in 1 .. MaxConns
         /\ sock' = [sock EXCEPT ![id] = [st |-> st, rd |-> rd, queued |-> FALSE,
                                          conn |-> conns + 1]]
<1> USE LuaSocketAssumption
<1>1. /\ Tail(free) \in Seq(Ids) /\ Len(Tail(free)) = Len(free) - 1
      /\ Len(free) \in Nat \ {0} /\ free[1] \in Ids /\ Head(free) = free[1]
      /\ \A i \in 1 .. Len(free) - 1 : Tail(free)[i] = free[i+1]
  BY TailOfQueue DEF CTable, Create
<1>2. DOMAIN free = 1 .. Len(free) /\ DOMAIN Tail(free) = 1 .. Len(free) - 1
  BY <1>1, LenProperties DEF CTable
<1>3. id \in Ids /\ sock[id].st = "free"
  BY <1>1, <1>2 DEF CTable, FreeIsListed, Create
<1>4. conns + 1 \in 1 .. MaxConns
  BY DEF CTable, Create
<1>5. [st |-> st, rd |-> rd, queued |-> FALSE, conn |-> conns + 1] \in Slot
  BY <1>4 DEF Slot
<1>6. sock' \in [Ids -> Slot] /\ conns' \in 0 .. MaxConns
  BY <1>3, <1>4, <1>5 DEF CTable, Create
<1>7. free' \in Seq(Ids) /\ IsInjective(free')
  BY <1>1, <1>2 DEF CTable, Create, IsInjective
<1>8. FreeIsListed'
  <2> SUFFICES ASSUME NEW x \in Ids
               PROVE  sock'[x].st = "free" <=> \E i \in DOMAIN free' : free'[i] = x
    BY DEF FreeIsListed
  <2>1. CASE x = id
    <3>1. sock'[x].st # "free"
      BY <2>1, <1>3 DEF CTable, Create
    <3>2. \A i \in 1 .. Len(free) - 1 : free[i+1] # free[1]
      BY <1>1, <1>2 DEF CTable, IsInjective
    <3>3. id = free[1] /\ free' = Tail(free)
      BY <1>1 DEF Create
    <3>4. \A i \in DOMAIN free' : free'[i] # x
      BY <3>2, <3>3, <2>1, <1>1, <1>2
    <3> QED
      BY <3>1, <3>4
  <2>2. CASE x # id
    <3>1. sock'[x] = sock[x]
      BY <2>2 DEF CTable, Create
    <3>2. (\E i \in 1 .. Len(free) : free[i] = x) <=> \E i \in 1 .. Len(free) - 1 : free[i+1] = x
      <4>1. ASSUME NEW i \in 1 .. Len(free), free[i] = x
            PROVE  \E j \in 1 .. Len(free) - 1 : free[j+1] = x
        <5>1. i - 1 \in 1 .. Len(free) - 1 /\ free[(i - 1) + 1] = x
          BY <4>1, <2>2, <1>1 DEF Create
        <5> QED
          BY <5>1
      <4>2. ASSUME NEW j \in 1 .. Len(free) - 1, free[j+1] = x
            PROVE  \E i \in 1 .. Len(free) : free[i] = x
        BY <4>2, <1>1
      <4> QED
        BY <4>1, <4>2
    <3>3. DOMAIN free' = 1 .. Len(free) - 1 /\ \A i \in 1 .. Len(free) - 1 : free'[i] = free[i+1]
      BY <1>1, <1>2 DEF Create
    <3>4. (\E i \in DOMAIN free' : free'[i] = x) <=> \E i \in 1 .. Len(free) - 1 : free[i+1] = x
      BY <3>3
    <3>5. sock[x].st = "free" <=> \E i \in 1 .. Len(free) : free[i] = x
      BY <1>2 DEF CTable, FreeIsListed
    <3> QED
      BY <3>1, <3>2, <3>4, <3>5
  <2> QED
    BY <2>1, <2>2
<1>9. SlotsHold'
  BY <1>3, <1>4 DEF CTable, Create, SlotsHold, NoConn
<1> QED
  BY <1>3, <1>4, <1>6, <1>7, <1>8, <1>9 DEF CTable, Create

(* _close_socket gives a slot back, and leaves a free slot alone. *)
LEMMA CloseTable ==
  ASSUME CTable, NEW id \in Ids, CClose(id)
  PROVE  CTable' /\ sock' = [sock EXCEPT ![id] = FreeSlot]
<1> USE LuaSocketAssumption
<1>1. FreeSlot \in Slot /\ FreeSlot.st = "free" /\ FreeSlot.queued = FALSE
  BY DEF FreeSlot, Slot, NoConn
<1>2. sock' \in [Ids -> Slot] /\ conns' \in 0 .. MaxConns
  BY <1>1 DEF CTable, CClose
<1>3. SlotsHold'
  BY <1>1 DEF CTable, CClose, SlotsHold
<1>4. CASE sock[id].st = "free"
  <2>1. free' = free
    BY <1>4 DEF CClose
  <2>2. FreeIsListed'
    BY <2>1, <1>4, <1>1 DEF CTable, CClose, FreeIsListed
  <2> QED
    BY <1>2, <1>3, <2>1, <2>2 DEF CTable, CClose
<1>5. CASE sock[id].st # "free"
  <2>1. /\ free' = Append(free, id) /\ Append(free, id) \in Seq(Ids)
        /\ Len(Append(free, id)) = Len(free) + 1 /\ Len(free) \in Nat
        /\ \A i \in 1 .. Len(free) : Append(free, id)[i] = free[i]
        /\ Append(free, id)[Len(free) + 1] = id
    BY <1>5, AppendToQueue DEF CClose, CTable
  <2>2. DOMAIN free = 1 .. Len(free) /\ DOMAIN free' = 1 .. Len(free) + 1
    BY <2>1, LenProperties DEF CTable
  <2>3. \A i \in 1 .. Len(free) : free[i] # id
    BY <1>5, <2>2 DEF CTable, FreeIsListed
  <2>4. IsInjective(free')
    BY <2>1, <2>2, <2>3 DEF CTable, IsInjective
  <2>5. FreeIsListed'
    <3> SUFFICES ASSUME NEW x \in Ids
                 PROVE  sock'[x].st = "free" <=> \E i \in DOMAIN free' : free'[i] = x
      BY DEF FreeIsListed
    <3>1. CASE x = id
      BY <3>1, <2>1, <2>2, <1>1 DEF CTable, CClose
    <3>2. CASE x # id
      <4>1. sock'[x] = sock[x]
        BY <3>2 DEF CTable, CClose
      <4>2. (\E i \in DOMAIN free' : free'[i] = x) <=> \E i \in 1 .. Len(free) : free[i] = x
        BY <3>2, <2>1, <2>2
      <4> QED
        BY <4>1, <4>2, <2>2 DEF CTable, FreeIsListed
    <3> QED
      BY <3>1, <3>2
  <2> QED
    BY <1>2, <1>3, <2>1, <2>4, <2>5 DEF CTable, CClose
<1> QED
  BY <1>4, <1>5 DEF CClose

(* A slot that is taken and given back goes to the end of the free list. *)
LEMMA CreateThenCloseTable ==
  ASSUME CTable, CreateThenClose
  PROVE  CTable' /\ UNCHANGED sock
<1>1. /\ Tail(free) \in Seq(Ids) /\ Len(Tail(free)) = Len(free) - 1
      /\ Len(free) \in Nat \ {0} /\ free[1] \in Ids /\ Head(free) = free[1]
      /\ \A i \in 1 .. Len(free) - 1 : Tail(free)[i] = free[i+1]
  BY TailOfQueue DEF CTable, CreateThenClose
<1>2. /\ free' \in Seq(Ids) /\ Len(free') = Len(free)
      /\ \A i \in 1 .. Len(free) - 1 : free'[i] = free[i+1]
      /\ free'[Len(free)] = free[1]
  <2>1. PICK q \in Seq(Ids), e \in Ids : q = Tail(free) /\ e = free[1]
    BY <1>1
  <2>2. free' = Append(q, e)
    BY <1>1, <2>1 DEF CreateThenClose
  <2>3. /\ Append(q, e) \in Seq(Ids) /\ Len(Append(q, e)) = Len(q) + 1 /\ Len(q) \in Nat
        /\ \A i \in 1 .. Len(q) : Append(q, e)[i] = q[i]
        /\ Append(q, e)[Len(q) + 1] = e
    BY AppendToQueue
  <2> QED
    BY <1>1, <2>1, <2>2, <2>3
<1>3. DOMAIN free = 1 .. Len(free) /\ DOMAIN free' = 1 .. Len(free)
  BY <1>1, <1>2, LenProperties DEF CTable
<1>4. IsInjective(free')
  <2> DEFINE From(i) == IF i = Len(free) THEN 1 ELSE i + 1
  <2>1. Len(free) \in Nat \ {0}
    BY <1>1
  <2>2. \A i \in 1 .. Len(free) : From(i) \in 1 .. Len(free)
    BY <2>1
  <2>3. \A i, j \in 1 .. Len(free) : From(i) = From(j) => i = j
    BY <2>1
  <2>4. \A i \in 1 .. Len(free) : free'[i] = free[From(i)]
    <3> SUFFICES ASSUME NEW i \in 1 .. Len(free), i # Len(free)
                 PROVE  free'[i] = free[i + 1]
      BY <1>2
    <3>1. i \in 1 .. Len(free) - 1
      BY <2>1
    <3> QED
      BY <3>1, <1>2
  <2> HIDE DEF From
  <2>5. \A i, j \in 1 .. Len(free) : free[i] = free[j] => i = j
    BY <1>3 DEF CTable, IsInjective
  <2> QED
    BY <1>3, <2>2, <2>3, <2>4, <2>5 DEF IsInjective
<1>5. FreeIsListed'
  <2> SUFFICES ASSUME NEW x \in Ids
               PROVE  sock'[x].st = "free" <=> \E i \in DOMAIN free' : free'[i] = x
    BY DEF FreeIsListed
  <2>1. ASSUME NEW i \in 1 .. Len(free), free[i] = x
        PROVE  \E j \in 1 .. Len(free) : free'[j] = x
    <3>1. CASE i = 1
      BY <3>1, <2>1, <1>1, <1>2
    <3>2. CASE i # 1
      <4>1. i - 1 \in 1 .. Len(free) - 1 /\ i - 1 \in 1 .. Len(free) /\ (i - 1) + 1 = i
        BY <3>2, <1>1
      <4>2. free'[i - 1] = free[(i - 1) + 1]
        BY <4>1, <1>2
      <4> QED
        BY <4>1, <4>2, <2>1
    <3> QED
      BY <3>1, <3>2
  <2>2. ASSUME NEW i \in 1 .. Len(free), free'[i] = x
        PROVE  \E j \in 1 .. Len(free) : free[j] = x
    <3>1. CASE i = Len(free)
      <4>1. free'[Len(free)] = x
        BY <3>1, <2>2
      <4>2. free[1] = x /\ 1 \in 1 .. Len(free)
        BY <4>1, <1>1, <1>2
      <4> QED
        BY <4>2
    <3>2. CASE i # Len(free)
      <4>0. Len(free) \in Nat
        BY <1>1
      <4>1. i \in 1 .. Len(free) - 1 /\ i + 1 \in 1 .. Len(free)
        BY <3>2, <4>0
      <4>2. free[i + 1] = x
        BY <4>1, <2>2, <1>2
      <4> QED
        BY <4>1, <4>2
    <3> QED
      BY <3>1, <3>2
  <2>3. sock'[x].st = "free" <=> \E i \in 1 .. Len(free) : free[i] = x
    BY <1>3 DEF CTable, FreeIsListed, CreateThenClose
  <2> QED
    BY <1>3, <2>1, <2>2, <2>3
<1> QED
  BY <1>2, <1>4, <1>5 DEF CTable, SlotsHold, CreateThenClose

(* What changes no slot from or to free keeps the table. *)
LEMMA SlotChange ==
  ASSUME CTable, UNCHANGED <<free, conns>>, sock' \in [Ids -> Slot],
         \A x \in Ids : sock[x].st = "free" <=> sock'[x].st = "free",
         SlotsHold'
  PROVE  CTable'
  BY DEF CTable, FreeIsListed


(* lclose keeps the table. *)
LEMMA CloseCallTable ==
  ASSUME CTable, NEW id \in Ids, NEW force \in BOOLEAN, CCloseCall(id, force)
  PROVE  CTable'
<1>1. CASE CClose(id)
  BY <1>1, CloseTable
<1>2. CASE /\ sock[id].queued /\ sock' = [sock EXCEPT ![id].st = "halfclose"]
           /\ UNCHANGED <<free, conns>>
  <2>1. sock[id].st \in {"connecting", "connected", "halfclose"}
    BY <1>2 DEF CTable, SlotsHold
  <2>2. sock' \in [Ids -> Slot]
    BY <1>2 DEF CTable, Slot
  <2>3. SlotsHold'
    BY <1>2, <2>1 DEF CTable, SlotsHold, Slot
  <2>4. \A x \in Ids : sock[x].st = "free" <=> sock'[x].st = "free"
    BY <1>2, <2>1 DEF CTable, Slot
  <2> QED
    BY <1>2, <2>2, <2>3, <2>4, SlotChange
<1> QED
  BY <1>1, <1>2 DEF CCloseCall

(* lreadenable keeps the table. *)
LEMMA ReadEnableTable ==
  ASSUME CTable, NEW id \in Ids, NEW enable \in BOOLEAN, CReadEnable(id, enable)
  PROVE  CTable'
<1>1. CASE UNCHANGED sock
  BY <1>1, SlotChange DEF CReadEnable, CTable, SlotsHold
<1>2. CASE sock' = [sock EXCEPT ![id].rd = enable]
  <2>1. sock' \in [Ids -> Slot]
    BY <1>2 DEF CTable, Slot
  <2>2. SlotsHold' /\ \A x \in Ids : sock[x].st = "free" <=> sock'[x].st = "free"
    BY <1>2 DEF CTable, SlotsHold, Slot
  <2> QED
    BY <2>1, <2>2, SlotChange DEF CReadEnable
<1> QED
  BY <1>1, <1>2 DEF CReadEnable

(* lsend keeps the table. *)
LEMMA SendTable ==
  ASSUME CTable, NEW id \in Ids, CSend(id)
  PROVE  CTable'
<1>1. CASE UNCHANGED c_vars
  BY <1>1, SlotChange DEF c_vars, CTable, SlotsHold
<1>2. CASE CClose(id)
  BY <1>2, CloseTable
<1>3. ASSUME NEW queued \in {sock[id].queued \/ sock[id].st = "connecting", TRUE},
             sock[id].st \in {"connecting", "connected"},
             sock' = [sock EXCEPT ![id].queued = queued], UNCHANGED <<free, conns>>
      PROVE  CTable'
  <2>1. queued \in BOOLEAN
    BY <1>3
  <2>2. sock' \in [Ids -> Slot]
    BY <1>3, <2>1 DEF CTable, Slot
  <2>3. SlotsHold' /\ \A x \in Ids : sock[x].st = "free" <=> sock'[x].st = "free"
    BY <1>3, <2>1 DEF CTable, SlotsHold, Slot
  <2> QED
    BY <2>2, <2>3, <1>3, SlotChange
<1> QED
  BY <1>1, <1>2, <1>3 DEF CSend

(* The end of a connect keeps the table. *)
LEMMA PollConnectTable ==
  ASSUME CTable, NEW id \in Ids, sock[id].st = "connecting", PollConnect(id)
  PROVE  CTable'
<1>1. CASE CClose(id)
  BY <1>1, CloseTable
<1>2. CASE /\ sock' = [sock EXCEPT ![id].st = "connected", ![id].rd = FALSE]
           /\ UNCHANGED <<free, conns>>
  <2>1. sock' \in [Ids -> Slot]
    BY <1>2 DEF CTable, Slot
  <2>2. SlotsHold' /\ \A x \in Ids : sock[x].st = "free" <=> sock'[x].st = "free"
    BY <1>2 DEF CTable, SlotsHold, Slot
  <2> QED
    BY <2>1, <2>2, <1>2, SlotChange
<1> QED
  BY <1>1, <1>2 DEF PollConnect

(* What a poll does to a connected socket keeps the table. *)
LEMMA PollDataTable ==
  ASSUME CTable, NEW id \in Ids, PollData(id)
  PROVE  CTable'
<1>1. CASE CClose(id)
  BY <1>1, CloseTable
<1>2. CASE UNCHANGED <<sock, free, conns>>
  BY <1>2, SlotChange DEF CTable, SlotsHold
<1>3. CASE sock' = [sock EXCEPT ![id].queued = FALSE] /\ UNCHANGED <<free, conns>>
  <2>1. sock' \in [Ids -> Slot]
    BY <1>3 DEF CTable, Slot
  <2>2. SlotsHold' /\ \A x \in Ids : sock[x].st = "free" <=> sock'[x].st = "free"
    BY <1>3 DEF CTable, SlotsHold, Slot
  <2> QED
    BY <2>1, <2>2, <1>3, SlotChange
<1> QED
  BY <1>1, <1>2, <1>3 DEF PollData

(* Only what a call has returned changes. *)
LEMMA CoSame ==
  ASSUME CoTable, UNCHANGED <<stack, cst, own>>, got' \in [Cos -> Result]
  PROVE  CoTable'
  BY DEF CoTable, RunningStacked

(* No socket is a way to own one. *)
LEMMA NoSocketOwns == NoSocket \in Owns
  BY LuaSocketAssumption DEF NoSocket, Owns, NoConn

(* wakeup keeps the coroutines well formed. *)
LEMMA WakeupTable ==
  ASSUME CoTable, stack = <<>>, failed \subseteq {"disconnect", "wakeup", "pool"},
         NEW c \in Cos, NEW result \in Result, Wakeup(c, result)
  PROVE  CoTable' /\ failed' \subseteq {"disconnect", "wakeup", "pool"}
<1>1. CASE UNCHANGED co_vars /\ failed' = failed \cup {"wakeup"}
  BY <1>1, CoSame DEF co_vars, CoTable
<1>2. CASE /\ cst[c] \in {"connect", "read"}
           /\ cst' = [cst EXCEPT ![c] = "running"]
           /\ stack' = <<c>>
           /\ got' = [got EXCEPT ![c] = result]
           /\ own' = IF result.kind = "error" THEN [own EXCEPT ![c] = NoSocket] ELSE own
           /\ UNCHANGED failed
  <2>1. stack' \in Seq(Cos) /\ IsInjective(stack')
    BY <1>2 DEF IsInjective
  <2>2. own' \in [Cos -> Owns] /\ got' \in [Cos -> Result]
    BY <1>2, NoSocketOwns DEF CoTable
  <2>3. \A x \in Cos : cst[x] # "running"
    BY DEF CoTable, RunningStacked
  <2>4. RunningStacked'
    BY <1>2, <2>3 DEF CoTable, RunningStacked
  <2>5. \A x \in Cos : (cst'[x] = "fresh" => own'[x] = NoSocket)
                       /\ (cst'[x] = "read" => own'[x].rd)
    BY <1>2 DEF CoTable
  <2> QED
    BY <1>2, <2>1, <2>2, <2>4, <2>5 DEF CoTable
<1> QED
  BY <1>1, <1>2 DEF Wakeup

(* The coroutine that runs is on top of the stack. *)
LEMMA StackTop ==
  ASSUME CoTable, NEW c, Runs(c)
  PROVE  /\ c \in Cos /\ cst[c] = "running" /\ phase = "dispatch" /\ stack # <<>>
         /\ DOMAIN stack = 1 .. Len(stack) /\ Len(stack) \in Nat \ {0}
         /\ c = stack[Len(stack)]
<1>1. Len(stack) \in Nat \ {0} /\ DOMAIN stack = 1 .. Len(stack)
  BY EmptySeq, LenProperties DEF CoTable, Runs
<1>2. c \in Cos
  BY <1>1, ElementOfSeq DEF CoTable, Runs
<1> QED
  BY <1>1, <1>2 DEF CoTable, RunningStacked, Runs

(* A coroutine that waits or ends leaves the stack. *)
LEMMA YieldTable ==
  ASSUME CoTable, NEW c, Runs(c), NEW st \in {"connect", "read", "dead"}, Yield(c, st),
         own' \in [Cos -> Owns], got' \in [Cos -> Result],
         \A x \in Cos : x # c => own'[x] = own[x], st = "read" => own'[c].rd
  PROVE  CoTable'
<1> DEFINE n == Len(stack)
<1>1. /\ c \in Cos /\ DOMAIN stack = 1 .. n /\ n \in Nat \ {0} /\ c = stack[n]
      /\ cst[c] = "running"
  BY StackTop
<1>2. /\ stack' \in Seq(Cos) /\ DOMAIN stack' = 1 .. n - 1
      /\ \A i \in 1 .. n - 1 : stack'[i] = stack[i]
  <2>1. stack' = SubSeq(stack, 1, n - 1) /\ stack \in Seq(Cos)
    BY DEF Yield, CoTable
  <2> QED
    BY <2>1, <1>1, SubSeqProperties, LenProperties
<1>3. IsInjective(stack')
  BY <1>1, <1>2 DEF CoTable, IsInjective
<1>4. cst' = [cst EXCEPT ![c] = st]
  BY DEF Yield
<1>5. RunningStacked'
  <2> SUFFICES ASSUME NEW x \in Cos
               PROVE  cst'[x] = "running" <=> \E i \in DOMAIN stack' : stack'[i] = x
    BY DEF RunningStacked
  <2>1. CASE x = c
    <3>1. \A i \in 1 .. n - 1 : stack[i] # stack[n]
      BY <1>1 DEF CoTable, IsInjective
    <3>2. cst'[x] # "running"
      BY <2>1, <1>1, <1>4 DEF CoTable
    <3> QED
      BY <2>1, <3>1, <3>2, <1>1, <1>2
  <2>2. CASE x # c
    <3>1. cst'[x] = cst[x]
      BY <2>2, <1>4 DEF CoTable
    <3>2. (\E i \in 1 .. n : stack[i] = x) <=> \E i \in 1 .. n - 1 : stack[i] = x
      BY <2>2, <1>1
    <3>3. (\E i \in DOMAIN stack' : stack'[i] = x) <=> \E i \in 1 .. n - 1 : stack[i] = x
      BY <1>2
    <3>4. cst[x] = "running" <=> \E i \in 1 .. n : stack[i] = x
      BY <1>1 DEF CoTable, RunningStacked
    <3> QED
      BY <3>1, <3>2, <3>3, <3>4
  <2> QED
    BY <2>1, <2>2
<1>6. \A x \in Cos : (cst'[x] = "fresh" => own'[x] = NoSocket)
                     /\ (cst'[x] = "read" => own'[x].rd)
  BY <1>1, <1>4 DEF CoTable
<1>7. cst' \in [Cos -> {"fresh", "running", "connect", "read", "dead"}]
  BY <1>4 DEF CoTable
<1> QED
  BY <1>2, <1>3, <1>5, <1>6, <1>7 DEF CoTable

(* A coroutine that is started enters the stack. *)
LEMMA ResumeTable ==
  ASSUME CoTable, NEW c \in Cos, Resume(c), own' \in [Cos -> Owns], UNCHANGED got,
         \A x \in Cos : cst[x] \in {"fresh", "read"} /\ x # c => own'[x] = own[x]
  PROVE  CoTable'
<1> DEFINE n == Len(stack)
<1>1. /\ cst[c] = "fresh" /\ stack' = Append(stack, c)
      /\ cst' = [cst EXCEPT ![c] = "running"]
  BY DEF Resume
<1>2. /\ Append(stack, c) \in Seq(Cos) /\ Len(Append(stack, c)) = n + 1 /\ n \in Nat
      /\ \A i \in 1 .. n : Append(stack, c)[i] = stack[i]
      /\ Append(stack, c)[n + 1] = c
  BY AppendToQueue DEF CoTable
<1>3. DOMAIN stack = 1 .. n /\ DOMAIN stack' = 1 .. n + 1 /\ stack' \in Seq(Cos)
  BY <1>1, <1>2, LenProperties DEF CoTable
<1>4. \A i \in 1 .. n : stack[i] # c
  BY <1>1, <1>3 DEF CoTable, RunningStacked
<1>5. IsInjective(stack')
  BY <1>1, <1>2, <1>3, <1>4 DEF CoTable, IsInjective
<1>6. RunningStacked'
  <2> SUFFICES ASSUME NEW x \in Cos
               PROVE  cst'[x] = "running" <=> \E i \in DOMAIN stack' : stack'[i] = x
    BY DEF RunningStacked
  <2>1. CASE x = c
    BY <2>1, <1>1, <1>2, <1>3 DEF CoTable
  <2>2. CASE x # c
    <3>1. cst'[x] = cst[x]
      BY <2>2, <1>1 DEF CoTable
    <3>2. (\E i \in DOMAIN stack' : stack'[i] = x) <=> \E i \in 1 .. n : stack[i] = x
      BY <2>2, <1>1, <1>2, <1>3
    <3>3. cst[x] = "running" <=> \E i \in 1 .. n : stack[i] = x
      BY <1>3 DEF CoTable, RunningStacked
    <3> QED
      BY <3>1, <3>2, <3>3
  <2> QED
    BY <2>1, <2>2
<1>7. \A x \in Cos : (cst'[x] = "fresh" => own'[x] = NoSocket)
                     /\ (cst'[x] = "read" => own'[x].rd)
  BY <1>1 DEF CoTable
<1>8. cst' \in [Cos -> {"fresh", "running", "connect", "read", "dead"}] /\ got' \in [Cos -> Result]
  BY <1>1 DEF CoTable
<1> QED
  BY <1>3, <1>5, <1>6, <1>7, <1>8 DEF CoTable

(* A failed assertion empties the stack. *)
LEMMA DieTable ==
  ASSUME CoTable, NEW what, Die(what)
  PROVE  CoTable'
<1>1. stack' = <<>> /\ stack' \in Seq(Cos) /\ IsInjective(stack')
  BY DEF Die, IsInjective
<1>2. \A x \in Cos : cst'[x] = IF cst[x] = "running" THEN "dead" ELSE cst[x]
  BY DEF Die, CoTable, RunningStacked
<1>3. cst' \in [Cos -> {"fresh", "running", "connect", "read", "dead"}]
  BY DEF Die, CoTable
<1>4. RunningStacked'
  <2>1. DOMAIN stack' = {}
    BY <1>1
  <2>2. \A x \in Cos : cst'[x] # "running"
    BY <1>2
  <2> QED
    BY <2>1, <2>2 DEF RunningStacked
<1> QED
  BY <1>1, <1>2, <1>3, <1>4 DEF CoTable, Die

(* What the pool has for a slot is an entry. *)
LEMMA EntryTyped ==
  ASSUME PoolTable, NEW id \in Ids, pool[id] # NoEntry
  PROVE  /\ pool[id] \in Entry /\ pool[id].co \in Cos
         /\ pool[id].buf # NoBuffer => pool[id].buf \in Seq(1 .. MaxConns)
  BY DEF PoolTable, Entry

(* An entry is not the value that stands for none. *)
LEMMA NewEntry ==
  ASSUME NEW c \in Cos, NEW b \in {NoBuffer} \cup Seq(1 .. MaxConns)
  PROVE  [co |-> c, buf |-> b] \in Entry /\ [co |-> c, buf |-> b] # NoEntry
<1>1. [co |-> c, buf |-> b] \in Entry
  BY DEF Entry
<1>2. NoEntry \notin Entry
  BY LuaSocketAssumption DEF Entry
<1> QED
  BY <1>1, <1>2

(* Removing an entry keeps the pool typed. *)
LEMMA DropTable ==
  ASSUME PoolTable, NEW id \in Ids, pool' = [pool EXCEPT ![id] = NoEntry]
  PROVE  PoolTable'
  BY DEF PoolTable

(* Changing a buffer changes nothing else of the pool. *)
LEMMA RefillTable ==
  ASSUME PoolTable, NEW id \in Ids, pool[id] # NoEntry,
         NEW b \in {NoBuffer} \cup Seq(1 .. MaxConns),
         pool' = [pool EXCEPT ![id].buf = b]
  PROVE  /\ PoolTable' /\ pool'[id] # NoEntry
         /\ pool'[id].co = pool[id].co /\ pool'[id].buf = b
         /\ \A x \in Ids : x # id => pool'[x] = pool[x]
<1>1. pool[id] \in Entry /\ pool[id].co \in Cos
  BY EntryTyped
<1>2. pool'[id] = [pool[id] EXCEPT !.buf = b] /\ \A x \in Ids : x # id => pool'[x] = pool[x]
  BY DEF PoolTable
<1>3. pool'[id] \in Entry /\ pool'[id].co = pool[id].co /\ pool'[id].buf = b
  BY <1>1, <1>2 DEF Entry
<1>4. NoEntry \notin Entry
  BY LuaSocketAssumption DEF Entry
<1> QED
  BY <1>1, <1>2, <1>3, <1>4 DEF PoolTable

(* Naming another coroutine changes nothing else of the pool. *)
LEMMA RenameTable ==
  ASSUME PoolTable, NEW id \in Ids, pool[id] # NoEntry, NEW c \in Cos,
         pool' = [pool EXCEPT ![id].co = c]
  PROVE  /\ PoolTable' /\ pool'[id] # NoEntry
         /\ pool'[id].co = c /\ pool'[id].buf = pool[id].buf
         /\ \A x \in Ids : x # id => pool'[x] = pool[x]
<1>1. pool[id] \in Entry
  BY EntryTyped
<1>2. pool'[id] = [pool[id] EXCEPT !.co = c] /\ \A x \in Ids : x # id => pool'[x] = pool[x]
  BY DEF PoolTable
<1>3. pool'[id] \in Entry /\ pool'[id].co = c /\ pool'[id].buf = pool[id].buf
  BY <1>1, <1>2 DEF Entry
<1>4. NoEntry \notin Entry
  BY LuaSocketAssumption DEF Entry
<1> QED
  BY <1>1, <1>2, <1>3, <1>4 DEF PoolTable

(* start makes an entry or names another coroutine in it. *)
LEMMA StartTable ==
  ASSUME PoolTable, NEW id \in Ids, NEW c \in Cos, Start(id, c)
  PROVE  /\ PoolTable' /\ pool'[id] # NoEntry /\ pool'[id].co = c
         /\ pool'[id].buf = IF pool[id] = NoEntry THEN NoBuffer ELSE pool[id].buf
         /\ \A x \in Ids : x # id => pool'[x] = pool[x]
<1>1. CASE pool[id] = NoEntry
  <2>1. pool' = [pool EXCEPT ![id] = [co |-> c, buf |-> NoBuffer]]
    BY <1>1 DEF Start
  <2>2. [co |-> c, buf |-> NoBuffer] \in Entry /\ [co |-> c, buf |-> NoBuffer] # NoEntry
    BY NewEntry
  <2> QED
    BY <2>1, <2>2, <1>1 DEF PoolTable
<1>2. CASE pool[id] # NoEntry
  BY <1>2, RenameTable DEF Start
<1> QED
  BY <1>1, <1>2

(* What pop leaves of a buffer. *)
LEMMA BufferPop ==
  ASSUME NEW b \in Seq(1 .. MaxConns), b # <<>>
  PROVE  /\ Tail(b) \in Seq(1 .. MaxConns) /\ Head(b) = b[1] /\ Head(b) \in 1 .. MaxConns
         /\ 1 \in DOMAIN b
         /\ \A i \in DOMAIN Tail(b) : i + 1 \in DOMAIN b /\ Tail(b)[i] = b[i+1]
<1>1. /\ Tail(b) \in Seq(1 .. MaxConns) /\ Len(Tail(b)) = Len(b) - 1
      /\ Len(b) \in Nat \ {0} /\ b[1] \in 1 .. MaxConns /\ Head(b) = b[1]
      /\ \A i \in 1 .. Len(b) - 1 : Tail(b)[i] = b[i+1]
  BY TailOfQueue
<1>2. DOMAIN b = 1 .. Len(b) /\ DOMAIN Tail(b) = 1 .. Len(b) - 1
  BY <1>1, LenProperties
<1> QED
  BY <1>1, <1>2

(* What push adds to a buffer. *)
LEMMA BufferFill ==
  ASSUME NEW b \in Seq(1 .. MaxConns), NEW n \in Nat, NEW k \in 1 .. MaxConns
  PROVE  LET f == b \o [i \in 1 .. n |-> k] IN
         /\ f \in Seq(1 .. MaxConns)
         /\ \A i \in DOMAIN f : f[i] = k \/ \E j \in DOMAIN b : f[i] = b[j]
<1> DEFINE g == [i \in 1 .. n |-> k]
           f == b \o g
<1>1. g \in Seq(1 .. MaxConns) /\ Len(g) = n /\ \A i \in 1 .. n : g[i] = k
  <2>1. g \in [1 .. n -> 1 .. MaxConns]
    OBVIOUS
  <2>2. g \in Seq(1 .. MaxConns)
    BY <2>1, SeqDef
  <2> QED
    BY <2>1, <2>2, LenProperties
<1> HIDE DEF g
<1>2. /\ f \in Seq(1 .. MaxConns) /\ Len(f) = Len(b) + Len(g)
      /\ \A i \in 1 .. Len(b) + Len(g) :
           f[i] = IF i <= Len(b) THEN b[i] ELSE g[i - Len(b)]
  BY <1>1, ConcatProperties
<1> HIDE DEF f
<1>3. DOMAIN f = 1 .. Len(b) + n /\ DOMAIN b = 1 .. Len(b) /\ Len(b) \in Nat
  BY <1>1, <1>2, LenProperties
<1>4. \A i \in DOMAIN f : f[i] = k \/ \E j \in DOMAIN b : f[i] = b[j]
  <2> TAKE i \in DOMAIN f
  <2>1. CASE i <= Len(b)
    BY <2>1, <1>1, <1>2, <1>3
  <2>2. CASE i > Len(b)
    <3>1. i - Len(b) \in 1 .. n /\ f[i] = g[i - Len(b)]
      BY <2>2, <1>1, <1>2, <1>3
    <3> QED
      BY <3>1, <1>1
  <2> QED
    BY <2>1, <2>2, <1>3
<1> QED
  BY <1>2, <1>4 DEF f, g

-----------------------------------------------------------------------------
(* The batch holds events of slots. *)
LEMMA BatchTyped ==
  ASSUME batch \in Seq(Event)
  PROVE  /\ DOMAIN batch = 1 .. Len(batch) /\ Len(batch) \in Nat
         /\ \A i \in DOMAIN batch : batch[i] \in Event /\ batch[i].id \in Ids
                                    /\ batch[i].type \in Types
<1>1. DOMAIN batch = 1 .. Len(batch) /\ Len(batch) \in Nat
  BY LenProperties
<1>2. \A i \in DOMAIN batch : batch[i] \in Event
  BY <1>1, ElementOfSeq
<1> QED
  BY <1>1, <1>2 DEF Event

\* What told says, without the CHOOSE.
ToldRight ==
  /\ told \in [Ids -> Types \cup {"none"}]
  /\ \A i \in DOMAIN batch : told[batch[i].id] = batch[i].type
  /\ \A x \in Ids : told[x] = "none" <=> \A i \in DOMAIN batch : batch[i].id # x

(* While a slot has one event at most, told is right. *)
LEMMA ToldMeans == batch \in Seq(Event) /\ OneEventEach => ToldRight
<1> SUFFICES ASSUME batch \in Seq(Event), OneEventEach PROVE ToldRight
  OBVIOUS
<1>1. "none" \notin Types
  BY DEF Types
<1>2. ASSUME NEW id \in Ids, \A i \in DOMAIN batch : batch[i].id # id
      PROVE  told[id] = "none"
  BY <1>2 DEF told, Told
<1>3. ASSUME NEW i \in DOMAIN batch
      PROVE  batch[i].id \in Ids /\ told[batch[i].id] = batch[i].type
             /\ batch[i].type \in Types
  <2>1. batch[i].id \in Ids /\ batch[i].type \in Types
    BY BatchTyped
  <2> DEFINE j == CHOOSE j \in DOMAIN batch : batch[j].id = batch[i].id
  <2>2. j \in DOMAIN batch /\ batch[j].id = batch[i].id
    OBVIOUS
  <2>3. told[batch[i].id] = batch[j].type
    BY <2>1 DEF told, Told
  <2>4. j = i
    BY <2>2 DEF OneEventEach
  <2> QED
    BY <2>1, <2>3, <2>4
<1>4. \A id \in Ids : told[id] = "none" \/ told[id] \in Types
  BY <1>2, <1>3
<1>5. told \in [Ids -> Types \cup {"none"}]
  BY <1>4 DEF told
<1> QED
  BY <1>1, <1>2, <1>3, <1>5 DEF ToldRight

(* An event is added for a slot that has none. *)
LEMMA EmitTold ==
  ASSUME batch \in Seq(Event), OneEventEach, NEW id \in Ids, NEW type \in Types,
         told[id] = "none", Emit(type, id)
  PROVE  /\ OneEventEach' /\ told' = [told EXCEPT ![id] = type]
<1> DEFINE e == [type |-> type, id |-> id]
           n == Len(batch)
<1>1. e \in Event /\ e.type = type /\ e.id = id
  BY DEF Event
<1> HIDE DEF e
<1>2. /\ batch' = Append(batch, e) /\ Append(batch, e) \in Seq(Event)
      /\ Len(Append(batch, e)) = n + 1 /\ n \in Nat
      /\ \A i \in 1 .. n : Append(batch, e)[i] = batch[i]
      /\ Append(batch, e)[n + 1] = e
  BY <1>1, AppendToQueue DEF Emit, e
<1>3. DOMAIN batch = 1 .. n /\ DOMAIN batch' = 1 .. n + 1
  BY <1>2, LenProperties
<1>4. /\ told \in [Ids -> Types \cup {"none"}]
      /\ \A i \in DOMAIN batch : told[batch[i].id] = batch[i].type
      /\ \A x \in Ids : told[x] = "none" <=> \A i \in DOMAIN batch : batch[i].id # x
  BY ToldMeans DEF ToldRight
<1>5. /\ \A i \in 1 .. n : batch'[i] = batch[i] /\ batch[i].id # id
      /\ batch'[n + 1] = e
  BY <1>2, <1>3, <1>4
<1>6. OneEventEach'
  BY <1>1, <1>3, <1>5 DEF OneEventEach
<1>7. /\ told' \in [Ids -> Types \cup {"none"}]
      /\ \A i \in DOMAIN batch' : told'[batch'[i].id] = batch'[i].type
      /\ \A x \in Ids : told'[x] = "none" <=> \A i \in DOMAIN batch' : batch'[i].id # x
  <2>1. (batch \in Seq(Event) /\ OneEventEach => ToldRight)'
    BY ToldMeans, PTL
  <2>3. batch' \in Seq(Event)
    BY <1>2
  <2> QED
    BY <2>1, <2>3, <1>6 DEF ToldRight
<1>8. told'[id] = type
  <2>1. n + 1 \in DOMAIN batch'
    BY <1>2, <1>3
  <2> QED
    BY <2>1, <1>1, <1>5, <1>7
<1>9. ASSUME NEW x \in Ids, x # id
      PROVE  told'[x] = told[x]
  <2>1. CASE told[x] = "none"
    BY <2>1, <1>1, <1>3, <1>4, <1>5, <1>7, <1>9
  <2>2. CASE told[x] # "none"
    <3>1. PICK i \in DOMAIN batch : batch[i].id = x
      BY <2>2, <1>4
    <3>2. i \in DOMAIN batch' /\ batch'[i] = batch[i]
      BY <3>1, <1>2, <1>3, <1>5
    <3> QED
      BY <3>1, <3>2, <1>4, <1>7
  <2> QED
    BY <2>1, <2>2
<1> QED
  BY <1>4, <1>6, <1>7, <1>8, <1>9

\* What Tail leaves of the batch.
LEMMA BatchTail ==
  ASSUME batch \in Seq(Event), OneEventEach, batch # <<>>
  PROVE  /\ Tail(batch) \in Seq(Event) /\ Len(Tail(batch)) = Len(batch) - 1
         /\ Len(batch) \in Nat \ {0} /\ Head(batch) = batch[1]
         /\ batch[1] \in Event /\ batch[1].id \in Ids /\ batch[1].type \in Types
         /\ told[batch[1].id] = batch[1].type
         /\ \A i \in 1 .. Len(batch) - 1 : Tail(batch)[i] = batch[i+1]
         /\ DOMAIN batch = 1 .. Len(batch) /\ DOMAIN Tail(batch) = 1 .. Len(batch) - 1
         /\ \A i, j \in 1 .. Len(batch) : batch[i].id = batch[j].id => i = j
<1>1. /\ Tail(batch) \in Seq(Event) /\ Len(Tail(batch)) = Len(batch) - 1
      /\ Len(batch) \in Nat \ {0} /\ batch[1] \in Event /\ Head(batch) = batch[1]
      /\ \A i \in 1 .. Len(batch) - 1 : Tail(batch)[i] = batch[i+1]
  BY TailOfQueue
<1>2. DOMAIN batch = 1 .. Len(batch) /\ DOMAIN Tail(batch) = 1 .. Len(batch) - 1
  BY <1>1, LenProperties
<1>3. batch[1].id \in Ids /\ batch[1].type \in Types
  BY <1>1 DEF Event
<1>4. told[batch[1].id] = batch[1].type
  BY <1>1, <1>2, ToldMeans DEF ToldRight
<1> QED
  BY <1>1, <1>2, <1>3, <1>4 DEF OneEventEach

\* An event leaves the batch.
LEMMA TakeTold ==
  ASSUME batch \in Seq(Event), OneEventEach, batch # <<>>, batch' = Tail(batch)
  PROVE  /\ batch' \in Seq(Event) /\ OneEventEach'
         /\ told' = [told EXCEPT ![Head(batch).id] = "none"]
<1> DEFINE n == Len(batch)
           e == batch[1]
<1>1. /\ Tail(batch) \in Seq(Event) /\ n \in Nat \ {0} /\ e.id \in Ids /\ Head(batch) = e
      /\ \A i \in 1 .. n - 1 : Tail(batch)[i] = batch[i+1]
      /\ DOMAIN batch = 1 .. n /\ DOMAIN Tail(batch) = 1 .. n - 1
      /\ \A i, j \in 1 .. n : batch[i].id = batch[j].id => i = j
  BY BatchTail
<1>2. ToldRight
  BY ToldMeans
<1>3. /\ DOMAIN batch' = 1 .. n - 1
      /\ \A i \in 1 .. n - 1 : batch'[i] = batch[i+1] /\ i + 1 \in 1 .. n /\ i + 1 # 1
  BY <1>1
<1>4. OneEventEach'
  BY <1>1, <1>3 DEF OneEventEach
<1>5. ToldRight'
  <2>1. (batch \in Seq(Event) /\ OneEventEach => ToldRight)'
    BY ToldMeans, PTL
  <2> QED
    BY <1>1, <1>4, <2>1
<1>6. \A i \in 1 .. n - 1 : batch'[i].id # e.id
  BY <1>1, <1>3
<1>7. told'[e.id] = "none"
  BY <1>1, <1>3, <1>5, <1>6 DEF ToldRight
<1>8. ASSUME NEW x \in Ids, x # e.id
      PROVE  told'[x] = told[x]
  <2>1. CASE told[x] = "none"
    <3>1. \A i \in DOMAIN batch' : batch'[i].id # x
      BY <2>1, <1>1, <1>2, <1>3 DEF ToldRight
    <3> QED
      BY <3>1, <2>1, <1>5 DEF ToldRight
  <2>2. CASE told[x] # "none"
    <3>1. PICK i \in DOMAIN batch : batch[i].id = x
      BY <2>2, <1>2 DEF ToldRight
    <3>2. PICK j \in 1 .. n - 1 : j + 1 = i
      <4>1. i - 1 \in 1 .. n - 1 /\ (i - 1) + 1 = i
        BY <3>1, <1>8, <1>1
      <4> QED
        BY <4>1
    <3>3. j \in DOMAIN batch' /\ batch'[j] = batch[i]
      BY <3>2, <1>3
    <3> QED
      BY <3>1, <3>3, <1>2, <1>5 DEF ToldRight
  <2> QED
    BY <2>1, <2>2
<1> QED
  BY <1>1, <1>2, <1>4, <1>5, <1>7, <1>8 DEF ToldRight

\* The first event stays in front as another one: CONN_THEN_READ becomes READ.
Behind(d) == <<d>> \o Tail(batch)

(* The batch with its first event replaced. *)
LEMMA BehindIs ==
  ASSUME batch \in Seq(Event), OneEventEach, batch # <<>>, NEW d \in Event
  PROVE  /\ Behind(d) \in Seq(Event) /\ DOMAIN Behind(d) = 1 .. Len(batch)
         /\ Behind(d)[1] = d /\ \A i \in 2 .. Len(batch) : Behind(d)[i] = batch[i]
<1> DEFINE n == Len(batch)
<1>1. /\ Tail(batch) \in Seq(Event) /\ n \in Nat \ {0} /\ Len(Tail(batch)) = n - 1
      /\ \A i \in 1 .. n - 1 : Tail(batch)[i] = batch[i+1]
  BY BatchTail
<1> DEFINE t == Tail(batch)
           o == <<d>>
<1>2. o \in Seq(Event) /\ Len(o) = 1 /\ o[1] = d
  OBVIOUS
<1> HIDE DEF o, t, n
<1>3. /\ o \o t \in Seq(Event) /\ Len(o \o t) = Len(o) + Len(t)
      /\ \A i \in 1 .. Len(o) + Len(t) : (o \o t)[i] = IF i <= Len(o) THEN o[i] ELSE t[i - Len(o)]
  BY <1>1, <1>2, ConcatProperties DEF t
<1>4. Behind(d) = o \o t
  BY DEF Behind, o, t
<1>5. Len(Behind(d)) = n /\ Behind(d) \in Seq(Event)
  BY <1>1, <1>2, <1>3, <1>4 DEF t
<1>6. Behind(d)[1] = d
  BY <1>1, <1>2, <1>3, <1>4 DEF t
<1>7. ASSUME NEW i \in 2 .. n PROVE Behind(d)[i] = batch[i]
  <2>1. i - 1 \in 1 .. n - 1 /\ i \in 1 .. 1 + (n - 1) /\ ~(i <= 1) /\ (i - 1) + 1 = i
    BY <1>1
  <2>2. Behind(d)[i] = t[i - 1]
    BY <2>1, <1>1, <1>2, <1>3, <1>4 DEF t
  <2>3. t[i - 1] = batch[(i - 1) + 1]
    BY <2>1, <1>1 DEF t
  <2> QED
    BY <2>1, <2>2, <2>3
<1> QED
  BY <1>5, <1>6, <1>7, LenProperties DEF n

(* The first event has been replaced by one of the same slot. *)
LEMMA AgainTold ==
  ASSUME batch \in Seq(Event), OneEventEach, batch # <<>>,
         NEW d \in Event, d.id = Head(batch).id, batch' = Behind(d)
  PROVE  /\ batch' \in Seq(Event) /\ OneEventEach'
         /\ told' = [told EXCEPT ![d.id] = d.type]
<1> DEFINE n == Len(batch)
<1>1. /\ n \in Nat \ {0} /\ d.id \in Ids /\ d.id = batch[1].id
      /\ DOMAIN batch = 1 .. n
      /\ \A i, j \in 1 .. n : batch[i].id = batch[j].id => i = j
  BY BatchTail
<1>2. ToldRight
  BY ToldMeans
<1>3. /\ batch' \in Seq(Event) /\ DOMAIN batch' = 1 .. n
      /\ batch'[1] = d /\ \A i \in 2 .. n : batch'[i] = batch[i]
  BY BehindIs
<1>4. \A i \in 1 .. n : batch'[i].id = batch[i].id
  BY <1>1, <1>3
<1>5. OneEventEach'
  BY <1>1, <1>3, <1>4 DEF OneEventEach
<1>6. ToldRight'
  <2>1. (batch \in Seq(Event) /\ OneEventEach => ToldRight)'
    BY ToldMeans, PTL
  <2> QED
    BY <1>3, <1>5, <2>1
<1>7. told'[d.id] = d.type
  <2>1. 1 \in DOMAIN batch'
    BY <1>1, <1>3
  <2> QED
    BY <2>1, <1>3, <1>6 DEF ToldRight
<1>8. ASSUME NEW x \in Ids, x # d.id
      PROVE  told'[x] = told[x]
  <2>1. CASE told[x] = "none"
    <3>1. \A i \in DOMAIN batch' : batch'[i].id # x
      BY <2>1, <1>1, <1>2, <1>3, <1>4 DEF ToldRight
    <3> QED
      BY <3>1, <2>1, <1>6 DEF ToldRight
  <2>2. CASE told[x] # "none"
    <3>1. PICK i \in DOMAIN batch : batch[i].id = x
      BY <2>2, <1>2 DEF ToldRight
    <3>2. i \in 2 .. n
      BY <3>1, <1>8, <1>1
    <3>3. i \in DOMAIN batch' /\ batch'[i] = batch[i]
      BY <3>1, <3>2, <1>1, <1>3
    <3> QED
      BY <3>1, <3>3, <1>2, <1>6 DEF ToldRight
  <2> QED
    BY <2>1, <2>2
<1> QED
  BY <1>1, <1>2, <1>3, <1>5, <1>6, <1>7, <1>8 DEF ToldRight

-----------------------------------------------------------------------------
\* Failed assertions and the fault.
Rest == fault \in Faults /\ failed \subseteq {"disconnect", "wakeup", "pool"}

(* The second half of an event of two is an event. *)
LEMMA AgainEvent ==
  ASSUME NEW e \in Event
  PROVE  /\ [e EXCEPT !.type = "READ"] \in Event
         /\ [e EXCEPT !.type = "READ"].id = e.id
         /\ [e EXCEPT !.type = "READ"].type = "READ"
  BY DEF Event, Types

(* A dispatch leaves a batch of events. *)
LEMMA DispatchBatch ==
  ASSUME batch \in Seq(Event), Dispatch
  PROVE  /\ batch # <<>> /\ Head(batch) \in Event /\ Head(batch).id \in Ids
         /\ batch' \in Seq(Event)
<1>1. /\ batch # <<>>
      /\ \/ batch' = Tail(batch)
         \/ batch' = <<[Head(batch) EXCEPT !.type = "READ"]>> \o Tail(batch)
  BY DEF Dispatch
<1>2. Tail(batch) \in Seq(Event) /\ Head(batch) \in Event
  BY <1>1, TailOfQueue
<1>3. Head(batch).id \in Ids
  BY <1>2 DEF Event
<1>4. <<[Head(batch) EXCEPT !.type = "READ"]>> \o Tail(batch) \in Seq(Event)
  <2> DEFINE d == [Head(batch) EXCEPT !.type = "READ"]
             t == Tail(batch)
  <2>1. d \in Event
    BY <1>2, AgainEvent
  <2>2. t \in Seq(Event)
    BY <1>2
  <2> HIDE DEF d, t
  <2>3. <<d>> \in Seq(Event)
    BY <2>1
  <2>4. <<d>> \o t \in Seq(Event)
    BY <2>2, <2>3, ConcatProperties
  <2> QED
    BY <2>4 DEF d, t
<1> QED
  BY <1>1, <1>2, <1>3, <1>4

(* An event that is added keeps the batch typed. *)
LEMMA EmitTyped ==
  ASSUME batch \in Seq(Event), NEW id \in Ids, NEW type \in Types, Emit(type, id)
  PROVE  batch' \in Seq(Event)
<1>1. [type |-> type, id |-> id] \in Event
  BY DEF Event
<1> QED
  BY <1>1, AppendToQueue DEF Emit

(* A poll keeps TableInv. *)
LEMMA PollEventTable ==
  ASSUME TableInv, NEW id \in Ids, PollEvent(id), UNCHANGED fault
  PROVE  TableInv'
<1> USE DEF TableInv
<1>1. CTable' /\ batch' \in Seq(Event)
  <2>1. CASE PollAccept
    <3>1. CASE CreateThenClose /\ UNCHANGED batch
      BY <3>1, CreateThenCloseTable DEF PollTable
    <3>2. ASSUME NEW x \in Ids, Create(x, "connected", FALSE), Emit("ACCEPT", x)
          PROVE  CTable' /\ batch' \in Seq(Event)
      <4>1. "ACCEPT" \in Types
        BY DEF Types
      <4> QED
        BY <3>2, <4>1, CreateTable, EmitTyped DEF PollTable
    <3> QED
      BY <2>1, <3>1, <3>2 DEF PollAccept
  <2>2. CASE sock[id].st = "connecting" /\ PollConnect(id)
    <3>1. CTable'
      BY <2>2, PollConnectTable
    <3>2. {"CONNECT", "CONN_THEN_READ", "CONNERR"} \subseteq Types
      BY DEF Types
    <3> QED
      BY <2>2, <3>1, <3>2, EmitTyped DEF PollTable, PollConnect
  <2>3. CASE PollData(id)
    <3>1. CTable'
      BY <2>3, PollDataTable
    <3>2. {"SOCKERR", "WRIDONECLOSE", "READ"} \subseteq Types
      BY DEF Types
    <3> QED
      BY <2>3, <3>1, <3>2, EmitTyped DEF PollTable, PollData
  <2> QED
    BY <2>1, <2>2, <2>3 DEF PollEvent
<1>2. PoolTable' /\ failed' = failed
  BY DEF PollEvent, PoolTable
<1>3. CoTable'
  BY CoSame DEF PollEvent, co_vars, CoTable
<1>4. PollTable'
  BY <1>1 DEF PollEvent, PollTable, co_vars
<1> QED
  BY <1>1, <1>2, <1>3, <1>4

(* The C library is not called. *)
LEMMA SameTable ==
  ASSUME CTable, UNCHANGED c_vars
  PROVE  CTable'
  BY SlotChange DEF c_vars, CTable, SlotsHold

(* The records that calls return are results. *)
LEMMA ErrorResult == Error \in Result /\ \A n \in 0 .. MaxConns : \A k \in {"none", "ok", "data", "error"} :
                       [kind |-> k, conn |-> n] \in Result
  BY LuaSocketAssumption DEF Error, Result, NoConn

(* The handler of read events keeps TableInv. *)
LEMMA OnReadTable ==
  ASSUME TableInv, stack = <<>>, NEW id \in Ids, OnRead(id)
  PROVE  CTable' /\ PoolTable' /\ CoTable' /\ failed' \subseteq {"disconnect", "wakeup", "pool"}
<1> USE DEF TableInv
<1>1. CASE UNCHANGED <<c_vars, pool, co_vars, failed>>
  BY <1>1, SameTable, CoSame DEF co_vars, CoTable, PoolTable
<1>2. CASE pool[id] # NoEntry /\ Disconnect(id, TRUE) /\ Wakeup(pool[id].co, Error)
  <2>1. pool[id].co \in Cos
    BY <1>2, EntryTyped
  <2>2. CTable' /\ PoolTable'
    BY <1>2, CloseCallTable, DropTable DEF Disconnect
  <2> QED
    BY <1>2, <2>1, <2>2, WakeupTable, ErrorResult
<1>3. ASSUME pool[id] # NoEntry, CReads(id, "data"), UNCHANGED c_vars,
             pool[id].buf # NoBuffer, NEW n \in 0 .. MaxUnits,
             NEW buf, buf = pool[id].buf \o [i \in 1 .. n |-> sock[id].conn],
             buf # <<>>, pool' = [pool EXCEPT ![id].buf = Tail(buf)],
             Wakeup(pool[id].co, [kind |-> "data", conn |-> Head(buf)])
      PROVE  CTable' /\ PoolTable' /\ CoTable' /\ failed' \subseteq {"disconnect", "wakeup", "pool"}
  <2>0. pool[id] # NoEntry /\ pool[id].buf # NoBuffer
    BY <1>3
  <2>1. pool[id].co \in Cos /\ pool[id].buf \in Seq(1 .. MaxConns)
    BY <2>0, EntryTyped
  <2>2. sock[id].conn \in 1 .. MaxConns
    <3>1. sock[id].st = "connected"
      BY <1>3 DEF CReads
    <3> QED
      BY <3>1, LuaSocketAssumption DEF CTable, SlotsHold, Slot, NoConn
  <2>3. n \in Nat
    BY LuaSocketAssumption
  <2>4. buf \in Seq(1 .. MaxConns)
    BY <1>3, <2>1, <2>2, <2>3, BufferFill
  <2>5. Tail(buf) \in Seq(1 .. MaxConns) /\ Head(buf) \in 0 .. MaxConns
    <3>1. buf # <<>>
      BY <1>3
    <3>2. Tail(buf) \in Seq(1 .. MaxConns) /\ Head(buf) \in 1 .. MaxConns
      BY <2>4, <3>1, BufferPop
    <3> QED
      BY <3>2, LuaSocketAssumption
  <2>6. PoolTable'
    BY <1>3, <2>5, RefillTable
  <2>7. [kind |-> "data", conn |-> Head(buf)] \in Result
    BY <2>5, ErrorResult
  <2>8. CoTable' /\ failed' \subseteq {"disconnect", "wakeup", "pool"}
    BY <1>3, <2>1, <2>7, WakeupTable
  <2>9. CTable'
    BY <1>3, SameTable
  <2> QED
    BY <2>6, <2>8, <2>9
<1>4. CASE /\ pool[id] # NoEntry /\ CReads(id, "data") /\ UNCHANGED c_vars
           /\ pool[id].buf # NoBuffer
           /\ \E n \in 0 .. MaxUnits :
                LET buf == pool[id].buf \o [i \in 1 .. n |-> sock[id].conn] IN
                /\ buf # <<>> /\ Len(buf) <= MaxUnits
                /\ pool' = [pool EXCEPT ![id].buf = Tail(buf)]
                /\ Wakeup(pool[id].co, [kind |-> "data", conn |-> Head(buf)])
  BY <1>3, <1>4
<1> QED
  BY <1>1, <1>2, <1>4 DEF OnRead

(* The handler of new connections keeps TableInv. *)
LEMMA OnAcceptTable ==
  ASSUME TableInv, stack = <<>>, NEW id \in Ids, OnAccept(id)
  PROVE  CTable' /\ PoolTable' /\ CoTable' /\ failed' = failed
<1> USE DEF TableInv
<1>1. CASE UNCHANGED <<c_vars, pool, co_vars, failed>>
  BY <1>1, SameTable, CoSame DEF co_vars, CoTable, PoolTable
<1>2. ASSUME NEW c \in Cos, cst[c] = "fresh", cst' = [cst EXCEPT ![c] = "running"],
             stack' = <<c>>,
             own' = [own EXCEPT ![c] = [id |-> id, conn |-> sock[id].conn, rd |-> FALSE]],
             Start(id, c), UNCHANGED <<c_vars, got, failed>>
      PROVE  CTable' /\ PoolTable' /\ CoTable' /\ failed' = failed
  <2>1. CTable' /\ PoolTable'
    BY <1>2, SameTable, StartTable
  <2>2. [id |-> id, conn |-> sock[id].conn, rd |-> FALSE] \in Owns
    BY DEF Owns, CTable, Slot, Ids
  <2>3. own' \in [Cos -> Owns]
    BY <1>2, <2>2 DEF CoTable
  <2>4. Append(stack, c) = <<c>>
    OBVIOUS
  <2>5. Resume(c)
    BY <1>2, <2>4 DEF Resume
  <2>6. \A x \in Cos : cst[x] \in {"fresh", "read"} /\ x # c => own'[x] = own[x]
    BY <1>2 DEF CoTable
  <2> QED
    BY <1>2, <2>1, <2>3, <2>5, <2>6, ResumeTable
<1> QED
  BY <1>1, <1>2 DEF OnAccept

(* The handler of refused connects keeps TableInv. *)
LEMMA OnConnErrTable ==
  ASSUME TableInv, stack = <<>>, NEW id \in Ids, OnConnErr(id)
  PROVE  CTable' /\ PoolTable' /\ CoTable' /\ failed' \subseteq {"disconnect", "wakeup", "pool"}
<1> USE DEF TableInv
<1>1. CASE UNCHANGED <<c_vars, pool, co_vars, failed>>
  BY <1>1, SameTable, CoSame DEF co_vars, CoTable, PoolTable
<1>2. CASE pool[id] # NoEntry /\ Disconnect(id, TRUE) /\ Wakeup(pool[id].co, Error)
  <2>1. pool[id].co \in Cos
    BY <1>2, EntryTyped
  <2>2. CTable' /\ PoolTable'
    BY <1>2, CloseCallTable, DropTable DEF Disconnect
  <2> QED
    BY <1>2, <2>1, <2>2, WakeupTable, ErrorResult
<1> QED
  BY <1>1, <1>2 DEF OnConnErr

(* Every handler keeps TableInv. *)
LEMMA DispatchTable ==
  ASSUME TableInv, Dispatch, UNCHANGED fault
  PROVE  TableInv'
<1> USE DEF TableInv
<1> DEFINE e == Head(batch)
<1>1. e.id \in Ids /\ batch' \in Seq(Event)
  BY DispatchBatch DEF PollTable
<1>2. stack = <<>> /\ UNCHANGED <<phase, polled>> /\ phase = "dispatch"
  BY DEF Dispatch
<1>3. PollTable'
  BY <1>1, <1>2 DEF PollTable
<1> HIDE DEF TableInv
<1>4. CTable' /\ PoolTable' /\ CoTable' /\ failed' \subseteq {"disconnect", "wakeup", "pool"}
  <2>0. CTable /\ PoolTable /\ CoTable /\ failed \subseteq {"disconnect", "wakeup", "pool"}
    BY DEF TableInv
  <2>1. CASE OnRead(e.id)
    BY <2>1, <1>1, <1>2, OnReadTable
  <2>2. CASE OnAccept(e.id)
    BY <2>2, <1>1, <1>2, OnAcceptTable, <2>0
  <2>3. CASE OnConnErr(e.id)
    BY <2>3, <1>1, <1>2, OnConnErrTable
  <2>4. CASE OnConnect(e.id) /\ UNCHANGED <<c_vars, pool>>
    <3>1. CTable' /\ PoolTable'
      BY <2>4, <2>0, SameTable DEF PoolTable
    <3>2. CASE UNCHANGED <<co_vars, failed>>
      BY <3>1, <3>2, <2>0, CoSame DEF co_vars, CoTable
    <3>3. CASE pool[e.id] # NoEntry /\ Wakeup(pool[e.id].co, [kind |-> "ok", conn |-> NoConn])
      <4>1. pool[e.id].co \in Cos
        BY <3>3, <2>0, <1>1, EntryTyped
      <4>2. [kind |-> "ok", conn |-> NoConn] \in Result
        <5>1. NoConn \in 0 .. MaxConns
          BY LuaSocketAssumption DEF NoConn
        <5> QED
          BY <5>1, ErrorResult
      <4> QED
        BY <3>1, <3>3, <4>1, <4>2, <1>2, <2>0, WakeupTable
    <3> QED
      BY <2>4, <3>2, <3>3 DEF OnConnect
  <2>5. CASE OnSockErr(e.id) /\ UNCHANGED <<c_vars, pool, co_vars>>
    BY <2>5, <2>0, SameTable, CoSame DEF OnSockErr, PoolTable, co_vars, CoTable
  <2>6. CASE UNCHANGED <<c_vars, pool, co_vars, failed>>
    BY <2>6, <2>0, SameTable, CoSame DEF PoolTable, co_vars, CoTable
  <2> QED
    BY <2>1, <2>2, <2>3, <2>4, <2>5, <2>6, DispatchBatch DEF Dispatch, Event, Types, TableInv, PollTable
<1> QED
  BY <1>3, <1>4 DEF TableInv

(* The socket a coroutine uses is a slot. *)
LEMMA OwnTyped ==
  ASSUME CoTable, NEW c \in Cos
  PROVE  /\ own[c] \in Owns /\ own[c].id \in 0 .. cmax /\ own[c].conn \in 0 .. MaxConns
         /\ own[c].rd \in BOOLEAN /\ (own[c].id # 0 => own[c].id \in Ids)
      /\ (own[c].rd => own[c].id # 0)
         /\ (own[c].rd => own[c].id # 0)
  BY LuaSocketAssumption DEF CoTable, Owns, Ids

(* Starting a coroutine keeps TableInv. *)
LEMMA ForkTable ==
  ASSUME TableInv, NEW c \in Cos, Fork(c), UNCHANGED fault, UNCHANGED poll_vars
  PROVE  TableInv'
<1> USE DEF TableInv
<1>1. CTable' /\ PoolTable'
  BY SameTable DEF Fork, PoolTable
<1>2. CoTable'
  BY ResumeTable DEF Fork, CoTable
<1>3. PollTable'
  BY DEF PollTable, poll_vars, Fork
<1> QED
  BY <1>1, <1>2, <1>3 DEF Fork

(* A call that returns keeps the coroutines well formed. *)
LEMMA ReturnTable ==
  ASSUME CoTable, NEW c \in Cos, NEW result \in Result, Return(c, result),
         own' \in [Cos -> Owns], cst[c] = "running",
         \A x \in Cos : x # c => own'[x] = own[x]
  PROVE  CoTable'
<1>1. got' \in [Cos -> Result]
  BY DEF Return, CoTable
<1>2. \A x \in Cos : (cst[x] = "fresh" => own'[x] = NoSocket)
                     /\ (cst[x] = "read" => own'[x].rd)
  BY DEF CoTable
<1> QED
  BY <1>1, <1>2 DEF CoTable, Return, RunningStacked

(* A failed assertion keeps TableInv. *)
LEMMA DieRest ==
  ASSUME TableInv, NEW what \in {"disconnect", "wakeup", "pool"}, Die(what)
  PROVE  CTable' /\ PoolTable' /\ CoTable' /\ failed' \subseteq {"disconnect", "wakeup", "pool"}
<1>1. CTable'
  BY SameTable DEF Die, TableInv
<1>2. CoTable'
  BY DieTable DEF TableInv
<1> QED
  BY <1>1, <1>2 DEF Die, TableInv, PoolTable

(* What a coroutine does keeps TableInv. *)
LEMMA RunTable ==
  ASSUME TableInv, NEW c \in Cos, Run(c), UNCHANGED fault
  PROVE  TableInv'
<1>0. CTable /\ PoolTable /\ CoTable /\ failed \subseteq {"disconnect", "wakeup", "pool"}
      /\ fault \in Faults /\ PollTable
  BY DEF TableInv
<1>1. Runs(c) /\ UNCHANGED poll_vars
  BY DEF Run
<1>2. c \in Cos /\ cst[c] = "running" /\ phase = "dispatch"
  BY <1>0, <1>1, StackTop
<1>3. /\ own[c] \in Owns /\ own[c].id \in 0 .. cmax /\ own[c].conn \in 0 .. MaxConns
      /\ own[c].rd \in BOOLEAN /\ (own[c].id # 0 => own[c].id \in Ids)
      /\ (own[c].rd => own[c].id # 0)
  BY <1>0, <1>2, OwnTyped
<1>4. PollTable'
  BY <1>0, <1>1, <1>2 DEF PollTable, poll_vars
<1> DEFINE Goal == CTable' /\ PoolTable' /\ CoTable'
                   /\ failed' \subseteq {"disconnect", "wakeup", "pool"}
<1> SUFFICES Goal
  BY <1>0, <1>4 DEF TableInv
<1>5a. CASE ConnectFails(c) /\ UNCHANGED failed
  <2>1. CTable'
    BY <1>5a, <1>0, SameTable, CreateThenCloseTable DEF ConnectFails
  <2>2. PoolTable'
    BY <1>5a, <1>0 DEF ConnectFails, PoolTable
  <2>3. own' \in [Cos -> Owns] /\ \A x \in Cos : x # c => own'[x] = own[x]
    BY <1>5a, <1>0 DEF ConnectFails, CoTable
  <2>4. CoTable'
    BY <1>5a, <2>3, <1>0, <1>2, ErrorResult, ReturnTable DEF ConnectFails
  <2> QED
    BY <1>5a, <1>0, <2>1, <2>2, <2>4
<1>5. CASE Connect(c) /\ ~(ConnectFails(c) /\ UNCHANGED failed)
  <2>1. PICK id \in Ids :
         /\ Start(id, c)
         /\ own' = [own EXCEPT ![c] = [id |-> id, conn |-> conns + 1, rd |-> FALSE]]
         /\ \/ /\ CConnect(id, TRUE)
               /\ Yield(c, "connect")
               /\ UNCHANGED got
            \/ /\ CConnect(id, FALSE)
               /\ Return(c, [kind |-> "ok", conn |-> NoConn])
    BY <1>5 DEF Connect
  <2>2. CTable' /\ conns + 1 \in 1 .. MaxConns
    BY <2>1, <1>0, CreateTable DEF CConnect
  <2>3. PoolTable'
    BY <2>1, <1>0, StartTable
  <2>4. [id |-> id, conn |-> conns + 1, rd |-> FALSE] \in Owns
    BY <2>2, LuaSocketAssumption DEF Owns, Ids
  <2>5. own' \in [Cos -> Owns] /\ \A x \in Cos : x # c => own'[x] = own[x]
    BY <2>1, <2>4, <1>0 DEF CoTable
  <2>6. CoTable'
    <3>1. CASE Yield(c, "connect") /\ UNCHANGED got
      <4>1. got' \in [Cos -> Result]
        BY <3>1, <1>0 DEF CoTable
      <4> QED
        BY <3>1, <4>1, <2>5, <1>0, <1>1, YieldTable
    <3>2. CASE Return(c, [kind |-> "ok", conn |-> NoConn])
      <4>1. NoConn \in 0 .. MaxConns
        BY LuaSocketAssumption DEF NoConn
      <4>2. [kind |-> "ok", conn |-> NoConn] \in Result
        BY <4>1, ErrorResult
      <4> QED
        BY <3>2, <4>2, <2>5, <1>0, <1>2, ReturnTable
    <3> QED
      BY <2>1, <3>1, <3>2
  <2> QED
    BY <2>2, <2>3, <2>6, <1>0, <1>5 DEF Connect
<1>6. ASSUME NEW c2 \in Cos, Bind(c, c2) PROVE Goal
  <2>1. CASE Die("pool")
    BY <2>1, DieRest
  <2>2. CASE /\ pool[own[c].id] # NoEntry
             /\ pool' = [pool EXCEPT ![own[c].id].co = c2]
             /\ Resume(c2)
             /\ own' = [own EXCEPT ![c] = NoSocket, ![c2] = own[c]]
             /\ UNCHANGED <<c_vars, got, failed>>
    <3>1. own[c].id \in Ids
      BY <1>6, <1>3 DEF Bind
    <3>2. CTable' /\ PoolTable'
      BY <2>2, <3>1, <1>0, SameTable, RenameTable
    <3>3. own' \in [Cos -> Owns]
      BY <2>2, <1>0, <1>3, NoSocketOwns DEF CoTable
    <3>4. \A x \in Cos : cst[x] \in {"fresh", "read"} /\ x # c2 => own'[x] = own[x]
      BY <2>2, <1>0, <1>2 DEF CoTable
    <3> QED
      BY <2>2, <3>2, <3>3, <3>4, <1>0, ResumeTable
  <2> QED
    BY <1>6, <2>1, <2>2 DEF Bind
<1>7. ASSUME NEW enable \in BOOLEAN, ReadEnable(c, enable) PROVE Goal
  <2> DEFINE id == own[c].id
  <2>1. CASE Die("pool")
    BY <2>1, DieRest
  <2>2. CASE /\ pool[id] # NoEntry
             /\ own' = [own EXCEPT ![c].rd = enable]
             /\ CReadEnable(id, enable)
             /\ pool' = IF enable /\ pool[id].buf = NoBuffer
                        THEN [pool EXCEPT ![id].buf = <<>>] ELSE pool
             /\ UNCHANGED <<stack, cst, got, failed>>
    <3>1. id \in Ids
      BY <1>7, <1>3 DEF ReadEnable
    <3>2. CTable'
      BY <2>2, <3>1, <1>0, ReadEnableTable
    <3>3. PoolTable'
      <4>1. <<>> \in Seq(1 .. MaxConns)
        OBVIOUS
      <4> QED
        BY <4>1, <2>2, <3>1, <1>0, RefillTable DEF PoolTable
    <3>4. own' \in [Cos -> Owns] /\ \A x \in Cos : x # c => own'[x] = own[x]
      <4>1. own' = [own EXCEPT ![c] = [own[c] EXCEPT !.rd = enable]]
        BY <2>2, <1>0, <1>2 DEF CoTable
      <4>2. [own[c] EXCEPT !.rd = enable] \in Owns
        BY <3>1, <1>3, LuaSocketAssumption DEF Owns, Ids
      <4> QED
        BY <4>1, <4>2, <1>0, <1>2 DEF CoTable
    <3>5. CoTable'
      <4>1. \A x \in Cos : (cst[x] = "fresh" => own'[x] = NoSocket)
                           /\ (cst[x] = "read" => own'[x].rd)
        BY <3>4, <1>0, <1>2 DEF CoTable
      <4> QED
        BY <4>1, <2>2, <3>4, <1>0 DEF CoTable, RunningStacked
    <3> QED
      BY <2>2, <3>2, <3>3, <3>5, <1>0
  <2> QED
    BY <1>7, <2>1, <2>2 DEF ReadEnable
<1>8. CASE Read(c)
  <2> DEFINE id == own[c].id
  <2>0. id \in Ids
    BY <1>8, <1>3 DEF Read
  <2>1. CASE Die("pool")
    BY <2>1, DieRest
  <2>2. CASE /\ pool[id] # NoEntry /\ pool[id].buf \notin {NoBuffer, <<>>}
             /\ pool' = [pool EXCEPT ![id].buf = Tail(@)]
             /\ Return(c, [kind |-> "data", conn |-> Head(pool[id].buf)])
             /\ UNCHANGED <<c_vars, own, failed>>
    <3>1. pool[id].buf \in Seq(1 .. MaxConns) /\ pool[id].buf # <<>>
      BY <2>2, <2>0, <1>0, EntryTyped
    <3>2. Tail(pool[id].buf) \in Seq(1 .. MaxConns) /\ Head(pool[id].buf) \in 0 .. MaxConns
      <4>1. Tail(pool[id].buf) \in Seq(1 .. MaxConns) /\ Head(pool[id].buf) \in 1 .. MaxConns
        BY <3>1, BufferPop
      <4> QED
        BY <4>1, LuaSocketAssumption
    <3>3. PoolTable'
      BY <2>2, <3>2, <2>0, <1>0, RefillTable
    <3>4. [kind |-> "data", conn |-> Head(pool[id].buf)] \in Result
      BY <3>2, ErrorResult
    <3>5. own' \in [Cos -> Owns] /\ \A x \in Cos : x # c => own'[x] = own[x]
      BY <2>2, <1>0 DEF CoTable
    <3> QED
      BY <2>2, <3>3, <3>4, <3>5, <1>0, <1>2, SameTable, ReturnTable
  <2>3. CASE Yield(c, "read") /\ UNCHANGED <<c_vars, pool, own, got, failed>>
    <3>1. own' \in [Cos -> Owns] /\ got' \in [Cos -> Result] /\ own'[c].rd
          /\ \A x \in Cos : x # c => own'[x] = own[x]
      BY <2>3, <1>8, <1>0 DEF CoTable, Read
    <3>2. CoTable'
      BY <2>3, <3>1, <1>0, <1>1, YieldTable
    <3> QED
      BY <2>3, <3>2, <1>0, SameTable DEF PoolTable
  <2> QED
    BY <1>8, <2>1, <2>2, <2>3 DEF Read
<1>9. ASSUME NEW id, id = own[c].id, id # 0, NEW force \in BOOLEAN, Disconnect(id, force),
             own' = [own EXCEPT ![c] = NoSocket], UNCHANGED <<stack, cst, failed>>,
             got' \in [Cos -> Result]
      PROVE  Goal
  <2>1. id \in Ids
    BY <1>9, <1>3
  <2>2. CTable' /\ PoolTable'
    BY <1>9, <2>1, <1>0, CloseCallTable, DropTable DEF Disconnect
  <2>3. own' \in [Cos -> Owns] /\ \A x \in Cos : x # c => own'[x] = own[x]
    BY <1>9, <1>0, NoSocketOwns DEF CoTable
  <2>4. \A x \in Cos : (cst[x] = "fresh" => own'[x] = NoSocket)
                       /\ (cst[x] = "read" => own'[x].rd)
    BY <2>3, <1>0, <1>2 DEF CoTable
  <2>5. CoTable'
    BY <2>3, <2>4, <1>9, <1>0 DEF CoTable, RunningStacked
  <2> QED
    BY <2>2, <2>5, <1>9, <1>0
<1>10. ASSUME NEW force \in BOOLEAN, Close(c, force) PROVE Goal
  <2>1. CASE Die("disconnect")
    BY <2>1, DieRest
  <2>2. CASE /\ own[c].id # 0
             /\ Disconnect(own[c].id, force)
             /\ own' = [own EXCEPT ![c] = NoSocket]
             /\ UNCHANGED <<stack, cst, got, failed>>
    <3>1. got' \in [Cos -> Result]
      BY <2>2, <1>0 DEF CoTable
    <3> QED
      BY <2>2, <3>1, <1>9
  <2> QED
    BY <1>10, <2>1, <2>2 DEF Close
<1>11. CASE Send(c)
  <2>0. own[c].id # 0 /\ own[c].id \in Ids
    BY <1>11, <1>3 DEF Send
  <2>1. CASE Die("disconnect")
    BY <2>1, DieRest
  <2>2. CASE /\ CSend(own[c].id)
             /\ Return(c, [kind |-> "ok", conn |-> NoConn])
             /\ UNCHANGED <<pool, own, failed>>
    <3>1. NoConn \in 0 .. MaxConns
      BY LuaSocketAssumption DEF NoConn
    <3>2. [kind |-> "ok", conn |-> NoConn] \in Result
      BY <3>1, ErrorResult
    <3>3. own' \in [Cos -> Owns] /\ \A x \in Cos : x # c => own'[x] = own[x]
      BY <2>2, <1>0 DEF CoTable
    <3>4. CoTable'
      BY <2>2, <3>2, <3>3, <1>0, <1>2, ReturnTable
    <3> QED
      BY <2>0, <2>2, <3>4, <1>0, SendTable DEF PoolTable
  <2>3. CASE /\ Disconnect(own[c].id, TRUE)
             /\ Return(c, Error)
             /\ own' = [own EXCEPT ![c] = NoSocket]
             /\ UNCHANGED failed
    <3>1. got' \in [Cos -> Result] /\ UNCHANGED <<stack, cst>>
      BY <2>3, <1>0, ErrorResult DEF CoTable, Return
    <3> QED
      BY <2>0, <2>3, <3>1, <1>9
  <2> QED
    BY <1>11, <2>1, <2>2, <2>3 DEF Send
<1>12. CASE Finish(c)
  <2>1. Yield(c, "dead") /\ UNCHANGED <<c_vars, pool, own, got, failed>>
    BY <1>12 DEF Finish
  <2>2. own' \in [Cos -> Owns] /\ got' \in [Cos -> Result]
        /\ \A x \in Cos : x # c => own'[x] = own[x]
    BY <2>1, <1>0 DEF CoTable
  <2>3. CoTable'
    BY <2>1, <2>2, <1>0, <1>1, YieldTable
  <2> QED
    BY <2>1, <2>3, <1>0, SameTable DEF PoolTable
<1> QED
  BY <1>5a, <1>5, <1>6, <1>7, <1>8, <1>10, <1>11, <1>12 DEF Run

(* TableInv is inductive, whatever goes wrong. *)
LEMMA TableStep == TableInv /\ [Next]_vars => TableInv'
<1> SUFFICES ASSUME TableInv, [Next]_vars PROVE TableInv'
  OBVIOUS
<1>1. CASE UNCHANGED vars
  BY <1>1 DEF vars, TableInv, CTable, PollTable, PoolTable, CoTable, FreeIsListed,
              SlotsHold, RunningStacked
<1>2. CASE Next
  <2>0. UNCHANGED fault
    BY <1>2 DEF Next
  <2>1. CASE PollStart \/ PollReturn
    <3>1. UNCHANGED <<c_vars, batch, pool, co_vars, failed>> /\ stack' = stack
          /\ polled' \subseteq Ids /\ phase' \in {"poll", "dispatch"}
          /\ (phase' = "poll" => stack = <<>>)
      BY <2>1 DEF PollStart, PollReturn, co_vars
    <3>2. CTable' /\ PoolTable' /\ CoTable'
      BY <3>1, SameTable, CoSame DEF TableInv, PoolTable, co_vars, CoTable
    <3> QED
      BY <2>0, <3>1, <3>2 DEF TableInv, PollTable
  <2>2. ASSUME NEW id \in Ids, PollEvent(id) PROVE TableInv'
    BY <2>0, <2>2, PollEventTable
  <2>3. CASE Dispatch
    BY <2>0, <2>3, DispatchTable
  <2>4. ASSUME NEW c \in Cos, Run(c) PROVE TableInv'
    BY <2>0, <2>4, RunTable
  <2>5. ASSUME NEW c \in Cos, Fork(c) /\ UNCHANGED poll_vars PROVE TableInv'
    BY <2>0, <2>5, ForkTable
  <2> QED
    BY <1>2, <2>1, <2>2, <2>3, <2>4, <2>5 DEF Next, Step
<1> QED
  BY <1>1, <1>2

-----------------------------------------------------------------------------
(* The batch does not change. *)
LEMMA ToldSame ==
  ASSUME UNCHANGED batch
  PROVE  told' = told /\ (OneEventEach => OneEventEach')
  BY DEF told, Told, OneEventEach

\* The types that the proofs below use.
Typed ==
  /\ sock \in [Ids -> Slot]
  /\ cst \in [Cos -> {"fresh", "running", "connect", "read", "dead"}]
  /\ own \in [Cos -> Owns] /\ told \in [Ids -> Types \cup {"none"}]
  /\ pool \in [Ids -> {NoEntry} \cup Entry]
  /\ \A id \in Ids : pool[id] # NoEntry => pool[id].co \in Cos
  /\ \A c \in Cos : own[c].id # 0 => own[c].id \in Ids
  /\ \A c \in Cos : cst[c] = "fresh" => own[c] = NoSocket
  /\ \A c \in Cos : cst[c] = "read" => own[c].rd
  /\ 0 \notin Ids /\ NoSocket.id = 0 /\ ~NoSocket.rd
  /\ OwnersInv

(* Typed follows from the invariant. *)
LEMMA IsTyped ==
  ASSUME TableInv, OneEventEach, OwnersInv
  PROVE  Typed
<1>1. told \in [Ids -> Types \cup {"none"}]
  BY ToldMeans DEF ToldRight, TableInv, PollTable
<1>2. \A id \in Ids : pool[id] # NoEntry => pool[id].co \in Cos
  BY EntryTyped DEF TableInv
<1>3. \A c \in Cos : own[c].id # 0 => own[c].id \in Ids
  BY OwnTyped DEF TableInv
<1>4. 0 \notin Ids /\ NoSocket.id = 0 /\ ~NoSocket.rd
  BY LuaSocketAssumption DEF Ids, NoSocket
<1> QED
  BY <1>1, <1>2, <1>3, <1>4 DEF Typed, TableInv, CTable, CoTable, PoolTable

(* OwnersInv is kept when a coroutine begins. *)
LEMMA ForkOwners ==
  ASSUME Typed, Tame, NEW c \in Cos, cst[c] = "fresh", cst' = [cst EXCEPT ![c] = "running"],
         UNCHANGED <<fault, sock, pool, own>>, told' = told
  PROVE  OwnersInv'
<1> USE DEF Typed, OwnersInv, Calm, Has, Connected
<1>1. EntriesOK'
  BY DEF EntriesOK, Entered
<1>2. RunningOK'
  BY DEF RunningOK, Runner
<1>3. ConnectingOK'
  <2>1. ConnectsOK'
    BY DEF ConnectingOK, ConnectsOK, Connects
  <2>2. ConnectingSlots'
    BY DEF ConnectingOK, ConnectingSlots
  <2> QED
    BY <2>1, <2>2 DEF ConnectingOK
<1>4. EventsOK'
  <2>1. AcceptsOK'
    BY DEF EventsOK, AcceptsOK, EntriesOK, Entered
  <2>2. ConnectedOK'
    BY DEF EventsOK, ConnectedOK, EntriesOK, Entered
  <2>3. ErrorsOK'
    BY DEF EventsOK, ErrorsOK, EntriesOK, Entered
  <2> QED
    BY <2>1, <2>2, <2>3 DEF EventsOK
<1>5. ReadingOK'
  <2>1. ReadersOK'
    BY DEF ReadingOK, ReadersOK, Reader, Lost
  <2>2. ReadersOwn'
    BY DEF ReadingOK, ReadersOwn
  <2> QED
    BY <2>1, <2>2 DEF ReadingOK
<1> QED
  BY <1>1, <1>2, <1>3, <1>4, <1>5

(* OwnersInv is kept when the coroutines that run die. *)
LEMMA DieOwners ==
  ASSUME Typed, Tame, cst' \in [Cos -> {"fresh", "running", "connect", "read", "dead"}],
         \A x \in Cos : cst'[x] = IF cst[x] = "running" THEN "dead" ELSE cst[x],
         UNCHANGED <<fault, sock, pool, own>>, told' = told
  PROVE  OwnersInv'
<1> USE DEF Typed, OwnersInv, Calm, Has, Connected
<1>1. EntriesOK'
  BY DEF EntriesOK, Entered
<1>2. RunningOK'
  BY DEF RunningOK, Runner
<1>3. ConnectingOK'
  <2>1. ConnectsOK'
    BY DEF ConnectingOK, ConnectsOK, Connects
  <2>2. ConnectingSlots'
    BY DEF ConnectingOK, ConnectingSlots
  <2> QED
    BY <2>1, <2>2 DEF ConnectingOK
<1>4. EventsOK'
  <2>1. AcceptsOK'
    BY DEF EventsOK, AcceptsOK, EntriesOK, Entered
  <2>2. ConnectedOK'
    BY DEF EventsOK, ConnectedOK, EntriesOK, Entered
  <2>3. ErrorsOK'
    BY DEF EventsOK, ErrorsOK, EntriesOK, Entered
  <2> QED
    BY <2>1, <2>2, <2>3 DEF EventsOK
<1>5. ReadingOK'
  <2>1. ReadersOK'
    BY DEF ReadingOK, ReadersOK, Reader, Lost
  <2>2. ReadersOwn'
    BY DEF ReadingOK, ReadersOwn
  <2> QED
    BY <2>1, <2>2 DEF ReadingOK
<1> QED
  BY <1>1, <1>2, <1>3, <1>4, <1>5

(* OwnersInv says nothing of the free list. *)
LEMMA OwnersSame ==
  ASSUME OwnersInv, UNCHANGED <<fault, sock, pool, cst, own>>, told' = told
  PROVE  OwnersInv'
<1> USE DEF OwnersInv, Calm, Has, Connected
<1>1. EntriesOK' /\ RunningOK'
  BY DEF EntriesOK, Entered, RunningOK, Runner
<1>2. ConnectingOK'
  BY DEF ConnectingOK, ConnectsOK, Connects, ConnectingSlots
<1>3. EventsOK'
  BY DEF EventsOK, AcceptsOK, ConnectedOK, ErrorsOK
<1>4. ReadingOK'
  BY DEF ReadingOK, ReadersOK, Reader, Lost, ReadersOwn
<1> QED
  BY <1>1, <1>2, <1>3, <1>4

(* OwnersInv is kept when a coroutine ends. *)
LEMMA FinishOwners ==
  ASSUME Typed, Tame, NEW c \in Cos, cst[c] = "running", cst' = [cst EXCEPT ![c] = "dead"],
         UNCHANGED <<fault, sock, pool, own>>, told' = told
  PROVE  OwnersInv'
<1> USE DEF Typed, OwnersInv, Calm, Has, Connected
<1>1. EntriesOK'
  BY DEF EntriesOK, Entered
<1>2. RunningOK'
  BY DEF RunningOK, Runner
<1>3. ConnectingOK'
  <2>1. ConnectsOK'
    BY DEF ConnectingOK, ConnectsOK, Connects
  <2>2. ConnectingSlots'
    BY DEF ConnectingOK, ConnectingSlots
  <2> QED
    BY <2>1, <2>2 DEF ConnectingOK
<1>4. EventsOK'
  <2>1. AcceptsOK'
    BY DEF EventsOK, AcceptsOK, EntriesOK, Entered
  <2>2. ConnectedOK'
    BY DEF EventsOK, ConnectedOK, EntriesOK, Entered
  <2>3. ErrorsOK'
    BY DEF EventsOK, ErrorsOK, EntriesOK, Entered
  <2> QED
    BY <2>1, <2>2, <2>3 DEF EventsOK
<1>5. ReadingOK'
  <2>1. ReadersOK'
    BY DEF ReadingOK, ReadersOK, Reader, Lost
  <2>2. ReadersOwn'
    BY DEF ReadingOK, ReadersOwn
  <2> QED
    BY <2>1, <2>2 DEF ReadingOK
<1> QED
  BY <1>1, <1>2, <1>3, <1>4, <1>5

(* OwnersInv is kept when a coroutine begins to wait in read: no event
   of the slot is of another connection. *)
LEMMA WaitOwners ==
  ASSUME Typed, Tame, NEW c \in Cos, cst[c] = "running", own[c].rd,
         NEW id, id = own[c].id, pool[id] # NoEntry, pool[id].buf = <<>>, pool[id].co = c,
         cst' = [cst EXCEPT ![c] = "read"],
         UNCHANGED <<fault, sock, pool, own>>, told' = told
  PROVE  OwnersInv'
<1> USE DEF Typed, OwnersInv, Calm, Has, Connected
<1>0. id \in Ids
  BY DEF Owns
<1>1. EntriesOK'
  BY DEF EntriesOK, Entered
<1>2. RunningOK'
  BY DEF RunningOK, Runner
<1>3. ConnectingOK'
  <2>1. ConnectsOK'
    BY DEF ConnectingOK, ConnectsOK, Connects
  <2>2. ConnectingSlots'
    BY DEF ConnectingOK, ConnectingSlots
  <2> QED
    BY <2>1, <2>2 DEF ConnectingOK
<1>4. EventsOK'
  <2>1. AcceptsOK'
    BY DEF EventsOK, AcceptsOK, EntriesOK, Entered
  <2>2. ConnectedOK'
    BY DEF EventsOK, ConnectedOK, EntriesOK, Entered
  <2>3. ErrorsOK'
    BY DEF EventsOK, ErrorsOK, EntriesOK, Entered
  <2> QED
    BY <2>1, <2>2, <2>3 DEF EventsOK
<1>5. ReadingOK'
  <2>1. ReadersOK'
    BY <1>0 DEF ReadingOK, ReadersOK, Reader, Lost, RunningOK, Runner, EventsOK, AcceptsOK, ConnectedOK, ErrorsOK, EntriesOK, Entered
  <2>2. ReadersOwn'
    BY <1>0 DEF ReadingOK, ReadersOwn, RunningOK, Runner, EventsOK, AcceptsOK, ConnectedOK, ErrorsOK, EntriesOK, Entered
  <2> QED
    BY <2>1, <2>2 DEF ReadingOK
<1> QED
  BY <1>1, <1>2, <1>3, <1>4, <1>5

\* The other slots are left alone, and so is who waits for a connect on them.
OtherSlots(id) ==
  \A x \in Ids : x # id => sock'[x] = sock[x] /\ pool'[x] = pool[x] /\ told'[x] = told[x]
OtherWaits(id) ==
  \A x \in Cos : cst'[x] = "connect" =>
    cst[x] = "connect" /\ own'[x] = own[x] /\ own[x].id # id

LEMMA OtherConnects ==
  ASSUME ConnectsOK, NEW id, OtherWaits(id), OtherSlots(id), fault' = fault
  PROVE  ConnectsOK'
<1> SUFFICES ASSUME NEW x \in Cos, cst'[x] = "connect" PROVE Connects(x)'
  BY Zenon DEF ConnectsOK
<1>1. own'[x] = own[x] /\ own[x].id # id /\ Connects(x)
  BY DEF ConnectsOK, OtherWaits
<1>2. PICK y \in Ids : y = own[x].id
  BY <1>1 DEF Connects
<1>3. sock'[y] = sock[y] /\ pool'[y] = pool[y] /\ told'[y] = told[y]
  BY <1>1, <1>2 DEF OtherSlots
<1> QED
  BY <1>1, <1>2, <1>3 DEF Connects, Has, Calm

\* What subscribing, queueing data and changing the buffer leave of the rest.
Subscribes(c, id) ==
  /\ sock'[id].st = sock[id].st /\ sock'[id].conn = sock[id].conn
  /\ \A x \in Ids : x # id => sock'[x] = sock[x] /\ pool'[x] = pool[x]
  /\ own'[c].id = own[c].id /\ own'[c].conn = own[c].conn
  /\ fault = "none" => sock'[id].rd = own'[c].rd
  /\ \A x \in Cos : x # c => own'[x] = own[x]
  /\ pool'[id] # NoEntry /\ pool'[id].co = pool[id].co
  /\ Calm /\ pool'[id].buf # NoBuffer =>
       \A i \in DOMAIN pool'[id].buf : pool'[id].buf[i] = sock[id].conn
  /\ fault' = fault /\ cst' = cst /\ told' = told

\* The owner subscribes, queues data, or changes the buffer.
LEMMA SubscribeOwners ==
  ASSUME Typed, Tame, NEW c \in Cos, cst[c] = "running",
         NEW id \in Ids, id = own[c].id, Subscribes(c, id)
  PROVE  OwnersInv'
<1>1. /\ EntriesOK /\ RunningOK /\ ConnectsOK /\ ConnectingSlots
      /\ AcceptsOK /\ ConnectedOK /\ ErrorsOK /\ ReadersOK /\ ReadersOwn
      /\ \A x \in Ids : pool[x] # NoEntry => pool[x].co \in Cos
      /\ \A x \in Cos : own[x].id # 0 => own[x].id \in Ids
      /\ id # 0
  BY DEF Typed, OwnersInv, ConnectingOK, EventsOK, ReadingOK
<1>2. /\ pool[id] # NoEntry /\ pool[id].co = c
      /\ sock[id].st = "connected" /\ sock[id].conn = own[c].conn
  <2>1. Runner(c)
    BY <1>1 DEF RunningOK
  <2> QED
    BY <2>1 DEF Runner, Has, Connected
\* Nothing but a buffer and subscriptions has changed.
<1>3. \A x \in Ids : /\ sock'[x].st = sock[x].st /\ sock'[x].conn = sock[x].conn
                     /\ Has(x)' <=> Has(x)
                     /\ pool'[x].co = pool[x].co
  BY <1>2 DEF Subscribes, Has
<1>4. \A x \in Cos : own'[x].id = own[x].id /\ own'[x].conn = own[x].conn
  BY DEF Subscribes
<1>5. fault' = fault /\ cst' = cst /\ told' = told /\ Calm' = Calm
  BY DEF Subscribes, Calm
<1>6. \A x \in Ids : x # id => sock'[x] = sock[x] /\ pool'[x] = pool[x] /\ told'[x] = told[x]
  BY DEF Subscribes
<1>7. EntriesOK'
  <2> SUFFICES ASSUME NEW x \in Ids, Has(x)' PROVE Entered(x)'
    BY Zenon DEF EntriesOK
  <2>1. Entered(x) /\ pool[x].co \in Cos
    BY <1>1, <1>3 DEF EntriesOK, Has
  <2>2. Calm /\ pool'[x].buf # NoBuffer =>
          \A i \in DOMAIN pool'[x].buf : pool'[x].buf[i] = sock'[x].conn
    <3>1. CASE x = id
      BY <3>1 DEF Subscribes
    <3>2. CASE x # id
      <4>1. sock'[x] = sock[x] /\ pool'[x] = pool[x]
        BY <1>6, <3>2
      <4> QED
        BY <2>1, <4>1 DEF Entered
    <3> QED
      BY <3>1, <3>2
  <2>3. /\ sock'[x].st = sock[x].st /\ pool'[x].co = pool[x].co
        /\ own'[pool[x].co].id = own[pool[x].co].id
    BY <1>3, <1>4, <2>1
  <2> QED
    BY <1>5, <2>1, <2>2, <2>3 DEF Entered
<1>8. RunningOK'
  <2> SUFFICES ASSUME NEW x \in Cos, cst'[x] = "running", own'[x].id # 0 PROVE Runner(x)'
    BY Zenon DEF RunningOK
  <2>1. PICK y \in Ids : y = own[x].id /\ y = own'[x].id
    BY <1>1, <1>4
  <2>2. Runner(x)
    BY <1>1, <1>5, <2>1 DEF RunningOK
  <2>3. fault' = "none" => sock'[y].rd = own'[x].rd
    <3>1. CASE x = c
      BY <3>1, <2>1 DEF Subscribes
    <3>2. CASE x # c
      <4>1. y # id
        BY <1>2, <2>1, <2>2, <3>2 DEF Runner
      <4>2. sock'[y] = sock[y] /\ own'[x] = own[x]
        BY <3>2, <4>1 DEF Subscribes
      <4> QED
        BY <1>5, <2>1, <2>2, <4>2 DEF Runner
    <3> QED
      BY <3>1, <3>2
  <2>4. /\ sock'[y].st = sock[y].st /\ sock'[y].conn = sock[y].conn
        /\ Has(y)' <=> Has(y)
        /\ pool'[y].co = pool[y].co /\ own'[x].conn = own[x].conn
    BY <1>3, <1>4
  <2> QED
    BY <2>1, <2>2, <2>3, <2>4 DEF Runner, Has, Connected
<1>9. ConnectsOK'
  <2>1. OtherWaits(id)
    <3> SUFFICES ASSUME NEW x \in Cos, cst'[x] = "connect"
                 PROVE  cst[x] = "connect" /\ own'[x] = own[x] /\ own[x].id # id
      BY Zenon DEF OtherWaits
    <3>1. x # c /\ Connects(x)
      BY <1>1, <1>5 DEF ConnectsOK
    <3>2. own'[x] = own[x]
      BY <3>1 DEF Subscribes
    <3> QED
      BY <1>2, <1>5, <3>1, <3>2 DEF Connects
  <2> QED
    BY <1>1, <1>5, <1>6, <2>1, OtherConnects DEF OtherSlots
<1>10. ConnectingSlots'
  BY <1>1, <1>3, <1>5 DEF ConnectingSlots
<1>11. AcceptsOK'
  <2>1. told[id] # "ACCEPT"
    BY <1>1, <1>2 DEF AcceptsOK, Has
  <2>2. ASSUME NEW x \in Ids, told'[x] = "ACCEPT"
        PROVE  /\ sock'[x].st = "connected" /\ ~sock'[x].rd /\ ~sock'[x].queued
               /\ Has(x)' => ~Calm' /\ cst'[pool'[x].co] \in {"dead", "read"}
    <3>1. x # id /\ told[x] = "ACCEPT"
      BY <1>5, <2>1, <2>2
    <3>2. sock'[x] = sock[x] /\ pool'[x] = pool[x]
      BY <1>6, <3>1
    <3> QED
      BY <1>1, <1>5, <3>1, <3>2 DEF AcceptsOK, Has
  <2> QED
    BY <2>2, Zenon DEF AcceptsOK
<1>12. ConnectedOK'
  <2>1. told[id] \notin {"CONNECT", "CONN_THEN_READ"}
    BY <1>1, <1>2 DEF ConnectedOK
  <2>2. ASSUME NEW x \in Ids, told'[x] \in {"CONNECT", "CONN_THEN_READ"}
        PROVE  /\ Has(x)' /\ cst'[pool'[x].co] = "connect"
               /\ Connected(x, own[pool[x].co].conn)' /\ ~sock'[x].rd
    <3>1. x # id /\ told[x] \in {"CONNECT", "CONN_THEN_READ"}
      BY <1>5, <2>1, <2>2
    <3>2. sock'[x] = sock[x] /\ pool'[x] = pool[x]
      BY <1>6, <3>1
    <3>3. Has(x) /\ pool[x].co \in Cos
      BY <1>1, <3>1 DEF ConnectedOK, Has
    <3>4. own'[pool[x].co].conn = own[pool[x].co].conn
      BY <1>4, <3>3
    <3> QED
      BY <1>1, <1>5, <3>1, <3>2, <3>4 DEF ConnectedOK, Has, Connected
  <2> QED
    BY <2>2, Zenon DEF ConnectedOK
<1>13. ErrorsOK'
  BY <1>1, <1>3, <1>5 DEF ErrorsOK
<1>14. ReadersOK'
  <2> SUFFICES ASSUME NEW x \in Ids, Has(x)', cst'[pool'[x].co] = "read"
               PROVE  Reader(x)'
    BY Zenon DEF ReadersOK
  <2>1. Has(x) /\ cst[pool[x].co] = "read" /\ pool[x].co \in Cos
    BY <1>1, <1>3, <1>5 DEF Has
  <2>2. x # id /\ Reader(x)
    BY <1>1, <1>2, <2>1 DEF ReadersOK
  <2>3. /\ sock'[x] = sock[x] /\ pool'[x] = pool[x]
        /\ own'[pool[x].co].conn = own[pool[x].co].conn
    BY <1>4, <1>6, <2>1, <2>2
  <2> QED
    BY <1>5, <2>2, <2>3 DEF Reader, Lost, Connected
<1>15. ReadersOwn'
  BY <1>1, <1>3, <1>4, <1>5 DEF ReadersOwn
<1> QED
  BY <1>7, <1>8, <1>9, <1>10, <1>11, <1>12, <1>13, <1>14, <1>15
     DEF OwnersInv, ConnectingOK, EventsOK, ReadingOK

\* The owner changes the buffer alone.
LEMMA BufferOwners ==
  ASSUME Typed, Tame, NEW c \in Cos, cst[c] = "running",
         NEW id \in Ids, id = own[c].id,
         pool'[id] # NoEntry, pool'[id].co = pool[id].co,
         Calm /\ pool'[id].buf # NoBuffer =>
           \A i \in DOMAIN pool'[id].buf : pool'[id].buf[i] = sock[id].conn,
         \A x \in Ids : x # id => pool'[x] = pool[x],
         UNCHANGED <<fault, sock, cst, own>>, told' = told
  PROVE  OwnersInv'
<1>1. fault = "none" => sock[id].rd = own[c].rd
  BY DEF Typed, OwnersInv, RunningOK, Runner
<1>2. Subscribes(c, id)
  BY <1>1 DEF Subscribes
<1> QED
  BY <1>2, SubscribeOwners, Zenon

\* The owner subscribes or queues data, and has a buffer or needs none.
LEMMA SlotOwners ==
  ASSUME Typed, Tame, NEW c \in Cos, cst[c] = "running",
         NEW id \in Ids, id = own[c].id,
         sock'[id].st = sock[id].st, sock'[id].conn = sock[id].conn,
         \A x \in Ids : x # id => sock'[x] = sock[x],
         own'[c].id = own[c].id, own'[c].conn = own[c].conn,
         fault = "none" => sock'[id].rd = own'[c].rd,
         \A x \in Cos : x # c => own'[x] = own[x],
         UNCHANGED <<fault, pool, cst>>, told' = told
  PROVE  OwnersInv'
<1>1. /\ pool[id] # NoEntry
      /\ Calm /\ pool[id].buf # NoBuffer =>
           \A i \in DOMAIN pool[id].buf : pool[id].buf[i] = sock[id].conn
  BY DEF Typed, OwnersInv, RunningOK, Runner, EntriesOK, Entered, Has
<1>2. Subscribes(c, id)
  BY <1>1 DEF Subscribes
<1> QED
  BY <1>2, SubscribeOwners, Zenon

\* The owner gives the socket back.
LEMMA CloseOwners ==
  ASSUME Typed, Tame, NEW c \in Cos, cst[c] = "running",
         NEW id \in Ids, id = own[c].id, sock' \in [Ids -> Slot],
         sock'[id].st \in {"free", "halfclose"},
         \A x \in Ids : x # id => sock'[x] = sock[x],
         own' = [own EXCEPT ![c] = NoSocket],
         pool' = [pool EXCEPT ![id] = NoEntry],
         UNCHANGED <<fault, cst>>, told' = told
  PROVE  OwnersInv'
<1> USE DEF Typed, OwnersInv, Calm, Has, Connected
<1>0. pool[id] # NoEntry /\ pool[id].co = c /\ sock[id].st = "connected"
  BY DEF RunningOK, Runner
<1>1. EntriesOK'
  BY <1>0 DEF EntriesOK, Entered
<1>2. RunningOK'
  BY <1>0 DEF RunningOK, Runner
<1>3. ConnectingOK'
  <2>1. ConnectsOK'
    <3>1. OtherWaits(id)
      BY <1>0 DEF ConnectingOK, ConnectsOK, Connects, OtherWaits
    <3>2. OtherSlots(id)
      BY DEF OtherSlots
    <3>3. ConnectsOK /\ fault' = fault
      BY DEF ConnectingOK
    <3> QED
      BY <3>1, <3>2, <3>3, OtherConnects, Zenon
  <2>2. ConnectingSlots'
    BY <1>0 DEF ConnectingOK, ConnectingSlots
  <2> QED
    BY <2>1, <2>2 DEF ConnectingOK
<1>4. EventsOK'
  <2>1. AcceptsOK'
    BY <1>0 DEF EventsOK, AcceptsOK, EntriesOK, Entered
  <2>2. ConnectedOK'
    BY <1>0 DEF EventsOK, ConnectedOK, EntriesOK, Entered
  <2>3. ErrorsOK'
    BY <1>0 DEF EventsOK, ErrorsOK, EntriesOK, Entered
  <2> QED
    BY <2>1, <2>2, <2>3 DEF EventsOK
<1>5. ReadingOK'
  <2>1. ReadersOK'
    BY <1>0 DEF ReadingOK, ReadersOK, Reader, Lost
  <2>2. ReadersOwn'
    BY <1>0 DEF ReadingOK, ReadersOwn
  <2> QED
    BY <2>1, <2>2 DEF ReadingOK
<1> QED
  BY <1>1, <1>2, <1>3, <1>4, <1>5

\* The owner hands the socket over.
LEMMA BindOwners ==
  ASSUME Typed, Tame, NEW c \in Cos, cst[c] = "running",
         NEW c2 \in Cos, cst[c2] = "fresh",
         NEW id \in Ids, id = own[c].id,
         own' = [own EXCEPT ![c] = NoSocket, ![c2] = own[c]],
         pool' \in [Ids -> {NoEntry} \cup Entry],
         pool'[id] # NoEntry, pool'[id].co = c2, pool'[id].buf = pool[id].buf,
         \A x \in Ids : x # id => pool'[x] = pool[x],
         cst' = [cst EXCEPT ![c2] = "running"],
         UNCHANGED <<fault, sock>>, told' = told
  PROVE  OwnersInv'
<1> USE DEF Typed, OwnersInv, Calm, Has, Connected
<1>0. pool[id] # NoEntry /\ pool[id].co = c /\ sock[id].st = "connected"
  BY DEF RunningOK, Runner
<1>1. EntriesOK'
  BY <1>0 DEF EntriesOK, Entered
<1>2. RunningOK'
  BY <1>0 DEF RunningOK, Runner
<1>3. ConnectingOK'
  <2>1. ConnectsOK'
    <3>1. OtherWaits(id)
      BY <1>0 DEF ConnectingOK, ConnectsOK, Connects, OtherWaits
    <3>2. OtherSlots(id)
      BY DEF OtherSlots
    <3>3. ConnectsOK /\ fault' = fault
      BY DEF ConnectingOK
    <3> QED
      BY <3>1, <3>2, <3>3, OtherConnects, Zenon
  <2>2. ConnectingSlots'
    BY <1>0 DEF ConnectingOK, ConnectingSlots
  <2> QED
    BY <2>1, <2>2 DEF ConnectingOK
<1>4. EventsOK'
  <2>1. AcceptsOK'
    BY <1>0 DEF EventsOK, AcceptsOK, EntriesOK, Entered
  <2>2. ConnectedOK'
    BY <1>0 DEF EventsOK, ConnectedOK, EntriesOK, Entered
  <2>3. ErrorsOK'
    BY <1>0 DEF EventsOK, ErrorsOK, EntriesOK, Entered
  <2> QED
    BY <2>1, <2>2, <2>3 DEF EventsOK
<1>5. ReadingOK'
  <2>1. ReadersOK'
    BY <1>0 DEF ReadingOK, ReadersOK, Reader, Lost
  <2>2. ReadersOwn'
    BY <1>0 DEF ReadingOK, ReadersOwn
  <2> QED
    BY <2>1, <2>2 DEF ReadingOK
<1> QED
  BY <1>1, <1>2, <1>3, <1>4, <1>5

\* What the connection n on the slot id sets for the coroutine c.
Opens(c, id, conning, n) ==
  /\ sock' = [sock EXCEPT ![id] =
       [st |-> IF conning THEN "connecting" ELSE "connected", rd |-> conning,
        queued |-> FALSE, conn |-> n]]
  /\ own' = [own EXCEPT ![c] = [id |-> id, conn |-> n, rd |-> FALSE]]
  /\ cst' = IF conning THEN [cst EXCEPT ![c] = "connect"] ELSE cst
  /\ fault' = fault /\ told' = told

\* A free slot is taken for a coroutine that has no socket.
LEMMA ConnectOwners ==
  ASSUME Typed, Tame, NEW c \in Cos, cst[c] = "running", own[c].id = 0,
         NEW id \in Ids, sock[id].st = "free", told[id] = "none",
         NEW conning \in BOOLEAN, NEW n \in 1 .. MaxConns,
         Opens(c, id, conning, n),
         pool' \in [Ids -> {NoEntry} \cup Entry],
         pool'[id] # NoEntry, pool'[id].co = c,
         pool'[id].buf = IF pool[id] = NoEntry THEN NoBuffer ELSE pool[id].buf,
         \A x \in Ids : x # id => pool'[x] = pool[x]
  PROVE  OwnersInv'
<1> USE DEF Typed, OwnersInv, Calm, Has, Connected, Opens
<1>0. /\ \A x \in Ids : pool[x] # NoEntry => pool[x].co # c
      /\ Calm => pool[id] = NoEntry
  BY DEF EntriesOK, Entered
<1>a. \A x \in Cos : own[x].id = id => cst[x] \notin {"connect", "running"}
  BY DEF ConnectingOK, ConnectsOK, Connects, ConnectingSlots, RunningOK, Runner
<1>1. EntriesOK'
  BY <1>0, <1>a DEF EntriesOK, Entered
<1>b. /\ own'[c].id = id /\ own'[c].conn = n /\ ~own'[c].rd
      /\ \A x \in Cos : x # c => own'[x] = own[x] /\ cst'[x] = cst[x]
      /\ cst'[c] = IF conning THEN "connect" ELSE "running"
      /\ sock'[id].st = (IF conning THEN "connecting" ELSE "connected")
      /\ sock'[id].conn = n /\ sock'[id].rd = conning
      /\ \A x \in Ids : x # id => sock'[x] = sock[x]
  OBVIOUS
<1>2. RunningOK'
  <2> HIDE DEF Typed, OwnersInv
  <2> SUFFICES ASSUME NEW x \in Cos, cst'[x] = "running", own'[x].id # 0
               PROVE  /\ pool'[own'[x].id] # NoEntry /\ pool'[own'[x].id].co = x
                      /\ sock'[own'[x].id].st = "connected"
                      /\ sock'[own'[x].id].conn = own'[x].conn
                      /\ fault = "none" => sock'[own'[x].id].rd = own'[x].rd
    BY Zenon DEF RunningOK, Runner, Has, Connected
  <2> USE DEF Typed, OwnersInv
  <2>1. CASE x = c
    BY <2>1, <1>b
  <2>2. CASE x # c
    <3>1. own[x].id \in Ids /\ own[x].id # id /\ own'[x] = own[x] /\ cst[x] = "running"
      BY <2>2, <1>a, <1>b
    <3>2. PICK y \in Ids : y = own[x].id
      BY <3>1
    <3>3. pool'[y] = pool[y] /\ sock'[y] = sock[y]
      BY <3>1, <3>2, <1>b
    <3>4. /\ pool[y] # NoEntry /\ pool[y].co = x /\ sock[y].st = "connected"
          /\ sock[y].conn = own[x].conn /\ (fault = "none" => sock[y].rd = own[x].rd)
      BY <3>1, <3>2 DEF RunningOK, Runner
    <3> QED
      BY <3>1, <3>2, <3>3, <3>4
  <2> QED
    BY <2>1, <2>2
<1>3. ConnectingOK'
  <2>1. ConnectsOK'
    BY <1>0, <1>a DEF ConnectingOK, ConnectsOK, Connects
  <2>2. ConnectingSlots'
    BY <1>0, <1>a DEF ConnectingOK, ConnectingSlots
  <2> QED
    BY <2>1, <2>2 DEF ConnectingOK
<1>4. EventsOK'
  <2>1. AcceptsOK'
    BY <1>0, <1>a DEF EventsOK, AcceptsOK, EntriesOK, Entered
  <2>2. ConnectedOK'
    BY <1>0, <1>a DEF EventsOK, ConnectedOK, EntriesOK, Entered
  <2>3. ErrorsOK'
    BY <1>0, <1>a DEF EventsOK, ErrorsOK, EntriesOK, Entered
  <2> QED
    BY <2>1, <2>2, <2>3 DEF EventsOK
<1>5. ReadingOK'
  <2>1. ReadersOK'
    BY <1>0, <1>a DEF ReadingOK, ReadersOK, Reader, Lost
  <2>2. ReadersOwn'
    BY <1>0, <1>a DEF ReadingOK, ReadersOwn
  <2> QED
    BY <2>1, <2>2 DEF ReadingOK
<1> QED
  BY <1>1, <1>2, <1>3, <1>4, <1>5

-----------------------------------------------------------------------------
(* No coroutine runs: in a poll, and when a handler begins. *)
NoneRuns == \A x \in Cos : cst[x] # "running"

\* A connection is accepted.
LEMMA AcceptOwners ==
  ASSUME Typed, Tame, NoneRuns, NEW id \in Ids, sock[id].st = "free", told[id] = "none",
         NEW n \in 1 .. MaxConns,
         sock' = [sock EXCEPT ![id] =
           [st |-> "connected", rd |-> FALSE, queued |-> FALSE, conn |-> n]],
         told' = [told EXCEPT ![id] = "ACCEPT"],
         UNCHANGED <<fault, pool, cst, own>>
  PROVE  OwnersInv'
<1> USE DEF Typed, OwnersInv, Calm, Has, Connected, NoneRuns
<1>0. Calm => pool[id] = NoEntry
  BY DEF EntriesOK, Entered
<1>a. \A x \in Cos : own[x].id = id => cst[x] # "connect"
  BY DEF ConnectingOK, ConnectsOK, Connects, ConnectingSlots
<1>b. pool[id] # NoEntry => cst[pool[id].co] \in {"dead", "read"}
  BY <1>a DEF EntriesOK, Entered
<1>1. EntriesOK'
  BY <1>0, <1>a DEF EntriesOK, Entered
<1>2. RunningOK'
  BY <1>0, <1>a DEF RunningOK, Runner
<1>3. ConnectingOK'
  <2>1. ConnectsOK'
    BY <1>0, <1>a DEF ConnectingOK, ConnectsOK, Connects
  <2>2. ConnectingSlots'
    BY <1>0, <1>a DEF ConnectingOK, ConnectingSlots
  <2> QED
    BY <2>1, <2>2 DEF ConnectingOK
<1>4. EventsOK'
  <2>1. AcceptsOK'
    BY <1>0, <1>a, <1>b DEF EventsOK, AcceptsOK, EntriesOK, Entered
  <2>2. ConnectedOK'
    BY <1>0, <1>a, <1>b DEF EventsOK, ConnectedOK, EntriesOK, Entered
  <2>3. ErrorsOK'
    BY <1>0, <1>a, <1>b DEF EventsOK, ErrorsOK, EntriesOK, Entered
  <2> QED
    BY <2>1, <2>2, <2>3 DEF EventsOK
<1>5. ReadingOK'
  <2>1. ReadersOK'
    BY <1>0, <1>a DEF ReadingOK, ReadersOK, Reader, Lost
  <2>2. ReadersOwn'
    BY <1>0, <1>a DEF ReadingOK, ReadersOwn
  <2> QED
    BY <2>1, <2>2 DEF ReadingOK
<1> QED
  BY <1>1, <1>2, <1>3, <1>4, <1>5

\* A connect in progress has ended.
LEMMA ConnectedOwners ==
  ASSUME Typed, Tame, NoneRuns, NEW id \in Ids, sock[id].st = "connecting", told[id] = "none",
         NEW type \in {"CONNECT", "CONN_THEN_READ"},
         sock' = [sock EXCEPT ![id].st = "connected", ![id].rd = FALSE],
         told' = [told EXCEPT ![id] = type],
         UNCHANGED <<fault, pool, cst, own>>
  PROVE  OwnersInv'
<1> USE DEF Typed, OwnersInv, Calm, Has, Connected, NoneRuns
<1>0. /\ pool[id] # NoEntry /\ cst[pool[id].co] = "connect" /\ own[pool[id].co].id = id
      /\ sock[id].conn = own[pool[id].co].conn
  BY DEF ConnectingOK, ConnectsOK, Connects, ConnectingSlots, EntriesOK, Entered
<1>b. sock'[id].st = "connected" /\ ~sock'[id].rd /\ sock'[id].conn = sock[id].conn
      /\ sock' \in [Ids -> Slot]
  <2>1. sock[id] \in Slot
    OBVIOUS
  <2>2. sock'[id] = [st |-> "connected", rd |-> FALSE, queued |-> sock[id].queued,
                     conn |-> sock[id].conn]
    BY <2>1 DEF Slot
  <2>3. sock'[id] \in Slot
    BY <2>1, <2>2 DEF Slot
  <2> QED
    BY <2>2, <2>3
<1>1. EntriesOK'
  BY <1>0, <1>b DEF EntriesOK, Entered
<1>2. RunningOK'
  BY <1>0, <1>b DEF RunningOK, Runner
<1>3. ConnectingOK'
  <2>1. ConnectsOK'
    BY <1>0, <1>b DEF ConnectingOK, ConnectsOK, Connects
  <2>2. ConnectingSlots'
    BY <1>0, <1>b DEF ConnectingOK, ConnectingSlots
  <2> QED
    BY <2>1, <2>2 DEF ConnectingOK
<1>4. EventsOK'
  <2>1. AcceptsOK'
    BY <1>0, <1>b DEF EventsOK, AcceptsOK, EntriesOK, Entered
  <2>2. ConnectedOK'
    BY <1>0, <1>b DEF EventsOK, ConnectedOK, EntriesOK, Entered
  <2>3. ErrorsOK'
    BY <1>0, <1>b DEF EventsOK, ErrorsOK, EntriesOK, Entered
  <2> QED
    BY <2>1, <2>2, <2>3 DEF EventsOK
<1>5. ReadingOK'
  <2>1. ReadersOK'
    BY <1>0, <1>b DEF ReadingOK, ReadersOK, Reader, Lost
  <2>2. ReadersOwn'
    BY <1>0, <1>b DEF ReadingOK, ReadersOwn
  <2> QED
    BY <2>1, <2>2 DEF ReadingOK
<1> QED
  BY <1>1, <1>2, <1>3, <1>4, <1>5

(* A connect in progress has been refused. *)
LEMMA RefusedOwners ==
  ASSUME Typed, Tame, NoneRuns, NEW id \in Ids, sock[id].st = "connecting", told[id] = "none",
         sock' = [sock EXCEPT ![id] = FreeSlot],
         told' = [told EXCEPT ![id] = "CONNERR"],
         UNCHANGED <<fault, pool, cst, own>>
  PROVE  OwnersInv'
<1> USE DEF Typed, OwnersInv, Calm, Has, Connected, NoneRuns
<1>0. /\ pool[id] # NoEntry /\ cst[pool[id].co] = "connect" /\ own[pool[id].co].id = id
      /\ Calm => pool[id].buf = NoBuffer
  BY DEF ConnectingOK, ConnectsOK, Connects, ConnectingSlots, EntriesOK, Entered
<1>b. sock'[id].st = "free"
  BY DEF FreeSlot
<1>1. EntriesOK'
  BY <1>0, <1>b DEF EntriesOK, Entered
<1>2. RunningOK'
  BY <1>0, <1>b DEF RunningOK, Runner
<1>3. ConnectingOK'
  <2>1. ConnectsOK'
    BY <1>0, <1>b DEF ConnectingOK, ConnectsOK, Connects
  <2>2. ConnectingSlots'
    BY <1>0, <1>b DEF ConnectingOK, ConnectingSlots
  <2> QED
    BY <2>1, <2>2 DEF ConnectingOK
<1>4. EventsOK'
  <2>1. AcceptsOK'
    BY <1>0, <1>b DEF EventsOK, AcceptsOK, EntriesOK, Entered
  <2>2. ConnectedOK'
    BY <1>0, <1>b DEF EventsOK, ConnectedOK, EntriesOK, Entered
  <2>3. ErrorsOK'
    BY <1>0, <1>b DEF EventsOK, ErrorsOK, EntriesOK, Entered
  <2> QED
    BY <2>1, <2>2, <2>3 DEF EventsOK
<1>5. ReadingOK'
  <2>1. ReadersOK'
    BY <1>0, <1>b DEF ReadingOK, ReadersOK, Reader, Lost
  <2>2. ReadersOwn'
    BY <1>0, <1>b DEF ReadingOK, ReadersOwn
  <2> QED
    BY <2>1, <2>2 DEF ReadingOK
<1> QED
  BY <1>1, <1>2, <1>3, <1>4, <1>5

\* The write of what was queued has failed, or has ended a half closed socket.
LEMMA EndedOwners ==
  ASSUME Typed, Tame, NoneRuns, NEW id \in Ids, told[id] = "none",
         sock[id].st \in {"connected", "halfclose"},
         NEW type,
         \/ fault = "sockerr" /\ type = "SOCKERR"
         \/ sock[id].st = "halfclose" /\ type = "WRIDONECLOSE",
         sock' = [sock EXCEPT ![id] = FreeSlot],
         told' = [told EXCEPT ![id] = type],
         UNCHANGED <<fault, pool, cst, own>>
  PROVE  OwnersInv'
<1> USE DEF Typed, OwnersInv, Calm, Has, Connected, NoneRuns
<1>0. \A x \in Cos : own[x].id = id => cst[x] # "connect"
  BY DEF ConnectingOK, ConnectsOK, Connects, ConnectingSlots
<1>b. sock'[id].st = "free" /\ \A x \in Ids : x # id => sock'[x] = sock[x]
  BY DEF FreeSlot
<1>c. Calm => pool[id] = NoEntry
  BY DEF EntriesOK, Entered
<1>1. EntriesOK'
  BY <1>0, <1>b, <1>c DEF EntriesOK, Entered
<1>2. RunningOK'
  BY <1>0, <1>b DEF RunningOK, Runner
<1>3. ConnectingOK'
  <2>1. ConnectsOK'
    BY <1>0, <1>b DEF ConnectingOK, ConnectsOK, Connects
  <2>2. ConnectingSlots'
    BY <1>0, <1>b DEF ConnectingOK, ConnectingSlots
  <2> QED
    BY <2>1, <2>2 DEF ConnectingOK
<1>4. EventsOK'
  <2>1. AcceptsOK'
    BY <1>0, <1>b, <1>c DEF EventsOK, AcceptsOK, EntriesOK, Entered
  <2>2. ConnectedOK'
    BY <1>0, <1>b, <1>c DEF EventsOK, ConnectedOK, EntriesOK, Entered
  <2>3. ErrorsOK'
    BY <1>0, <1>b, <1>c DEF EventsOK, ErrorsOK, EntriesOK, Entered
  <2> QED
    BY <2>1, <2>2, <2>3 DEF EventsOK
<1>5. ReadingOK'
  <2>1. ReadersOK'
    BY <1>0, <1>b, <1>c DEF ReadingOK, ReadersOK, Reader, Lost, EntriesOK, Entered
  <2>2. ReadersOwn'
    BY <1>0, <1>b, <1>c DEF ReadingOK, ReadersOwn, EntriesOK, Entered
  <2> QED
    BY <2>1, <2>2 DEF ReadingOK
<1> QED
  BY <1>1, <1>2, <1>3, <1>4, <1>5

\* Bytes can be read, and what was queued may have been written.
LEMMA ReadableOwners ==
  ASSUME Typed, Tame, NoneRuns, NEW id \in Ids, told[id] = "none",
         sock[id].st \in {"connected", "halfclose"},
         sock' \in [Ids -> Slot], sock'[id].st = sock[id].st, sock'[id].rd = sock[id].rd,
         sock'[id].conn = sock[id].conn,
         sock[id].queued \/ ~sock'[id].queued,
         \A x \in Ids : x # id => sock'[x] = sock[x],
         \/ sock[id].rd /\ told' = [told EXCEPT ![id] = "READ"]
         \/ told' = told,
         UNCHANGED <<fault, pool, cst, own>>
  PROVE  OwnersInv'
<1> USE DEF Typed, OwnersInv, Calm, Has, Connected, NoneRuns
<1>0. \A x \in Cos : own[x].id = id => cst[x] # "connect"
  BY DEF ConnectingOK, ConnectsOK, Connects, ConnectingSlots
<1>b. /\ told'[id] \in {"READ", "none"} /\ (told'[id] = "READ" => sock[id].rd)
      /\ \A x \in Ids : x # id => told'[x] = told[x]
  OBVIOUS
<1>1. EntriesOK'
  BY <1>0, <1>b DEF EntriesOK, Entered
<1>2. RunningOK'
  BY <1>0, <1>b DEF RunningOK, Runner
<1>3. ConnectingOK'
  <2>1. ConnectsOK'
    BY <1>0, <1>b DEF ConnectingOK, ConnectsOK, Connects
  <2>2. ConnectingSlots'
    BY <1>0, <1>b DEF ConnectingOK, ConnectingSlots
  <2> QED
    BY <2>1, <2>2 DEF ConnectingOK
<1>4. EventsOK'
  <2>1. AcceptsOK'
    BY <1>0, <1>b DEF EventsOK, AcceptsOK, EntriesOK, Entered
  <2>2. ConnectedOK'
    BY <1>0, <1>b DEF EventsOK, ConnectedOK, EntriesOK, Entered
  <2>3. ErrorsOK'
    BY <1>0, <1>b DEF EventsOK, ErrorsOK, EntriesOK, Entered
  <2> QED
    BY <2>1, <2>2, <2>3 DEF EventsOK
<1>5. ReadingOK'
  <2>1. ReadersOK'
    BY <1>0, <1>b DEF ReadingOK, ReadersOK, Reader, Lost, EntriesOK, Entered
  <2>2. ReadersOwn'
    BY <1>0, <1>b DEF ReadingOK, ReadersOwn, EntriesOK, Entered
  <2> QED
    BY <2>1, <2>2 DEF ReadingOK
<1> QED
  BY <1>1, <1>2, <1>3, <1>4, <1>5

-----------------------------------------------------------------------------
\* An event is dispatched to a handler that resumes nobody; data may have
\* reached the buffer of a coroutine that has died.
LEMMA DroppedOwners ==
  ASSUME Typed, Tame, NEW id \in Ids,
         told[id] \in {"READ", "ACCEPT", "SOCKERR", "WRIDONECLOSE"},
         told' = [told EXCEPT ![id] = "none"],
         UNCHANGED <<fault, sock, pool, cst, own>>
  PROVE  OwnersInv'
<1> USE DEF Typed, OwnersInv, Calm, Has, Connected
<1>1. EntriesOK'
  BY DEF EntriesOK, Entered
<1>2. RunningOK'
  BY DEF RunningOK, Runner
<1>3. ConnectingOK'
  <2>1. ConnectsOK'
    BY DEF ConnectingOK, ConnectsOK, Connects
  <2>2. ConnectingSlots'
    BY DEF ConnectingOK, ConnectingSlots
  <2> QED
    BY <2>1, <2>2 DEF ConnectingOK
<1>4. EventsOK'
  <2>1. AcceptsOK'
    BY DEF EventsOK, AcceptsOK, EntriesOK, Entered
  <2>2. ConnectedOK'
    BY DEF EventsOK, ConnectedOK, EntriesOK, Entered
  <2>3. ErrorsOK'
    BY DEF EventsOK, ErrorsOK, EntriesOK, Entered
  <2> QED
    BY <2>1, <2>2, <2>3 DEF EventsOK
<1>5. ReadingOK'
  <2>1. ReadersOK'
    BY DEF ReadingOK, ReadersOK, Reader, Lost, EntriesOK, Entered
  <2>2. ReadersOwn'
    BY DEF ReadingOK, ReadersOwn, EntriesOK, Entered
  <2> QED
    BY <2>1, <2>2 DEF ReadingOK
<1> QED
  BY <1>1, <1>2, <1>3, <1>4, <1>5

\* Data for a coroutine that reads, or for one that has died.
LEMMA DataOwners ==
  ASSUME Typed, Tame, NoneRuns, NEW id \in Ids, told[id] = "READ",
         pool[id] # NoEntry, sock[id].st = "connected",
         told' = [told EXCEPT ![id] = "none"],
         pool' \in [Ids -> {NoEntry} \cup Entry],
         pool'[id] # NoEntry, pool'[id].co = pool[id].co,
         Calm /\ pool'[id].buf # NoBuffer =>
           \A i \in DOMAIN pool'[id].buf : pool'[id].buf[i] = sock[id].conn,
         \A x \in Ids : x # id => pool'[x] = pool[x],
         \/ cst[pool[id].co] = "read" /\ cst' = [cst EXCEPT ![pool[id].co] = "running"]
         \/ cst[pool[id].co] \notin {"connect", "read"} /\ cst' = cst,
         UNCHANGED <<fault, sock, own>>
  PROVE  OwnersInv'
<1> USE DEF Typed, OwnersInv, Calm, Has, Connected, NoneRuns
<1> DEFINE c == pool[id].co
<1>0. /\ c \in Cos /\ cst[c] \in {"read", "dead"} /\ (cst[c] = "read" => own[c].id = id)
      /\ \A x \in Ids : cst[c] = "read" /\ x # id /\ pool[x] # NoEntry => pool[x].co # c
  BY DEF EntriesOK, Entered
<1>a. \A x \in Cos : own[x].id = id => cst[x] # "connect"
  BY DEF ConnectingOK, ConnectsOK, Connects, ConnectingSlots
<1>b. cst[c] = "read" => /\ sock[id].conn = own[c].conn /\ own[c].rd
                         /\ fault = "none" => sock[id].rd
  BY DEF ReadingOK, ReadersOK, Reader, ReadersOwn, Lost
<1>1. EntriesOK'
  BY <1>0 DEF EntriesOK, Entered
<1>2. RunningOK'
  <2> HIDE DEF Typed, OwnersInv
  <2> SUFFICES ASSUME NEW x \in Cos, cst'[x] = "running", own'[x].id # 0
               PROVE  /\ pool'[own'[x].id] # NoEntry /\ pool'[own'[x].id].co = x
                      /\ sock'[own'[x].id].st = "connected"
                      /\ sock'[own'[x].id].conn = own'[x].conn
                      /\ fault = "none" => sock'[own'[x].id].rd = own'[x].rd
    BY Zenon DEF RunningOK, Runner, Has, Connected
  <2> USE DEF Typed, OwnersInv
  <2>1. x = c /\ cst[c] = "read"
    OBVIOUS
  <2> QED
    BY <2>1, <1>0, <1>b
<1>3. ConnectingOK'
  <2>1. ConnectsOK'
    <3>1. OtherWaits(id)
      BY <1>0, <1>a DEF ConnectingOK, ConnectsOK, Connects, OtherWaits
    <3>2. OtherSlots(id)
      BY DEF OtherSlots
    <3>3. ConnectsOK /\ fault' = fault
      BY DEF ConnectingOK
    <3> QED
      BY <3>1, <3>2, <3>3, OtherConnects, Zenon
  <2>2. ConnectingSlots'
    BY <1>0, <1>a, <1>b DEF ConnectingOK, ConnectingSlots
  <2> QED
    BY <2>1, <2>2 DEF ConnectingOK
<1>4. EventsOK'
  <2>1. AcceptsOK'
    BY <1>0, <1>a, <1>b DEF EventsOK, AcceptsOK, EntriesOK, Entered
  <2>2. ConnectedOK'
    BY <1>0, <1>a, <1>b DEF EventsOK, ConnectedOK, EntriesOK, Entered
  <2>3. ErrorsOK'
    BY <1>0, <1>a, <1>b DEF EventsOK, ErrorsOK, EntriesOK, Entered
  <2> QED
    BY <2>1, <2>2, <2>3 DEF EventsOK
<1>5. ReadingOK'
  <2>1. ReadersOK'
    BY <1>0, <1>a, <1>b DEF ReadingOK, ReadersOK, Reader, Lost, EntriesOK, Entered
  <2>2. ReadersOwn'
    BY <1>0, <1>a, <1>b DEF ReadingOK, ReadersOwn, EntriesOK, Entered
  <2> QED
    BY <2>1, <2>2 DEF ReadingOK
<1> QED
  BY <1>1, <1>2, <1>3, <1>4, <1>5

\* The end of a connection, or of a connect: disconnect and wakeup.
LEMMA EndOwners ==
  ASSUME Typed, Tame, NoneRuns, NEW id \in Ids, told[id] \in {"READ", "CONNERR"},
         pool[id] # NoEntry,
         sock' = [sock EXCEPT ![id] = FreeSlot],
         told' = [told EXCEPT ![id] = "none"],
         pool' = [pool EXCEPT ![id] = NoEntry],
         \/ /\ cst[pool[id].co] \in {"connect", "read"}
            /\ cst' = [cst EXCEPT ![pool[id].co] = "running"]
            /\ own' = [own EXCEPT ![pool[id].co] = NoSocket]
         \/ /\ cst[pool[id].co] \notin {"connect", "read"}
            /\ UNCHANGED <<cst, own>>,
         UNCHANGED fault
  PROVE  OwnersInv'
<1> USE DEF Typed, OwnersInv, Calm, Has, Connected, NoneRuns
<1> DEFINE c == pool[id].co
<1>0. /\ c \in Cos /\ cst[c] \in {"connect", "read", "dead"} /\ (cst[c] # "dead" => own[c].id = id)
      /\ \A x \in Ids : cst[c] # "dead" /\ x # id /\ pool[x] # NoEntry => pool[x].co # c
  BY DEF EntriesOK, Entered
<1>a. \A x \in Cos : own[x].id = id /\ cst[x] = "connect" => x = c
  BY DEF ConnectingOK, ConnectsOK, Connects, ConnectingSlots
<1>b. /\ sock'[id].st = "free" /\ \A x \in Ids : x # id => sock'[x] = sock[x]
      /\ pool'[id] = NoEntry /\ \A x \in Ids : x # id => pool'[x] = pool[x]
      /\ told'[id] = "none" /\ \A x \in Ids : x # id => told'[x] = told[x]
  BY DEF FreeSlot
<1>c. /\ \A x \in Cos : x # c => cst'[x] = cst[x] /\ own'[x] = own[x]
      /\ cst[c] = "dead" => cst'[c] = "dead"
      /\ cst[c] # "dead" => cst'[c] = "running" /\ own'[c].id = 0
  BY <1>0
<1>1. EntriesOK'
  BY <1>0, <1>b, <1>c DEF EntriesOK, Entered
<1>2. RunningOK'
  BY <1>0, <1>a, <1>b, <1>c DEF RunningOK, Runner
<1>3. ConnectingOK'
  <2>1. ConnectsOK'
    <3>1. OtherWaits(id)
      BY <1>a, <1>c DEF ConnectingOK, ConnectsOK, Connects, OtherWaits
    <3>2. OtherSlots(id)
      BY <1>b DEF OtherSlots
    <3>3. ConnectsOK /\ fault' = fault
      BY DEF ConnectingOK
    <3> QED
      BY <3>1, <3>2, <3>3, OtherConnects, Zenon
  <2>2. ConnectingSlots'
    BY <1>0, <1>a, <1>b, <1>c DEF ConnectingOK, ConnectingSlots
  <2> QED
    BY <2>1, <2>2 DEF ConnectingOK
<1>4. EventsOK'
  <2>1. AcceptsOK'
    BY <1>0, <1>a, <1>b, <1>c DEF EventsOK, AcceptsOK, EntriesOK, Entered
  <2>2. ConnectedOK'
    BY <1>0, <1>a, <1>b, <1>c DEF EventsOK, ConnectedOK, EntriesOK, Entered
  <2>3. ErrorsOK'
    BY <1>0, <1>a, <1>b, <1>c DEF EventsOK, ErrorsOK, EntriesOK, Entered
  <2> QED
    BY <2>1, <2>2, <2>3 DEF EventsOK
<1>5. ReadingOK'
  <2>1. ReadersOK'
    BY <1>0, <1>a, <1>b, <1>c DEF ReadingOK, ReadersOK, Reader, Lost, EntriesOK, Entered
  <2>2. ReadersOwn'
    BY <1>0, <1>a, <1>b, <1>c DEF ReadingOK, ReadersOwn, EntriesOK, Entered
  <2> QED
    BY <2>1, <2>2 DEF ReadingOK
<1> QED
  BY <1>1, <1>2, <1>3, <1>4, <1>5

\* A coroutine is started for the connection that has been accepted.
LEMMA StartOwners ==
  ASSUME Typed, Tame, NoneRuns, NEW id \in Ids, told[id] = "ACCEPT",
         NEW c \in Cos, cst[c] = "fresh", cst' = [cst EXCEPT ![c] = "running"],
         own' = [own EXCEPT ![c] = [id |-> id, conn |-> sock[id].conn, rd |-> FALSE]],
         told' = [told EXCEPT ![id] = "none"],
         pool' \in [Ids -> {NoEntry} \cup Entry],
         pool'[id] # NoEntry, pool'[id].co = c,
         pool'[id].buf = IF pool[id] = NoEntry THEN NoBuffer ELSE pool[id].buf,
         \A x \in Ids : x # id => pool'[x] = pool[x],
         UNCHANGED <<fault, sock>>
  PROVE  OwnersInv'
<1> USE DEF Typed, OwnersInv, Calm, Has, Connected, NoneRuns
<1>0. /\ \A x \in Ids : pool[x] # NoEntry => pool[x].co # c
      /\ Calm => pool[id] = NoEntry
      /\ sock[id].st = "connected" /\ ~sock[id].rd
  BY DEF EntriesOK, Entered, EventsOK, AcceptsOK, ConnectedOK, ErrorsOK
<1>a. \A x \in Cos : own[x].id = id => cst[x] # "connect"
  BY DEF ConnectingOK, ConnectsOK, Connects, ConnectingSlots
<1>b. own'[c].id = id /\ own'[c].conn = sock[id].conn /\ ~own'[c].rd
      /\ \A x \in Cos : x # c => own'[x] = own[x] /\ cst'[x] = cst[x]
  OBVIOUS
<1>1. EntriesOK'
  BY <1>0, <1>a, <1>b DEF EntriesOK, Entered
<1>2. RunningOK'
  <2> HIDE DEF Typed, OwnersInv
  <2> SUFFICES ASSUME NEW x \in Cos, cst'[x] = "running", own'[x].id # 0
               PROVE  /\ pool'[own'[x].id] # NoEntry /\ pool'[own'[x].id].co = x
                      /\ sock'[own'[x].id].st = "connected"
                      /\ sock'[own'[x].id].conn = own'[x].conn
                      /\ fault = "none" => sock'[own'[x].id].rd = own'[x].rd
    BY Zenon DEF RunningOK, Runner, Has, Connected
  <2> USE DEF Typed, OwnersInv
  <2>1. x = c /\ own'[x].id = id
    BY <1>b
  <2>2. sock[id] \in Slot /\ own'[c].rd = FALSE
    OBVIOUS
  <2>3. sock[id].rd = own'[x].rd
    BY <2>1, <2>2, <1>0 DEF Slot
  <2> QED
    BY <2>1, <2>3, <1>0, <1>b
<1>3. ConnectingOK'
  <2>1. ConnectsOK'
    <3>1. OtherWaits(id)
      BY <1>a, <1>b DEF ConnectingOK, ConnectsOK, Connects, OtherWaits
    <3>2. OtherSlots(id)
      BY DEF OtherSlots
    <3>3. ConnectsOK /\ fault' = fault
      BY DEF ConnectingOK
    <3> QED
      BY <3>1, <3>2, <3>3, OtherConnects, Zenon
  <2>2. ConnectingSlots'
    BY <1>0, <1>a, <1>b DEF ConnectingOK, ConnectingSlots
  <2> QED
    BY <2>1, <2>2 DEF ConnectingOK
<1>4. EventsOK'
  <2>1. AcceptsOK'
    BY <1>0, <1>a, <1>b DEF EventsOK, AcceptsOK, EntriesOK, Entered
  <2>2. ConnectedOK'
    BY <1>0, <1>a, <1>b DEF EventsOK, ConnectedOK, EntriesOK, Entered
  <2>3. ErrorsOK'
    BY <1>0, <1>a, <1>b DEF EventsOK, ErrorsOK, EntriesOK, Entered
  <2> QED
    BY <2>1, <2>2, <2>3 DEF EventsOK
<1>5. ReadingOK'
  <2>1. ReadersOK'
    BY <1>0, <1>a, <1>b DEF ReadingOK, ReadersOK, Reader, Lost
  <2>2. ReadersOwn'
    BY <1>0, <1>a, <1>b DEF ReadingOK, ReadersOwn
  <2> QED
    BY <2>1, <2>2 DEF ReadingOK
<1> QED
  BY <1>1, <1>2, <1>3, <1>4, <1>5

\* A connect has succeeded.
LEMMA WokenOwners ==
  ASSUME Typed, Tame, NoneRuns, NEW id \in Ids, told[id] \in {"CONNECT", "CONN_THEN_READ"},
         pool[id] # NoEntry, cst' = [cst EXCEPT ![pool[id].co] = "running"],
         NEW type \in {"none", "READ"}, told' = [told EXCEPT ![id] = type],
         UNCHANGED <<fault, sock, pool, own>>
  PROVE  OwnersInv'
<1> USE DEF Typed, OwnersInv, Calm, Has, Connected, NoneRuns
<1> DEFINE c == pool[id].co
<1>0. /\ c \in Cos /\ cst[c] = "connect" /\ own[c].id = id /\ ~own[c].rd
      /\ \A x \in Ids : x # id /\ pool[x] # NoEntry => pool[x].co # c
      /\ sock[id].st = "connected" /\ sock[id].conn = own[c].conn /\ ~sock[id].rd
  BY DEF EntriesOK, Entered, EventsOK, AcceptsOK, ConnectedOK, ErrorsOK, ConnectingOK, ConnectsOK, Connects, ConnectingSlots
<1>a. \A x \in Cos : own[x].id = id /\ cst[x] = "connect" => x = c
  BY DEF ConnectingOK, ConnectsOK, Connects, ConnectingSlots
<1>1. EntriesOK'
  BY <1>0, <1>a DEF EntriesOK, Entered
<1>2. RunningOK'
  <2> HIDE DEF Typed, OwnersInv
  <2> SUFFICES ASSUME NEW x \in Cos, cst'[x] = "running", own'[x].id # 0
               PROVE  /\ pool'[own'[x].id] # NoEntry /\ pool'[own'[x].id].co = x
                      /\ sock'[own'[x].id].st = "connected"
                      /\ sock'[own'[x].id].conn = own'[x].conn
                      /\ fault = "none" => sock'[own'[x].id].rd = own'[x].rd
    BY Zenon DEF RunningOK, Runner, Has, Connected
  <2> USE DEF Typed, OwnersInv
  <2>1. x = c /\ own'[x].id = id
    BY <1>0
  <2>2. sock[id] \in Slot /\ own[c] \in Owns
    BY <1>0
  <2>3. sock[id].rd = own'[x].rd
    BY <2>1, <2>2, <1>0 DEF Slot, Owns
  <2> QED
    BY <2>1, <2>3, <1>0
<1>3. ConnectingOK'
  <2>1. ConnectsOK'
    BY <1>0, <1>a DEF ConnectingOK, ConnectsOK, Connects
  <2>2. ConnectingSlots'
    BY <1>0, <1>a DEF ConnectingOK, ConnectingSlots
  <2> QED
    BY <2>1, <2>2 DEF ConnectingOK
<1>4. EventsOK'
  <2>1. AcceptsOK'
    BY <1>0, <1>a DEF EventsOK, AcceptsOK, EntriesOK, Entered
  <2>2. ConnectedOK'
    BY <1>0, <1>a DEF EventsOK, ConnectedOK, EntriesOK, Entered
  <2>3. ErrorsOK'
    BY <1>0, <1>a DEF EventsOK, ErrorsOK, EntriesOK, Entered
  <2> QED
    BY <2>1, <2>2, <2>3 DEF EventsOK
<1>5. ReadingOK'
  <2>1. ReadersOK'
    BY <1>0, <1>a DEF ReadingOK, ReadersOK, Reader, Lost, EntriesOK, Entered
  <2>2. ReadersOwn'
    BY <1>0, <1>a DEF ReadingOK, ReadersOwn, EntriesOK, Entered
  <2> QED
    BY <2>1, <2>2 DEF ReadingOK
<1> QED
  BY <1>1, <1>2, <1>3, <1>4, <1>5

-----------------------------------------------------------------------------
(* What a step has to keep under the faults of Tame. *)
Keeps == OneEventEach' /\ PolledOnce' /\ OwnersInv'

(* Nothing runs while the stack is empty. *)
LEMMA QuietRuns ==
  ASSUME CoTable, stack = <<>>
  PROVE  NoneRuns
<1>1. DOMAIN stack = {}
  OBVIOUS
<1> QED
  BY <1>1 DEF CoTable, RunningStacked, NoneRuns

(* A slot is taken again only when no event names it. *)
LEMMA FreshSlot ==
  ASSUME TableInv, Tame, OneEventEach, NEW id, NEW st \in {"connecting", "connected"},
         NEW rd \in BOOLEAN, Create(id, st, rd)
  PROVE  /\ id \in Ids /\ sock[id].st = "free" /\ told[id] = "none"
         /\ conns + 1 \in 1 .. MaxConns
         /\ sock' = [sock EXCEPT ![id] = [st |-> st, rd |-> rd, queued |-> FALSE,
                                          conn |-> conns + 1]]
<1>1. /\ id \in Ids /\ sock[id].st = "free" /\ conns + 1 \in 1 .. MaxConns
      /\ sock' = [sock EXCEPT ![id] = [st |-> st, rd |-> rd, queued |-> FALSE,
                                       conn |-> conns + 1]]
  BY CreateTable DEF TableInv
<1>2. told[id] = "none"
  <2>1. \A i \in DOMAIN batch : batch[i].id # id
    BY DEF Create, Tame
  <2> QED
    BY <1>1, <2>1, ToldMeans DEF ToldRight, TableInv, PollTable
<1> QED
  BY <1>1, <1>2

(* A poll keeps the owners. *)
LEMMA PollEventKeeps ==
  ASSUME TableInv, Tame, OneEventEach, PolledOnce, OwnersInv,
         NEW id \in Ids, PollEvent(id), UNCHANGED fault
  PROVE  Keeps
<1>1. Typed /\ NoneRuns
  BY IsTyped, QuietRuns DEF TableInv, PollTable, PollEvent
<1>2. /\ phase = "poll" /\ phase' = "poll" /\ id \notin polled /\ polled' = polled \cup {id}
      /\ UNCHANGED <<pool, cst, own>> /\ batch \in Seq(Event)
  BY DEF PollEvent, co_vars, TableInv, PollTable
<1>3. sock[id].st # "free" /\ told[id] = "none" /\ sock[id] \in Slot
  BY <1>1, <1>2 DEF PolledOnce, Typed
<1>4. ASSUME NEW x \in Ids, x = id \/ sock[x].st = "free",
             \A y \in Ids : y # x => sock'[y] = sock[y] /\ told'[y] = told[y]
      PROVE  PolledOnce'
  <2>1. x \in polled'
    BY <1>2, <1>4 DEF PolledOnce
  <2> QED
    BY <2>1, <1>1, <1>2, <1>4 DEF PolledOnce, Typed
<1>5a. CASE CreateThenClose /\ UNCHANGED batch
  <2>1. UNCHANGED sock /\ told' = told /\ OneEventEach'
    BY <1>5a, ToldSame DEF CreateThenClose
  <2>2. OwnersInv'
    BY <2>1, <1>2, OwnersSame
  <2>3. PolledOnce'
    BY <2>1, <1>2 DEF PolledOnce
  <2> QED
    BY <2>1, <2>2, <2>3 DEF Keeps
<1>5. CASE PollAccept /\ ~(CreateThenClose /\ UNCHANGED batch)
  <2>1. PICK x \in Ids : Create(x, "connected", FALSE) /\ Emit("ACCEPT", x)
    BY <1>5 DEF PollAccept
  <2>2. /\ sock[x].st = "free" /\ told[x] = "none" /\ conns + 1 \in 1 .. MaxConns
        /\ sock' = [sock EXCEPT ![x] = [st |-> "connected", rd |-> FALSE, queued |-> FALSE,
                                        conn |-> conns + 1]]
    BY <2>1, FreshSlot
  <2>3. "ACCEPT" \in Types
    BY DEF Types
  <2>4. OneEventEach' /\ told' = [told EXCEPT ![x] = "ACCEPT"]
    BY <2>1, <2>2, <2>3, <1>2, EmitTold
  <2>5. OwnersInv'
    BY <2>2, <2>4, <1>1, <1>2, AcceptOwners
  <2>6. \A y \in Ids : y # x => sock'[y] = sock[y] /\ told'[y] = told[y]
    BY <2>2, <2>4, <1>1 DEF Typed
  <2>7. PolledOnce'
    BY <2>2, <2>6, <1>4
  <2> QED
    BY <2>4, <2>5, <2>7 DEF Keeps
<1>6. CASE sock[id].st = "connecting" /\ PollConnect(id)
  <2>1. ASSUME NEW type \in {"CONNECT", "CONN_THEN_READ"}, Emit(type, id),
               sock' = [sock EXCEPT ![id].st = "connected", ![id].rd = FALSE]
        PROVE  Keeps
    <3>1. type \in Types
      BY DEF Types
    <3>2. OneEventEach' /\ told' = [told EXCEPT ![id] = type]
      BY <2>1, <3>1, <1>2, <1>3, EmitTold
    <3>3. OwnersInv'
      BY <2>1, <3>2, <1>1, <1>2, <1>3, <1>6, ConnectedOwners
    <3>4. \A y \in Ids : y # id => sock'[y] = sock[y] /\ told'[y] = told[y]
      BY <2>1, <3>2, <1>1 DEF Typed
    <3>5. PolledOnce'
      BY <3>4, <1>4
    <3> QED
      BY <3>2, <3>3, <3>5 DEF Keeps
  <2>2. CASE CClose(id) /\ Emit("CONNERR", id)
    <3>1. "CONNERR" \in Types
      BY DEF Types
    <3>2. OneEventEach' /\ told' = [told EXCEPT ![id] = "CONNERR"]
      BY <2>2, <3>1, <1>2, <1>3, EmitTold
    <3>3. sock' = [sock EXCEPT ![id] = FreeSlot]
      BY <2>2 DEF CClose
    <3>4. OwnersInv'
      BY <3>2, <3>3, <1>1, <1>2, <1>3, <1>6, RefusedOwners
    <3>5. \A y \in Ids : y # id => sock'[y] = sock[y] /\ told'[y] = told[y]
      BY <3>2, <3>3, <1>1 DEF Typed
    <3>6. PolledOnce'
      BY <3>5, <1>4
    <3> QED
      BY <3>2, <3>4, <3>6 DEF Keeps
  <2> QED
    BY <1>6, <2>1, <2>2 DEF PollConnect
<1>7. CASE sock[id].st \notin {"listen", "connecting"} /\ PollData(id)
  <2>0. sock[id].st \in {"connected", "halfclose"}
    BY <1>3, <1>7 DEF Slot
  <2>1. ASSUME NEW type \in {"SOCKERR", "WRIDONECLOSE"}, Emit(type, id), CClose(id),
               \/ fault = "sockerr" /\ type = "SOCKERR"
               \/ sock[id].st = "halfclose" /\ type = "WRIDONECLOSE"
        PROVE  Keeps
    <3>1. type \in Types
      BY DEF Types
    <3>2. OneEventEach' /\ told' = [told EXCEPT ![id] = type]
      BY <2>1, <3>1, <1>2, <1>3, EmitTold
    <3>3. sock' = [sock EXCEPT ![id] = FreeSlot]
      BY <2>1 DEF CClose
    <3>4. OwnersInv'
      BY <2>0, <2>1, <3>2, <3>3, <1>1, <1>2, <1>3, EndedOwners
    <3>5. \A y \in Ids : y # id => sock'[y] = sock[y] /\ told'[y] = told[y]
      BY <3>2, <3>3, <1>1 DEF Typed
    <3>6. PolledOnce'
      BY <3>5, <1>4
    <3> QED
      BY <3>2, <3>4, <3>6 DEF Keeps
  <2>2. ASSUME \/ UNCHANGED sock
               \/ sock[id].queued /\ sock' = [sock EXCEPT ![id].queued = FALSE],
               (sock[id].rd /\ Emit("READ", id)) \/ UNCHANGED batch
        PROVE  Keeps
    <3>1. "READ" \in Types
      BY DEF Types
    <3>2. OneEventEach' /\ (\/ sock[id].rd /\ told' = [told EXCEPT ![id] = "READ"]
                            \/ told' = told)
      BY <2>2, <3>1, <1>2, <1>3, EmitTold, ToldSame
    <3>3. PICK s \in Slot : /\ sock' = [sock EXCEPT ![id] = s]
                            /\ s.st = sock[id].st /\ s.rd = sock[id].rd
                            /\ s.conn = sock[id].conn /\ (sock[id].queued \/ ~s.queued)
      <4>1. CASE UNCHANGED sock
        <5>1. sock' = [sock EXCEPT ![id] = sock[id]]
          BY <4>1, <1>1 DEF Typed
        <5> QED
          BY <5>1, <1>3
      <4>2. CASE sock[id].queued /\ sock' = [sock EXCEPT ![id].queued = FALSE]
        <5>1. [sock[id] EXCEPT !.queued = FALSE] \in Slot
          BY <1>3 DEF Slot
        <5> QED
          BY <4>2, <5>1, <1>3 DEF Slot
      <4> QED
        BY <2>2, <4>1, <4>2
    <3>4. /\ sock' \in [Ids -> Slot] /\ sock'[id] = s
          /\ \A x \in Ids : x # id => sock'[x] = sock[x]
      BY <3>3, <1>1 DEF Typed
    <3>5. OwnersInv'
      BY <2>0, <3>2, <3>3, <3>4, <1>1, <1>2, <1>3, ReadableOwners
    <3>6. \A y \in Ids : y # id => told'[y] = told[y]
      BY <3>2, <1>1 DEF Typed
    <3>7. PolledOnce'
      BY <3>4, <3>6, <1>4
    <3> QED
      BY <3>2, <3>5, <3>7 DEF Keeps
  <2> QED
    BY <1>7, <2>1, <2>2 DEF PollData
<1> QED
  BY <1>5a, <1>5, <1>6, <1>7 DEF PollEvent

(* What a dispatch does to the batch. *)
LEMMA DispatchTakes ==
  ASSUME TableInv, OneEventEach, Dispatch
  PROVE  /\ Head(batch) \in Event /\ Head(batch).id \in Ids /\ Head(batch).type \in Types
         /\ told[Head(batch).id] = Head(batch).type
         /\ OneEventEach'
         /\ told' = [told EXCEPT ![Head(batch).id] =
                       IF Head(batch).type = "CONN_THEN_READ" THEN "READ" ELSE "none"]
<1>1. batch # <<>> /\ batch \in Seq(Event)
  BY DEF Dispatch, TableInv, PollTable
<1>2. /\ Head(batch) \in Event /\ Head(batch).id \in Ids /\ Head(batch).type \in Types
      /\ told[Head(batch).id] = Head(batch).type
  BY <1>1, BatchTail
<1>3. CASE Head(batch).type = "CONN_THEN_READ"
  <2> DEFINE d == [Head(batch) EXCEPT !.type = "READ"]
  <2>1. d \in Event /\ d.id = Head(batch).id /\ d.type = "READ"
    BY <1>2, AgainEvent
  <2>2. batch' = Behind(d)
    BY <1>3 DEF Dispatch, Behind
  <2> HIDE DEF d
  <2>3. OneEventEach' /\ told' = [told EXCEPT ![d.id] = d.type]
    BY <2>1, <2>2, <1>1, AgainTold
  <2> QED
    BY <2>1, <2>3, <1>2, <1>3
<1>4. CASE Head(batch).type # "CONN_THEN_READ"
  <2>1. batch' = Tail(batch)
    BY <1>4 DEF Dispatch
  <2>2. OneEventEach' /\ told' = [told EXCEPT ![Head(batch).id] = "none"]
    BY <2>1, <1>1, TakeTold
  <2> QED
    BY <2>2, <1>2, <1>4
<1> QED
  BY <1>3, <1>4

\* What a handler that fails to resume leaves, and what one that resumes does.
LEMMA WakeupIs ==
  ASSUME NEW c, NEW result, Wakeup(c, result)
  PROVE  \/ /\ cst[c] \in {"connect", "read"} /\ cst' = [cst EXCEPT ![c] = "running"]
            /\ own' = IF result.kind = "error" THEN [own EXCEPT ![c] = NoSocket] ELSE own
         \/ cst[c] \notin {"connect", "read"} /\ UNCHANGED <<cst, own>>
  BY DEF Wakeup, co_vars

(* The buffer b after a read of n units of connection k. *)
Filled(b, n, k) == b \o [i \in 1 .. n |-> k]

(* What a pop makes of the buffer f that b was filled to. *)
Popped(f, b, k) ==
  /\ Tail(f) \in Seq(1 .. MaxConns) /\ Head(f) \in 1 .. MaxConns
  /\ (\A i \in DOMAIN b : b[i] = k) =>
       Head(f) = k /\ \A i \in DOMAIN Tail(f) : Tail(f)[i] = k

(* The buffer after a push and a pop is of one connection if it was. *)
LEMMA FilledBuffer ==
  ASSUME NEW b \in Seq(1 .. MaxConns), NEW n \in Nat, NEW k \in 1 .. MaxConns,
         NEW f, f = Filled(b, n, k), f # <<>>
  PROVE  Popped(f, b, k)
<1>1. /\ f \in Seq(1 .. MaxConns)
      /\ \A i \in DOMAIN f : f[i] = k \/ \E j \in DOMAIN b : f[i] = b[j]
  BY BufferFill DEF Filled
<1>2. f # <<>>
  OBVIOUS
<1>3. /\ Tail(f) \in Seq(1 .. MaxConns) /\ Head(f) = f[1] /\ Head(f) \in 1 .. MaxConns
      /\ 1 \in DOMAIN f
      /\ \A i \in DOMAIN Tail(f) : i + 1 \in DOMAIN f /\ Tail(f)[i] = f[i+1]
  BY <1>1, <1>2, BufferPop
<1>4. ASSUME \A i \in DOMAIN b : b[i] = k
      PROVE  Head(f) = k /\ \A i \in DOMAIN Tail(f) : Tail(f)[i] = k
  <2>1. \A i \in DOMAIN f : f[i] = k
    BY <1>1, <1>4
  <2> QED
    BY <2>1, <1>3
<1> QED
  BY <1>3, <1>4 DEF Popped

(* Who connects is told another event. *)
LEMMA ReaderIsNotConnecting ==
  ASSUME Typed, NEW id \in Ids, pool[id] # NoEntry, told[id] = "READ"
  PROVE  cst[pool[id].co] # "connect"
<1> SUFFICES ASSUME cst[pool[id].co] = "connect" PROVE FALSE
  OBVIOUS
<1>1. EntriesOK /\ ConnectingOK
  BY DEF Typed, OwnersInv
<1>2. PICK c \in Cos : c = pool[id].co
  BY DEF Typed
<1>3. own[c].id = id
  BY <1>1, <1>2 DEF EntriesOK, Entered, Has
<1>4. told[own[c].id] \in {"none", "CONNECT", "CONN_THEN_READ", "CONNERR"}
  BY <1>1, <1>2 DEF ConnectingOK, ConnectsOK, Connects, ConnectingSlots
<1> QED
  BY <1>3, <1>4

(* The handler of read events keeps the owners. *)
LEMMA OnReadKeeps ==
  ASSUME TableInv, TableInv', Typed, Tame, NoneRuns, NEW id \in Ids, told[id] = "READ",
         told' = [told EXCEPT ![id] = "none"], OnRead(id), UNCHANGED fault
  PROVE  OwnersInv'
<1>1. CASE UNCHANGED <<c_vars, pool, co_vars, failed>>
  BY <1>1, DroppedOwners DEF c_vars, co_vars
<1>2. CASE pool[id] # NoEntry /\ Disconnect(id, TRUE) /\ Wakeup(pool[id].co, Error)
  <2>1. sock' = [sock EXCEPT ![id] = FreeSlot] /\ pool' = [pool EXCEPT ![id] = NoEntry]
    BY <1>2 DEF Disconnect, CCloseCall, CClose
  <2>2. \/ /\ cst[pool[id].co] \in {"connect", "read"}
           /\ cst' = [cst EXCEPT ![pool[id].co] = "running"]
           /\ own' = [own EXCEPT ![pool[id].co] = NoSocket]
        \/ /\ cst[pool[id].co] \notin {"connect", "read"}
           /\ UNCHANGED <<cst, own>>
    BY <1>2, WakeupIs DEF Error
  <2> QED
    BY <1>2, <2>1, <2>2, EndOwners
<1>3. ASSUME pool[id] # NoEntry, CReads(id, "data"), UNCHANGED c_vars,
             pool[id].buf # NoBuffer, NEW n \in 0 .. MaxUnits,
             NEW buf, buf = pool[id].buf \o [i \in 1 .. n |-> sock[id].conn],
             buf # <<>>, pool' = [pool EXCEPT ![id].buf = Tail(buf)],
             Wakeup(pool[id].co, [kind |-> "data", conn |-> Head(buf)])
      PROVE  OwnersInv'
  <2>0. pool[id] # NoEntry /\ pool[id].buf # NoBuffer
    BY <1>3
  <2>1. pool[id].co \in Cos /\ pool[id].buf \in Seq(1 .. MaxConns)
    BY <2>0, EntryTyped DEF TableInv
  <2>2. sock[id].conn \in 1 .. MaxConns /\ sock[id].st = "connected"
    <3>1. sock[id].st = "connected"
      BY <1>3 DEF CReads
    <3> QED
      BY <3>1, LuaSocketAssumption DEF TableInv, CTable, SlotsHold, Slot, NoConn
  <2>3. n \in Nat
    BY LuaSocketAssumption
  <2>4. /\ Tail(buf) \in Seq(1 .. MaxConns)
        /\ (\A i \in DOMAIN pool[id].buf : pool[id].buf[i] = sock[id].conn) =>
             \A i \in DOMAIN Tail(buf) : Tail(buf)[i] = sock[id].conn
    <3>1. PICK b \in Seq(1 .. MaxConns) : b = pool[id].buf
      BY <2>1
    <3>2. PICK k \in 1 .. MaxConns : k = sock[id].conn
      BY <2>2
    <3>3. buf = Filled(b, n, k) /\ buf # <<>>
      BY <1>3, <3>1, <3>2 DEF Filled
    <3>4. Popped(buf, b, k)
      BY <3>3, <2>3, FilledBuffer
    <3> QED
      BY <3>1, <3>2, <3>4 DEF Popped
  <2>5. /\ PoolTable' /\ pool'[id] # NoEntry
        /\ pool'[id].co = pool[id].co /\ pool'[id].buf = Tail(buf)
        /\ \A x \in Ids : x # id => pool'[x] = pool[x]
    <3>1. PoolTable
      BY DEF TableInv
    <3>2. PICK b \in {NoBuffer} \cup Seq(1 .. MaxConns) : b = Tail(buf)
      BY <2>4
    <3>3. pool' = [pool EXCEPT ![id].buf = b]
      BY <1>3, <3>2
    <3>4. /\ PoolTable' /\ pool'[id] # NoEntry
          /\ pool'[id].co = pool[id].co /\ pool'[id].buf = b
          /\ \A x \in Ids : x # id => pool'[x] = pool[x]
      BY <1>3, <3>1, <3>3, RefillTable
    <3> QED
      BY <3>2, <3>4
  <2>6. Calm => \A i \in DOMAIN pool[id].buf : pool[id].buf[i] = sock[id].conn
    BY <1>3 DEF Typed, OwnersInv, EntriesOK, Entered, Has
  <2>7. Calm /\ pool'[id].buf # NoBuffer =>
           \A i \in DOMAIN pool'[id].buf : pool'[id].buf[i] = sock[id].conn
    BY <2>4, <2>5, <2>6
  <2>8. own' = own /\ \/ /\ cst[pool[id].co] \in {"connect", "read"}
                         /\ cst' = [cst EXCEPT ![pool[id].co] = "running"]
                      \/ cst[pool[id].co] \notin {"connect", "read"} /\ cst' = cst
    <3> DEFINE r == [kind |-> "data", conn |-> Head(buf)]
    <3>1. r.kind # "error"
      OBVIOUS
    <3> HIDE DEF r
    <3>2. Wakeup(pool[id].co, r)
      BY <1>3 DEF r
    <3> QED
      BY <3>1, <3>2, WakeupIs
  <2>9. cst[pool[id].co] # "connect"
    BY <1>3, ReaderIsNotConnecting
  <2>10. pool' \in [Ids -> {NoEntry} \cup Entry] /\ UNCHANGED sock
    BY <2>5, <1>3 DEF PoolTable, c_vars
  <2> QED
    BY <1>3, <2>2, <2>5, <2>7, <2>8, <2>9, <2>10, DataOwners
<1>4. CASE /\ pool[id] # NoEntry /\ CReads(id, "data") /\ UNCHANGED c_vars
           /\ pool[id].buf # NoBuffer
           /\ \E n \in 0 .. MaxUnits :
                LET buf == pool[id].buf \o [i \in 1 .. n |-> sock[id].conn] IN
                /\ buf # <<>> /\ Len(buf) <= MaxUnits
                /\ pool' = [pool EXCEPT ![id].buf = Tail(buf)]
                /\ Wakeup(pool[id].co, [kind |-> "data", conn |-> Head(buf)])
  BY <1>3, <1>4
<1> QED
  BY <1>1, <1>2, <1>4 DEF OnRead

(* Every handler keeps the owners. *)
LEMMA DispatchKeeps ==
  ASSUME TableInv, TableInv', Tame, OneEventEach, OwnersInv, Dispatch, UNCHANGED fault
  PROVE  Keeps
<1>1. Typed /\ NoneRuns /\ PoolTable /\ PolledOnce'
  BY IsTyped, QuietRuns DEF TableInv, Dispatch, PolledOnce
<1>2. PICK e \in Event : e = Head(batch)
  BY DispatchTakes
<1>3. e.id \in Ids /\ e.type \in Types /\ told[e.id] = e.type /\ OneEventEach'
      /\ told' = [told EXCEPT ![e.id] = IF e.type = "CONN_THEN_READ" THEN "READ" ELSE "none"]
  BY <1>2, DispatchTakes
<1>4. PICK id \in Ids : id = e.id
  BY <1>3
<1>5. PICK type \in Types : type = e.type
  BY <1>3
<1>6. /\ told[id] = type
      /\ told' = [told EXCEPT ![id] = IF type = "CONN_THEN_READ" THEN "READ" ELSE "none"]
  BY <1>3, <1>4, <1>5
<1>7. CASE type = "READ"
  <2>1. OnRead(id)
    BY <1>2, <1>4, <1>5, <1>7 DEF Dispatch
  <2>2. OwnersInv'
    BY <2>1, <1>1, <1>6, <1>7, OnReadKeeps
  <2> QED
    BY <2>2, <1>1, <1>3 DEF Keeps
<1>8. CASE type = "ACCEPT"
  <2>1. OnAccept(id)
    BY <1>2, <1>4, <1>5, <1>8 DEF Dispatch
  <2>2. CASE UNCHANGED <<c_vars, pool, co_vars, failed>>
    BY <2>2, <1>1, <1>3, <1>6, <1>8, DroppedOwners DEF c_vars, co_vars, Keeps
  <2>3. ASSUME NEW c \in Cos, cst[c] = "fresh", cst' = [cst EXCEPT ![c] = "running"],
               own' = [own EXCEPT ![c] = [id |-> id, conn |-> sock[id].conn, rd |-> FALSE]],
               Start(id, c), UNCHANGED c_vars
        PROVE  Keeps
    <3>1. /\ PoolTable' /\ pool'[id] # NoEntry /\ pool'[id].co = c
          /\ pool'[id].buf = IF pool[id] = NoEntry THEN NoBuffer ELSE pool[id].buf
          /\ \A x \in Ids : x # id => pool'[x] = pool[x]
      BY <2>3, <1>1, StartTable
    <3>2. OwnersInv'
      BY <2>3, <3>1, <1>1, <1>6, <1>8, StartOwners DEF PoolTable, c_vars
    <3> QED
      BY <3>2, <1>1, <1>3 DEF Keeps
  <2> QED
    BY <2>1, <2>2, <2>3 DEF OnAccept
<1>9. CASE type \in {"CONNECT", "CONN_THEN_READ"}
  <2>1. OnConnect(id) /\ UNCHANGED <<c_vars, pool>>
    BY <1>2, <1>4, <1>5, <1>9 DEF Dispatch
  <2>2. pool[id] # NoEntry /\ cst[pool[id].co] = "connect"
    BY <1>1, <1>6, <1>9 DEF Typed, OwnersInv, EventsOK, AcceptsOK, ConnectedOK, ErrorsOK, Has
  <2>3. own' = own /\ cst' = [cst EXCEPT ![pool[id].co] = "running"]
    <3> DEFINE r == [kind |-> "ok", conn |-> NoConn]
    <3>1. r.kind # "error"
      OBVIOUS
    <3>2. Wakeup(pool[id].co, r)
      BY <2>1, <2>2 DEF OnConnect
    <3> HIDE DEF r
    <3> QED
      BY <2>2, <3>1, <3>2, WakeupIs
  <2>4. OwnersInv'
    <3>1. PICK t \in {"none", "READ"} : told' = [told EXCEPT ![id] = t]
      BY <1>6
    <3> QED
      BY <2>1, <2>2, <2>3, <3>1, <1>1, <1>6, <1>9, WokenOwners DEF c_vars
  <2> QED
    BY <2>4, <1>1, <1>3 DEF Keeps
<1>10. CASE type = "CONNERR"
  <2>1. OnConnErr(id)
    BY <1>2, <1>4, <1>5, <1>10 DEF Dispatch
  <2>2. pool[id] # NoEntry
    BY <1>1, <1>6, <1>10 DEF Typed, OwnersInv, EventsOK, AcceptsOK, ConnectedOK, ErrorsOK, Has
  <2>3. sock' = [sock EXCEPT ![id] = FreeSlot] /\ pool' = [pool EXCEPT ![id] = NoEntry]
    BY <2>1, <2>2 DEF OnConnErr, Disconnect, CCloseCall, CClose
  <2>4. \/ /\ cst[pool[id].co] \in {"connect", "read"}
           /\ cst' = [cst EXCEPT ![pool[id].co] = "running"]
           /\ own' = [own EXCEPT ![pool[id].co] = NoSocket]
        \/ /\ cst[pool[id].co] \notin {"connect", "read"}
           /\ UNCHANGED <<cst, own>>
    BY <2>1, <2>2, WakeupIs DEF OnConnErr, Error
  <2>5. OwnersInv'
    BY <2>2, <2>3, <2>4, <1>1, <1>6, <1>10, EndOwners
  <2> QED
    BY <2>5, <1>1, <1>3 DEF Keeps
<1>11. CASE type \in {"SOCKERR", "WRIDONECLOSE"}
  <2>1. UNCHANGED <<c_vars, pool, co_vars>>
    BY <1>2, <1>4, <1>5, <1>11 DEF Dispatch
  <2> QED
    BY <2>1, <1>1, <1>3, <1>6, <1>11, DroppedOwners DEF c_vars, co_vars, Keeps
<1> QED
  BY <1>7, <1>8, <1>9, <1>10, <1>11 DEF Types

(* What a coroutine does keeps the owners. *)
LEMMA RunKeeps ==
  ASSUME TableInv, TableInv', Tame, OneEventEach, OwnersInv, NEW c \in Cos, Run(c),
         UNCHANGED fault
  PROVE  Keeps
<1>0. CTable /\ PoolTable /\ CoTable /\ PoolTable' /\ CTable'
  BY DEF TableInv
<1>1. Runs(c) /\ UNCHANGED poll_vars
  BY DEF Run
<1>2. cst[c] = "running" /\ phase = "dispatch" /\ phase' = "dispatch"
  BY <1>0, <1>1, StackTop DEF poll_vars
<1>3. told' = told /\ OneEventEach' /\ PolledOnce'
  BY <1>1, <1>2, ToldSame DEF poll_vars, PolledOnce
<1>4. Typed /\ pool' \in [Ids -> {NoEntry} \cup Entry] /\ sock' \in [Ids -> Slot]
      /\ sock \in [Ids -> Slot] /\ own \in [Cos -> Owns] /\ own' \in [Cos -> Owns]
  BY <1>0, IsTyped DEF PoolTable, CTable, TableInv, CoTable
<1> SUFFICES OwnersInv'
  BY <1>3 DEF Keeps
<1>5. own[c].id # 0 => /\ own[c].id \in Ids /\ pool[own[c].id] # NoEntry
                       /\ pool[own[c].id].co = c
                       /\ sock[own[c].id].st = "connected"
  BY <1>2, <1>4 DEF Typed, OwnersInv, RunningOK, Runner, Has, Connected
<1>6. ASSUME NEW what, Die(what) PROVE OwnersInv'
  <2>1. \A x \in Cos : cst'[x] = IF cst[x] = "running" THEN "dead" ELSE cst[x]
    BY <1>6, <1>0 DEF Die, CoTable, RunningStacked
  <2>2. cst' \in [Cos -> {"fresh", "running", "connect", "read", "dead"}]
    BY DEF TableInv, CoTable
  <2> QED
    BY <1>3, <1>4, <1>6, <2>1, <2>2, DieOwners DEF Die, c_vars
<1>7a. CASE ConnectFails(c)
  <2>1. UNCHANGED <<sock, pool, cst, own>>
    BY <1>7a DEF ConnectFails, CreateThenClose, c_vars, Return
  <2> QED
    BY <2>1, <1>3, OwnersSame
<1>7. CASE Connect(c) /\ ~ConnectFails(c)
  <2>1. PICK id \in Ids :
         /\ Start(id, c)
         /\ own' = [own EXCEPT ![c] = [id |-> id, conn |-> conns + 1, rd |-> FALSE]]
         /\ \/ CConnect(id, TRUE) /\ Yield(c, "connect")
            \/ CConnect(id, FALSE) /\ Return(c, [kind |-> "ok", conn |-> NoConn])
    BY <1>7 DEF Connect
  <2>2. PICK conning \in BOOLEAN :
         /\ CConnect(id, conning)
         /\ cst' = IF conning THEN [cst EXCEPT ![c] = "connect"] ELSE cst
    BY <2>1 DEF Yield, Return
  <2>3. Create(id, IF conning THEN "connecting" ELSE "connected", conning)
    BY <2>2 DEF CConnect
  <2>4. PICK st \in {"connecting", "connected"} :
          st = IF conning THEN "connecting" ELSE "connected"
    OBVIOUS
  <2>5. /\ sock[id].st = "free" /\ told[id] = "none" /\ conns + 1 \in 1 .. MaxConns
        /\ sock' = [sock EXCEPT ![id] = [st |-> st, rd |-> conning, queued |-> FALSE,
                                         conn |-> conns + 1]]
    BY <2>3, <2>4, FreshSlot
  <2>6. /\ pool'[id] # NoEntry /\ pool'[id].co = c
        /\ pool'[id].buf = IF pool[id] = NoEntry THEN NoBuffer ELSE pool[id].buf
        /\ \A x \in Ids : x # id => pool'[x] = pool[x]
    BY <2>1, <1>0, StartTable
  <2>7. PICK n \in 1 .. MaxConns : n = conns + 1
    BY <2>5
  <2>8. own[c].id = 0
    BY <1>7 DEF Connect
  <2>9. /\ sock' = [sock EXCEPT ![id] =
             [st |-> IF conning THEN "connecting" ELSE "connected", rd |-> conning,
              queued |-> FALSE, conn |-> n]]
        /\ own' = [own EXCEPT ![c] = [id |-> id, conn |-> n, rd |-> FALSE]]
    BY <2>1, <2>4, <2>5, <2>7, Zenon
  <2>10. sock[id].st = "free" /\ told[id] = "none"
    BY <2>5
  <2>11. Opens(c, id, conning, n)
    BY <2>2, <2>9, <1>3, Zenon DEF Opens
  <2> QED
    BY <2>6, <2>8, <2>10, <2>11, <1>2, <1>4, ConnectOwners, Zenon
<1>8. ASSUME NEW c2 \in Cos, Bind(c, c2) PROVE OwnersInv'
  <2>1. PICK id \in Ids : id = own[c].id
    BY <1>5, <1>8 DEF Bind
  <2>2. pool[id] # NoEntry
    BY <2>1, <1>5, <1>8 DEF Bind
  <2>3. CASE Die("pool")
    BY <2>3, <1>6
  <2>4. CASE /\ pool' = [pool EXCEPT ![own[c].id].co = c2]
             /\ Resume(c2)
             /\ own' = [own EXCEPT ![c] = NoSocket, ![c2] = own[c]]
             /\ UNCHANGED c_vars
    <3>1. /\ pool'[id] # NoEntry /\ pool'[id].co = c2 /\ pool'[id].buf = pool[id].buf
          /\ \A x \in Ids : x # id => pool'[x] = pool[x]
      <4>1. pool' = [pool EXCEPT ![id].co = c2]
        BY <2>1, <2>4
      <4> QED
        BY <2>2, <4>1, <1>0, RenameTable
    <3>2. cst[c2] = "fresh"
      BY <2>4 DEF Resume
    <3>3. cst' = [cst EXCEPT ![c2] = "running"] /\ UNCHANGED <<fault, sock>>
      BY <2>4 DEF Resume, c_vars
    <3>4. own' = [own EXCEPT ![c] = NoSocket, ![c2] = own[c]]
      BY <2>4
    <3> QED
      BY <2>1, <3>1, <3>2, <3>3, <3>4, <1>2, <1>3, <1>4, BindOwners, Zenon
  <2> QED
    BY <1>8, <2>3, <2>4 DEF Bind
<1>9. ASSUME NEW enable \in BOOLEAN, ReadEnable(c, enable) PROVE OwnersInv'
  <2>1. PICK id \in Ids : id = own[c].id /\ own[c].id # 0
    BY <1>5, <1>9 DEF ReadEnable
  <2>2. CASE Die("pool")
    BY <2>2, <1>6
  <2>3. CASE /\ own' = [own EXCEPT ![c].rd = enable]
             /\ CReadEnable(id, enable)
             /\ pool' = IF enable /\ pool[id].buf = NoBuffer
                        THEN [pool EXCEPT ![id].buf = <<>>] ELSE pool
             /\ UNCHANGED <<stack, cst, got, failed>>
    <3>1. /\ own'[c].id = id /\ own'[c].conn = own[c].conn /\ own'[c].rd = enable
          /\ \A x \in Cos : x # c => own'[x] = own[x]
      BY <2>1, <2>3, <1>4 DEF Owns
    <3>2. sock[id].st # "free" /\ sock[id] \in Slot
      BY <2>1, <1>4, <1>5
    <3>3. /\ sock'[id].st = sock[id].st /\ sock'[id].conn = sock[id].conn
          /\ fault = "none" => sock'[id].rd = enable
          /\ \A x \in Ids : x # id => sock'[x] = sock[x]
      <4>1. CASE fault = "enable" /\ UNCHANGED sock
        BY <4>1
      <4>2. CASE sock' = [sock EXCEPT ![id].rd = enable]
        BY <4>2, <3>2, <1>4 DEF Slot
      <4> QED
        BY <2>3, <3>2, <4>1, <4>2 DEF CReadEnable
    \* The step in two: the slot and what the coroutine means, then the buffer.
    <3>4. CASE pool' = pool
      <4>1. /\ fault = "none" => sock'[id].rd = own'[c].rd
            /\ id = own[c].id /\ own'[c].id = own[c].id /\ cst' = cst
        BY <2>1, <2>3, <3>1, <3>3
      <4> QED
        BY <3>1, <3>3, <3>4, <4>1, <1>2, <1>3, <1>4, SlotOwners, Zenon
    <3>5. CASE pool[id].buf = NoBuffer /\ pool' = [pool EXCEPT ![id].buf = <<>>]
      <4>1. /\ pool'[id] # NoEntry /\ pool'[id].co = pool[id].co /\ pool'[id].buf = <<>>
            /\ \A x \in Ids : x # id => pool'[x] = pool[x]
        <5>0. <<>> \in Seq(1 .. MaxConns)
          OBVIOUS
        <5>1. PICK b \in {NoBuffer} \cup Seq(1 .. MaxConns) : b = <<>>
          BY <5>0
        <5>2. pool' = [pool EXCEPT ![id].buf = b]
          BY <3>5, <5>1
        <5>3. pool[id] # NoEntry
          BY <2>1, <1>5
        <5> QED
          BY <5>1, <5>2, <5>3, <1>0, RefillTable
      <4>2. \A i \in DOMAIN pool'[id].buf : pool'[id].buf[i] = sock'[id].conn
        <5>1. DOMAIN pool'[id].buf = {}
          BY <4>1
        <5> QED
          BY <5>1
      <4>3. /\ fault = "none" => sock'[id].rd = own'[c].rd
            /\ id = own[c].id /\ own'[c].id = own[c].id /\ cst' = cst
        BY <2>1, <2>3, <3>1, <3>3
      <4>4. Calm /\ pool'[id].buf # NoBuffer =>
              \A i \in DOMAIN pool'[id].buf : pool'[id].buf[i] = sock[id].conn
        BY <4>2, <3>3
      <4>5. Subscribes(c, id)
        BY <3>1, <3>3, <4>1, <4>3, <4>4, <1>3 DEF Subscribes
      <4> QED
        BY <4>3, <4>5, <1>2, <1>4, SubscribeOwners, Zenon
    <3> QED
      BY <2>3, <3>4, <3>5
  <2> QED
    BY <1>9, <2>1, <2>2, <2>3 DEF ReadEnable
<1>10. CASE Read(c)
  <2>0. own[c].rd /\ own[c].id # 0
    BY <1>10, <1>4 DEF Read, Owns
  <2>1. PICK id \in Ids : id = own[c].id
    BY <2>0, <1>5
  <2>2. CASE Die("pool")
    BY <2>2, <1>6
  <2>3. CASE /\ pool[id] # NoEntry /\ pool[id].buf \notin {NoBuffer, <<>>}
             /\ pool' = [pool EXCEPT ![id].buf = Tail(@)]
             /\ Return(c, [kind |-> "data", conn |-> Head(pool[id].buf)])
             /\ UNCHANGED <<c_vars, own, failed>>
    <3>1. PICK b \in Seq(1 .. MaxConns) : b = pool[id].buf /\ b # <<>>
      BY <2>3, <1>0, EntryTyped
    <3>2. /\ Tail(b) \in Seq(1 .. MaxConns)
          /\ \A i \in DOMAIN Tail(b) : i + 1 \in DOMAIN b /\ Tail(b)[i] = b[i+1]
      BY <3>1, BufferPop
    <3>3. PICK t \in {NoBuffer} \cup Seq(1 .. MaxConns) : t = Tail(b)
      BY <3>2
    <3>4. /\ pool'[id] # NoEntry /\ pool'[id].co = pool[id].co /\ pool'[id].buf = t
          /\ \A x \in Ids : x # id => pool'[x] = pool[x]
      <4>1. pool' = [pool EXCEPT ![id].buf = t]
        BY <2>3, <3>1, <3>3
      <4> QED
        BY <4>1, <2>3, <1>0, RefillTable
    <3>5. Calm => \A i \in DOMAIN b : b[i] = sock[id].conn
      BY <2>3, <3>1, <1>4 DEF Typed, OwnersInv, EntriesOK, Entered, Has
    <3>6. Calm => \A i \in DOMAIN t : t[i] = sock[id].conn
      BY <3>2, <3>3, <3>5
    <3>7. UNCHANGED <<sock, cst, own>>
      BY <2>3 DEF c_vars, Return
    <3> QED
      BY <2>1, <3>4, <3>6, <3>7, <1>2, <1>3, <1>4, BufferOwners
  <2>4. CASE /\ pool[id] # NoEntry /\ pool[id].buf = <<>>
             /\ pool[id].co = c /\ Yield(c, "read")
             /\ UNCHANGED <<c_vars, pool, own, got, failed>>
    BY <2>0, <2>1, <2>4, <1>2, <1>3, <1>4, WaitOwners DEF Yield, c_vars
  <2> QED
    BY <1>10, <2>1, <2>2, <2>3, <2>4 DEF Read
<1>11. ASSUME NEW force \in BOOLEAN, own[c].id # 0, Disconnect(own[c].id, force),
              own' = [own EXCEPT ![c] = NoSocket], UNCHANGED cst
       PROVE  OwnersInv'
  <2>1. PICK id \in Ids : id = own[c].id
    BY <1>5, <1>11
  <2>2. /\ sock'[id].st \in {"free", "halfclose"}
        /\ \A x \in Ids : x # id => sock'[x] = sock[x]
    <3>1. CASE sock' = [sock EXCEPT ![id] = FreeSlot]
      BY <3>1, <1>4 DEF FreeSlot
    <3>2. CASE sock' = [sock EXCEPT ![id].st = "halfclose"]
      BY <3>2, <1>4 DEF Slot
    <3> QED
      BY <1>11, <2>1, <3>1, <3>2 DEF Disconnect, CCloseCall, CClose
  <2>3. pool' = [pool EXCEPT ![id] = NoEntry]
    BY <1>11, <2>1 DEF Disconnect
  <2> QED
    BY <1>11, <2>1, <2>2, <2>3, <1>2, <1>3, <1>4, CloseOwners
<1>12. ASSUME NEW force \in BOOLEAN, Close(c, force) PROVE OwnersInv'
  BY <1>6, <1>11, <1>12 DEF Close
<1>13. CASE Send(c)
  <2>1. PICK id \in Ids : id = own[c].id /\ own[c].id # 0
    BY <1>5, <1>13 DEF Send
  <2>2. CASE Die("disconnect")
    BY <2>2, <1>6
  <2>3. CASE CSend(id) /\ UNCHANGED <<pool, own, cst>>
    <3>1. sock[id].st = "connected" /\ sock[id] \in Slot
      BY <2>1, <1>4, <1>5
    <3>2. /\ sock'[id].st = sock[id].st /\ sock'[id].conn = sock[id].conn
          /\ sock'[id].rd = sock[id].rd
          /\ \A x \in Ids : x # id => sock'[x] = sock[x]
      <4>1. CASE \E queued : sock' = [sock EXCEPT ![id].queued = queued]
        BY <4>1, <3>1, <1>4 DEF Slot
      <4>2. fault # "send"
        BY DEF Tame
      <4> QED
        BY <2>3, <3>1, <4>1, <4>2 DEF CSend, c_vars
    <3>3. fault = "none" => sock'[id].rd = own'[c].rd
      BY <2>1, <2>3, <3>2, <1>2, <1>4 DEF Typed, OwnersInv, RunningOK, Runner
    <3> QED
      BY <2>1, <2>3, <3>2, <3>3, <1>2, <1>3, <1>4, SlotOwners
  <2>4. CASE /\ Disconnect(own[c].id, TRUE) /\ Return(c, Error)
             /\ own' = [own EXCEPT ![c] = NoSocket]
    <3>1. own[c].id # 0
      BY <1>13 DEF Send
    <3> QED
      BY <2>4, <3>1, <1>11 DEF Return
  <2> QED
    BY <1>13, <2>1, <2>2, <2>3, <2>4 DEF Send, Return
<1>14. CASE Finish(c)
  BY <1>14, <1>2, <1>3, <1>4, FinishOwners DEF Finish, Yield, c_vars
<1> QED
  BY <1>7a, <1>7, <1>8, <1>9, <1>10, <1>12, <1>13, <1>14 DEF Run

(* Starting a coroutine keeps the owners. *)
LEMMA ForkKeeps ==
  ASSUME TableInv, Tame, OneEventEach, PolledOnce, OwnersInv, NEW c \in Cos, Fork(c),
         UNCHANGED poll_vars, UNCHANGED fault
  PROVE  Keeps
<1>1. told' = told /\ OneEventEach'
  BY ToldSame DEF poll_vars
<1>2. PolledOnce'
  BY DEF PolledOnce, Fork, poll_vars
<1>3. OwnersInv'
  BY <1>1, IsTyped, ForkOwners DEF Fork, Resume, c_vars
<1> QED
  BY <1>1, <1>2, <1>3 DEF Keeps

(* The invariant holds when listeners have been started. *)
LEMMA InitLua == Init => LuaInv
<1> SUFFICES ASSUME Init PROVE LuaInv
  OBVIOUS
<1> USE LuaSocketAssumption
<1>1. PICK n \in Ids :
        /\ sock = [id \in Ids |-> IF id <= n THEN [FreeSlot EXCEPT !.st = "listen"] ELSE FreeSlot]
        /\ free = [i \in 1 .. cmax - n |-> i + n]
  BY DEF Init
<1>2. FreeSlot \in Slot /\ [FreeSlot EXCEPT !.st = "listen"] \in Slot
      /\ FreeSlot.st = "free" /\ ~FreeSlot.queued
      /\ [FreeSlot EXCEPT !.st = "listen"].st = "listen"
      /\ ~[FreeSlot EXCEPT !.st = "listen"].queued
  <2>1. FreeSlot = [st |-> "free", rd |-> FALSE, queued |-> FALSE, conn |-> 0]
    BY DEF FreeSlot, NoConn
  <2>2. FreeSlot \in Slot
    BY <2>1 DEF Slot
  <2>3. ASSUME NEW s \in Slot
        PROVE  /\ [s EXCEPT !.st = "listen"] \in Slot
               /\ [s EXCEPT !.st = "listen"].st = "listen"
               /\ [s EXCEPT !.st = "listen"].queued = s.queued
    BY DEF Slot
  <2>4. FreeSlot.st = "free" /\ FreeSlot.queued = FALSE
    BY <2>1
  <2> QED
    BY <2>2, <2>3, <2>4
<1>3. sock \in [Ids -> Slot] /\ SlotsHold
  BY <1>1, <1>2 DEF SlotsHold
<1>4. n \in Nat /\ n \in 1 .. cmax /\ cmax \in Nat
  BY DEF Ids
<1>5. free \in Seq(Ids) /\ DOMAIN free = 1 .. cmax - n /\ IsInjective(free)
  <2>1. \A i \in 1 .. cmax - n : i + n \in Ids
    BY <1>4 DEF Ids
  <2>2. free \in [1 .. cmax - n -> Ids] /\ cmax - n \in Nat
    BY <2>1, <1>1, <1>4
  <2>3. free \in Seq(Ids)
    BY <2>2, SeqDef
  <2> QED
    BY <2>2, <2>3, <1>1, <1>4 DEF IsInjective
<1>6. FreeIsListed
  <2> SUFFICES ASSUME NEW id \in Ids
               PROVE  sock[id].st = "free" <=> \E i \in DOMAIN free : free[i] = id
    BY DEF FreeIsListed
  <2>1. CASE id <= n
    <3>1. sock[id].st # "free"
      BY <2>1, <1>1, <1>2
    <3>2. \A i \in DOMAIN free : free[i] = i + n /\ i + n > n
      BY <1>1, <1>4, <1>5
    <3>3. \A i \in DOMAIN free : free[i] # id
      BY <2>1, <3>2, <1>4, <1>5 DEF Ids
    <3> QED
      BY <3>1, <3>3
  <2>2. CASE ~(id <= n)
    <3>1. id - n \in DOMAIN free /\ free[id - n] = id
      BY <2>2, <1>1, <1>4, <1>5 DEF Ids
    <3> QED
      BY <2>2, <3>1, <1>1, <1>2
  <2> QED
    BY <2>1, <2>2
<1>7. CTable
  <2>1. conns \in 0 .. MaxConns
    BY DEF Init
  <2> QED
    BY <2>1, <1>3, <1>5, <1>6 DEF CTable
<1>8. PollTable /\ PoolTable
  BY DEF PollTable, PoolTable, Init
<1>9. CoTable
  <2>1. stack \in Seq(Cos) /\ IsInjective(stack) /\ DOMAIN stack = {}
    BY DEF Init, IsInjective
  <2>2. got \in [Cos -> Result]
    BY DEF Init, Result, NoResult, NoConn
  <2>3. own \in [Cos -> Owns]
    BY NoSocketOwns DEF Init
  <2> QED
    BY <2>1, <2>2, <2>3 DEF Init, CoTable, RunningStacked
<1>10. TableInv
  BY <1>7, <1>8, <1>9 DEF TableInv, Init
<1>11. DOMAIN batch = {} /\ OneEventEach
  BY DEF Init, OneEventEach
<1>12. \A id \in Ids : told[id] = "none" /\ pool[id] = NoEntry
                       /\ sock[id].st \in {"listen", "free"}
  BY <1>1, <1>2, <1>11 DEF told, Told, Init
<1>13. \A c \in Cos : cst[c] = "fresh"
  BY DEF Init
<1>14. PolledOnce
  BY DEF PolledOnce, Init
<1>15. OwnersInv
  BY <1>12, <1>13 DEF OwnersInv, EntriesOK, Entered, RunningOK, Runner, ConnectingOK, ConnectsOK, Connects, ConnectingSlots, EventsOK, AcceptsOK, ConnectedOK, ErrorsOK, ReadingOK, ReadersOK, Reader, ReadersOwn, Has
<1> QED
  BY <1>10, <1>11, <1>14, <1>15 DEF LuaInv

(* Every step keeps the invariant. *)
LEMMA StepLua == LuaInv /\ [Next]_vars => LuaInv'
<1> SUFFICES ASSUME LuaInv, [Next]_vars PROVE LuaInv'
  OBVIOUS
<1>1. TableInv /\ TableInv' /\ UNCHANGED fault
  BY TableStep DEF LuaInv, Next, vars
<1>2. SUFFICES ASSUME Tame PROVE Keeps
  BY <1>1 DEF LuaInv, Keeps, Tame
<1>3. OneEventEach /\ PolledOnce /\ OwnersInv
  BY <1>2 DEF LuaInv
<1>4. ASSUME UNCHANGED <<c_vars, batch, pool, co_vars>>, PolledOnce' PROVE Keeps
  <2>1. told' = told /\ OneEventEach'
    BY <1>3, <1>4, ToldSame
  <2>2. UNCHANGED <<sock, pool, cst, own>>
    BY <1>4 DEF c_vars, co_vars
  <2>3. EntriesOK' /\ RunningOK'
    BY <2>1, <2>2, <1>1, <1>3 DEF OwnersInv, EntriesOK, Entered, RunningOK, Runner, Has, Connected, Calm
  <2>4. ConnectingOK'
    BY <2>1, <2>2, <1>1, <1>3 DEF OwnersInv, ConnectingOK, ConnectsOK, Connects, ConnectingSlots, Has, Calm
  <2>5. EventsOK'
    BY <2>1, <2>2, <1>1, <1>3 DEF OwnersInv, EventsOK, AcceptsOK, ConnectedOK, ErrorsOK, Has, Connected, Calm
  <2>6. ReadingOK'
    BY <2>1, <2>2, <1>1, <1>3 DEF OwnersInv, ReadingOK, ReadersOK, Reader, ReadersOwn, Lost, Has, Connected, Calm
  <2> QED
    BY <2>1, <2>3, <2>4, <2>5, <2>6, <1>4 DEF Keeps, OwnersInv
<1>5. CASE UNCHANGED vars
  <2>1. told' = told
    BY <1>5, ToldSame DEF vars
  <2>2. PolledOnce'
    BY <2>1, <1>3, <1>5 DEF PolledOnce, vars
  <2> QED
    BY <2>2, <1>4, <1>5 DEF vars, c_vars, co_vars
<1>6. CASE PollStart
  <2>1. batch = <<>> /\ batch' = batch /\ sock' = sock
        /\ polled' = {id \in Ids : sock[id].st = "free"}
    BY <1>6 DEF PollStart, c_vars
  <2>2. told' = [id \in Ids |-> "none"]
    <3>1. DOMAIN batch = {}
      BY <2>1
    <3>2. told = [id \in Ids |-> "none"]
      BY <3>1 DEF told, Told
    <3> QED
      BY <2>1, <3>2, ToldSame
  <2>3. PolledOnce'
    BY <2>1, <2>2 DEF PolledOnce
  <2> QED
    BY <2>3, <1>4, <1>6 DEF PollStart
<1>7. CASE PollReturn
  BY <1>4, <1>7 DEF PollReturn, PolledOnce
<1>8. ASSUME NEW id \in Ids, PollEvent(id) PROVE Keeps
  BY <1>1, <1>2, <1>3, <1>8, PollEventKeeps
<1>9. CASE Dispatch
  BY <1>1, <1>2, <1>3, <1>9, DispatchKeeps
<1>10. ASSUME NEW c \in Cos, Run(c) PROVE Keeps
  BY <1>1, <1>2, <1>3, <1>10, RunKeeps
<1>11. ASSUME NEW c \in Cos, Fork(c), UNCHANGED poll_vars PROVE Keeps
  BY <1>1, <1>2, <1>3, <1>11, ForkKeeps
<1> QED
  BY <1>5, <1>6, <1>7, <1>8, <1>9, <1>10, <1>11 DEF Next, Step

(* LuaInv holds in every reachable state, for every cmax, every set of
   coroutines and every bound. *)
THEOREM LuaInvHolds == Spec => []LuaInv
  BY InitLua, StepLua, PTL DEF Spec

(* Every variable of the layer keeps its type: the slots, the free list without
   repetition, the pool, the stack and what the coroutines own. *)
THEOREM LuaTyped == Spec => []TypeOK
<1>1. LuaInv => TypeOK
  BY TableTyped DEF LuaInv
<1> QED
  BY <1>1, LuaInvHolds, PTL

\* What is told of a slot is in the batch.
LEMMA ToldIsOnItsWay ==
  ASSUME TableInv, OneEventEach, NEW id \in Ids, NEW types, types \subseteq Types, told[id] \in types
  PROVE  OnItsWay(id, types)
<1>1. ToldRight /\ batch \in Seq(Event)
  BY ToldMeans DEF TableInv, PollTable
<1>2. told[id] # "none"
  BY DEF Types
<1>3. PICK i \in DOMAIN batch : batch[i].id = id
  BY <1>1, <1>2 DEF ToldRight
<1>4. batch[i].type = told[id] /\ batch[i] \in Event
  BY <1>1, <1>3, BatchTyped DEF ToldRight
<1>5. batch[i] \in [type : types, id : {id}]
  BY <1>3, <1>4 DEF Event
<1> QED
  BY <1>3, <1>5 DEF OnItsWay

(* A coroutine that waits in connect or in read is not forgotten: socket_pool
   names it, and what it waits for is watched or on its way (wakeup and
   suspend of socket.lua). *)
THEOREM WaitersAreKept == Spec => []WaiterKept
<1>1. LuaInv => WaiterKept
  <2> SUFFICES ASSUME LuaInv, fault = "none", NEW c \in Cos, cst[c] \in {"connect", "read"}
               PROVE  /\ pool[own[c].id] # NoEntry
                      /\ pool[own[c].id].co = c
                      /\ \/ sock[own[c].id].conn = own[c].conn /\ sock[own[c].id].rd
                         \/ OnItsWay(own[c].id, {"CONNERR"})
                         \/ cst[c] = "connect" /\ OnItsWay(own[c].id, {"CONNECT", "CONN_THEN_READ"})
    BY DEF WaiterKept
  <2>1. TableInv /\ OneEventEach /\ OwnersInv /\ Calm
    BY DEF LuaInv, Tame, Calm
  <2>2. CASE cst[c] = "read"
    BY <2>1, <2>2 DEF OwnersInv, ReadingOK, ReadersOK, Reader, ReadersOwn, Lost, Has, Connected
  <2>3. CASE cst[c] = "connect"
    <3>1. PICK id \in Ids : id = own[c].id
      BY <2>1, <2>3 DEF OwnersInv, ConnectingOK, ConnectsOK, Connects, ConnectingSlots
    <3>2. pool[id] # NoEntry /\ pool[id].co = c
      BY <2>1, <2>3, <3>1 DEF OwnersInv, ConnectingOK, ConnectsOK, Connects, ConnectingSlots, Has
    <3>3. \/ sock[id].conn = own[c].conn /\ sock[id].rd
          \/ told[id] \in {"CONNERR"} \/ told[id] \in {"CONNECT", "CONN_THEN_READ"}
      BY <2>1, <2>3, <3>1 DEF OwnersInv, ConnectingOK, ConnectsOK, Connects, ConnectingSlots
    <3>4. {"CONNERR"} \subseteq Types /\ {"CONNECT", "CONN_THEN_READ"} \subseteq Types
      BY DEF Types
    <3>5. \/ sock[id].conn = own[c].conn /\ sock[id].rd
          \/ OnItsWay(id, {"CONNERR"}) \/ OnItsWay(id, {"CONNECT", "CONN_THEN_READ"})
      BY <2>1, <3>3, <3>4, ToldIsOnItsWay
    <3> QED
      BY <2>3, <3>1, <3>2, <3>5
  <2> QED
    BY <2>2, <2>3
<1> QED
  BY <1>1, LuaInvHolds, PTL

(* A coroutine that runs finds its socket in socket_pool under its own name,
   and in the buffer only data of its own connection. *)
THEOREM SocketsAreOwned == Spec => []OwnSocket
<1>1. LuaInv => OwnSocket
  <2> SUFFICES ASSUME LuaInv, fault \in {"none", "enable"},
                      NEW c \in Cos, cst[c] = "running", own[c].id # 0
               PROVE  /\ pool[own[c].id] # NoEntry
                      /\ pool[own[c].id].co = c
                      /\ pool[own[c].id].buf # NoBuffer =>
                           \A i \in DOMAIN pool[own[c].id].buf : pool[own[c].id].buf[i] = own[c].conn
    BY DEF OwnSocket
  <2>1. TableInv /\ OwnersInv /\ Calm
    BY DEF LuaInv, Tame, Calm
  <2>2. PICK id \in Ids : id = own[c].id
    BY <2>1, OwnTyped DEF TableInv
  <2>3. pool[id] # NoEntry /\ pool[id].co = c /\ sock[id].conn = own[c].conn
    BY <2>1, <2>2 DEF OwnersInv, RunningOK, Runner, Has, Connected
  <2>4. pool[id].buf # NoBuffer => \A i \in DOMAIN pool[id].buf : pool[id].buf[i] = sock[id].conn
    BY <2>1, <2>3 DEF OwnersInv, EntriesOK, Entered, Has
  <2> QED
    BY <2>2, <2>3, <2>4
<1> QED
  BY <1>1, LuaInvHolds, PTL

\* What the step may tell a coroutine that waits.
Answered(c) ==
  /\ Head(batch).id = own[c].id
  /\ cst[c] = "read" <=> Head(batch).type = "READ"
  /\ got'[c].kind = "data" => got'[c].conn = own[c].conn

(* wakeup answers the coroutine that it resumes. *)
LEMMA WakeupAnswers ==
  ASSUME Typed, CoTable, NEW c \in Cos, cst[c] \in {"connect", "read"}, cst'[c] = "running",
         NEW w \in Cos, NEW result, Wakeup(w, result)
  PROVE  w = c /\ got'[c] = result
<1>1. cst[w] \in {"connect", "read"} /\ cst' = [cst EXCEPT ![w] = "running"]
      /\ got' = [got EXCEPT ![w] = result]
  BY DEF Wakeup, co_vars
<1>2. w = c
  BY <1>1 DEF Typed
<1> QED
  BY <1>1, <1>2 DEF CoTable

(* The handler of read events resumes a reader of the slot, with data of its
   connection. *)
LEMMA OnReadAnswers ==
  ASSUME TableInv, Typed, Tame, NoneRuns, NEW id \in Ids, told[id] = "READ", OnRead(id),
         NEW c \in Cos, cst[c] \in {"connect", "read"}, cst'[c] = "running"
  PROVE  /\ id = own[c].id /\ cst[c] = "read"
         /\ got'[c].kind = "data" => got'[c].conn = own[c].conn
<1>0. CoTable
  BY DEF TableInv
<1>1. ASSUME pool[id] # NoEntry, pool[id].co = c
      PROVE  /\ id = own[c].id /\ cst[c] = "read"
             /\ pool[id].buf = <<>> /\ sock[id].conn = own[c].conn
  <2>1. id = own[c].id
    BY <1>1 DEF Typed, OwnersInv, EntriesOK, Entered, Has
  <2>2. cst[c] = "read"
    BY <1>1, <2>1 DEF Typed, OwnersInv, ConnectingOK, ConnectsOK, Connects, ConnectingSlots
  <2>3. ~Lost(id)
    BY DEF Lost
  <2> QED
    BY <1>1, <2>1, <2>2, <2>3 DEF Typed, OwnersInv, ReadingOK, ReadersOK, Reader, ReadersOwn, Has, Connected
<1>2. CASE UNCHANGED <<c_vars, pool, co_vars, failed>>
  BY <1>2 DEF co_vars
<1>3. CASE pool[id] # NoEntry /\ Disconnect(id, TRUE) /\ Wakeup(pool[id].co, Error)
  <2>1. pool[id].co = c /\ got'[c] = Error
    BY <1>0, <1>3, WakeupAnswers DEF Typed
  <2> QED
    BY <2>1, <1>1, <1>3 DEF Error
<1>4. ASSUME pool[id] # NoEntry, CReads(id, "data"),
             pool[id].buf # NoBuffer, NEW n \in 0 .. MaxUnits,
             NEW buf, buf = pool[id].buf \o [i \in 1 .. n |-> sock[id].conn],
             buf # <<>>, Wakeup(pool[id].co, [kind |-> "data", conn |-> Head(buf)])
      PROVE  /\ id = own[c].id /\ cst[c] = "read"
             /\ got'[c].kind = "data" => got'[c].conn = own[c].conn
  <2> DEFINE r == [kind |-> "data", conn |-> Head(buf)]
  <2>1. r.conn = Head(buf)
    OBVIOUS
  <2> HIDE DEF r
  <2>2. pool[id].co = c /\ got'[c] = r
    <3>1. pool[id].co \in Cos /\ Wakeup(pool[id].co, r)
      BY <1>4 DEF Typed, r
    <3> QED
      BY <3>1, <1>0, WakeupAnswers
  <2>3. id = own[c].id /\ cst[c] = "read" /\ pool[id].buf = <<>> /\ sock[id].conn = own[c].conn
    BY <2>2, <1>1, <1>4
  <2>4. sock[id].conn \in 1 .. MaxConns
    BY <1>4, LuaSocketAssumption DEF CReads, TableInv, CTable, SlotsHold, Slot, NoConn
  <2>5. PICK b \in Seq(1 .. MaxConns) : b = <<>> /\ DOMAIN b = {}
    <3>1. <<>> \in Seq(1 .. MaxConns) /\ DOMAIN <<>> = {}
      OBVIOUS
    <3> QED
      BY <3>1
  <2>6. PICK k \in 1 .. MaxConns : k = sock[id].conn
    BY <2>4
  <2>7. n \in Nat
    BY LuaSocketAssumption
  <2>8. buf = Filled(b, n, k) /\ buf # <<>>
    BY <1>4, <2>3, <2>5, <2>6 DEF Filled
  <2>9. Popped(buf, b, k)
    BY <2>7, <2>8, FilledBuffer
  <2>10. Head(buf) = k
    BY <2>5, <2>9 DEF Popped
  <2> QED
    BY <2>1, <2>2, <2>3, <2>6, <2>10
<1>5. CASE /\ pool[id] # NoEntry /\ CReads(id, "data")
           /\ pool[id].buf # NoBuffer
           /\ \E n \in 0 .. MaxUnits :
                LET buf == pool[id].buf \o [i \in 1 .. n |-> sock[id].conn] IN
                /\ buf # <<>> /\ Len(buf) <= MaxUnits
                /\ Wakeup(pool[id].co, [kind |-> "data", conn |-> Head(buf)])
  BY <1>4, <1>5
<1> QED
  BY <1>2, <1>3, <1>5 DEF OnRead

(* Every handler resumes with the right answer. *)
LEMMA DispatchAnswers ==
  ASSUME TableInv, Tame, OneEventEach, OwnersInv, Dispatch,
         NEW c \in Cos, cst[c] \in {"connect", "read"}, cst'[c] = "running"
  PROVE  Answered(c)
<1>1. Typed /\ NoneRuns /\ CoTable
  BY IsTyped, QuietRuns DEF TableInv, Dispatch
<1>2. PICK e \in Event : e = Head(batch)
  BY DispatchTakes
<1>3. e.id \in Ids /\ e.type \in Types /\ told[e.id] = e.type
  BY <1>2, DispatchTakes
<1>4. PICK id \in Ids : id = e.id
  BY <1>3
<1>5. PICK type \in Types : type = e.type
  BY <1>3
<1>6. told[id] = type
  BY <1>3, <1>4, <1>5
<1> SUFFICES /\ id = own[c].id
             /\ cst[c] = "read" <=> type = "READ"
             /\ got'[c].kind = "data" => got'[c].conn = own[c].conn
  BY <1>2, <1>4, <1>5 DEF Answered
<1>7. CASE type = "READ"
  <2>1. OnRead(id)
    BY <1>2, <1>4, <1>5, <1>7 DEF Dispatch
  <2> QED
    BY <2>1, <1>1, <1>6, <1>7, OnReadAnswers
<1>8. CASE type = "ACCEPT"
  <2>1. OnAccept(id)
    BY <1>2, <1>4, <1>5, <1>8 DEF Dispatch
  <2>2. CASE \E x \in Cos : cst[x] = "fresh" /\ cst' = [cst EXCEPT ![x] = "running"]
    BY <2>2, <1>1 DEF Typed
  <2>3. CASE UNCHANGED cst
    BY <2>3
  <2> QED
    BY <2>1, <2>2, <2>3 DEF OnAccept, co_vars
<1>9. CASE type \in {"CONNECT", "CONN_THEN_READ", "CONNERR"}
  <2>1. pool[id] # NoEntry /\ cst[pool[id].co] = "connect" /\ own[pool[id].co].id = id
        /\ pool[id].co \in Cos
    BY <1>1, <1>6, <1>9 DEF Typed, OwnersInv, EventsOK, AcceptsOK, ConnectedOK, ErrorsOK, EntriesOK, Entered, Has
  <2>2. PICK kind \in {"ok", "error"} : Wakeup(pool[id].co, [kind |-> kind, conn |-> NoConn])
    <3>1. OnConnect(id) \/ OnConnErr(id)
      BY <1>2, <1>4, <1>5, <1>9 DEF Dispatch
    <3> QED
      BY <2>1, <3>1 DEF OnConnect, OnConnErr, Error
  <2> DEFINE r == [kind |-> kind, conn |-> NoConn]
  <2>3. r.kind # "data"
    OBVIOUS
  <2> HIDE DEF r
  <2>4. pool[id].co = c /\ got'[c] = r
    BY <2>1, <2>2, <1>1, WakeupAnswers DEF r
  <2> QED
    BY <2>1, <2>3, <2>4, <1>9
<1>10. CASE type \in {"SOCKERR", "WRIDONECLOSE"}
  <2>1. UNCHANGED co_vars
    BY <1>2, <1>4, <1>5, <1>10 DEF Dispatch
  <2> QED
    BY <2>1 DEF co_vars
<1> QED
  BY <1>7, <1>8, <1>9, <1>10 DEF Types

(* Nothing else resumes a coroutine that waits. *)
LEMMA RunResumesNone ==
  ASSUME TableInv, NEW c \in Cos, cst[c] \in {"connect", "read"},
         NEW r \in Cos, Run(r) \/ Fork(r)
  PROVE  cst'[c] # "running"
<1>1. CoTable
  BY DEF TableInv
<1> USE DEF CoTable
<1>2. CASE Fork(r)
  BY <1>1, <1>2 DEF Fork, Resume
<1>3. ASSUME NEW what, Die(what) PROVE cst'[c] # "running"
  BY <1>1, <1>3 DEF Die
<1>4. CASE Run(r) /\ ~(\E what : Die(what))
  <2>1. cst[r] = "running"
    BY <1>1, <1>4, StackTop DEF Run
  <2>2. \/ cst' = cst
        \/ \E st \in {"connect", "read", "dead"} : cst' = [cst EXCEPT ![r] = st]
        \/ \E x \in Cos : cst[x] = "fresh" /\ cst' = [cst EXCEPT ![x] = "running"]
    <3>1. CASE Connect(r)
      BY <3>1 DEF Connect, ConnectFails, Yield, Return
    <3>2. CASE \E c2 \in Cos : Bind(r, c2)
      BY <3>2, <1>4 DEF Bind, Resume
    <3>3. CASE \E enable \in BOOLEAN : ReadEnable(r, enable)
      BY <3>3, <1>4 DEF ReadEnable
    <3>4. CASE Read(r)
      BY <3>4, <1>4 DEF Read, Yield, Return
    <3>5. CASE \E force \in BOOLEAN : Close(r, force)
      BY <3>5, <1>4 DEF Close
    <3>6. CASE Send(r)
      BY <3>6, <1>4 DEF Send, Return
    <3>7. CASE Finish(r)
      BY <3>7 DEF Finish, Yield
    <3> QED
      BY <1>4, <3>1, <3>2, <3>3, <3>4, <3>5, <3>6, <3>7 DEF Run
  <2> QED
    BY <1>1, <2>1, <2>2
<1> QED
  BY <1>2, <1>3, <1>4

(* The handlers of socket.lua resume a coroutine only with an answer to what
   it waits for, of its own socket, and with data of its own connection. *)
THEOREM AnswersAreRight == Spec => RightAnswer
<1>1. LuaInv /\ [Next]_vars =>
        [\A c \in Cos :
           /\ fault \in {"none", "sockerr", "enable"}
           /\ cst[c] \in {"connect", "read"}
           /\ cst'[c] = "running"
           => /\ Head(batch).id = own[c].id
              /\ cst[c] = "read" <=> Head(batch).type = "READ"
              /\ got'[c].kind = "data" => got'[c].conn = own[c].conn]_vars
  <2> SUFFICES ASSUME LuaInv, Next, NEW c \in Cos, Tame,
                      cst[c] \in {"connect", "read"}, cst'[c] = "running"
               PROVE  Answered(c)
    BY DEF Answered, Tame
  <2>1. TableInv /\ OneEventEach /\ OwnersInv
    BY DEF LuaInv
  <2>2. CASE Dispatch
    BY <2>1, <2>2, DispatchAnswers
  <2>3. ASSUME NEW r \in Cos, Run(r) \/ Fork(r) PROVE Answered(c)
    BY <2>1, <2>3, RunResumesNone
  <2>4. CASE UNCHANGED co_vars
    BY <2>4 DEF co_vars
  <2> QED
    BY <2>2, <2>3, <2>4 DEF Next, Step, PollStart, PollEvent, PollReturn
<1> QED
  BY <1>1, LuaInvHolds, PTL DEF Spec, RightAnswer
=============================================================================
