# A TLA+ model of lsocket

lsocket is a small socket library in C for Lua: a table of sockets over
epoll, kqueue or select (`src/socket.c`), a Lua binding (`src/lsocket.c`,
`src/psocket.c`), a buffer of received data (`src/lsocketbuffer.c`) and a layer
of coroutines (`lib/socket.lua`).  This directory holds TLA+ modules of it, the
configurations that TLC checks, and proofs for TLAPS.  Lines are those of the
repository's files.

## The system

One thread runs everything.  The application calls the library between two
calls of `socket_poll`; the kernel and the peers act at any time.

| part | state | operations | what makes it correct |
|---|---|---|---|
| table of sockets (`socket.c` 104-187) | per slot `fd`, `status`, ...; `free_socket`, `tail_socket`; a free slot's `fd` is the link to the next one | `_create_socket`, `_close_socket` | the list has exactly the free slots, the assertions of line 182 hold, slots are reused oldest first |
| net (`socket.c` 189-263, 673-1005) | status, descriptor, mask, limits of every slot; the kernel's epoll set; the arrays of events | bind, listen, connect, enableread, close, limit, send, sendfd, read, poll | one owner per descriptor, no leak, mask = registration, events reach the socket they are about, connects and graceful closes end |
| send path (`socket.c` 446-671) | list of `struct sbuffer`, `sbuffersz`, `slimit` | `socket_send`, `socket_sendfd`, `_send_buffer` | the peer gets the bytes in order, once; a descriptor travels once; the limit holds |
| read path (`socket.c` 265-444) | `rbuffersz`, `rlimit` | `_read`, `_read_close`, `_readfd` | what is read is what was sent, in order; a descriptor arrives with its message or the connection ends; a buffer of size 0 is never read into; the read limit holds |
| np (`np_epoll.h`, `np_kqueue.h`, `np_select.h`) | registrations: the kernel's, by filter, or two sets and an array | add, mod, del, poll | each is the table of registrations that net takes it for, as far as net's way to close a descriptor lets it |
| Lua buffer (`lsocketbuffer.c`) | list of nodes, offset, size | push, pop, detach | it is a byte queue |
| coroutine layer (`lib/socket.lua`) | `socket_pool`, coroutines, modes | start, connect, read, send, close, handlers of events | the right coroutine is woken, once, and none is forgotten |
| wrapper and binding (`psocket.c`, `lsocket.c`) | the one `struct net`, the dispatch function | conversions, dispatch of a batch | |

They interact through calls downwards and through events upwards: `np_poll`
fills `i_events`, `socket_poll` turns them into `o_events`, `psocket_poll` hands
these to the Lua handlers one by one, and the handlers call back into the
library.  What is hard: an event names a *slot*, and slots are freed and reused
within one batch; closing a socket does not deregister it (comment at 156);
writes are partial; a connect, a graceful close and the interest in events
depend on each other; `_subscribe`, `fcntl` and `accept` fail half way; sizes
are `int`.  `PROJECT.json` lists the hazards, each at its line.

## Modules

| module | what it is |
|---|---|
| `SlotQueue` | abstract: slots live, or waiting in one queue |
| `SlotPool` | the linked list of free slots; implements `SlotQueue` |
| `SlotPool_proofs` | that it does, for every size |
| `Net`, `MCNet` | `struct net` over epoll, with `socket_poll` one iteration a step |
| `Net_proofs` | the invariant of `Net`'s table, registrations and descriptors; what waits: connects, data, half closes, the events of a batch |
| `ByteStream` | abstract: a reliable byte stream that ends gracefully or is aborted |
| `SendQueue`, `MCSendQueue` | the send path in bytes; implements `ByteStream` |
| `Connection`, `MCConnection` | `SendQueue` with the read path at the other end; implements `ByteStream` from `socket_send` to `socket_read`, once for the bytes and once for the descriptors |
| `FlattenLemmas` | what `FlattenSeq` does with `Append`, `Head` and `\o`, for the proofs |
| `Connection_proofs` | the invariants of `SendQueue` and `Connection`, and that both implement `ByteStream` |
| `Multiplexer` | abstract: what net relies on of np |
| `Np` | `np.h`: what its three implementations share |
| `NpEpoll`, `NpKqueue`, `NpSelect` | `np_epoll.h`, `np_kqueue.h` and `np_select.h`, with the kernel behind them |
| `NpPorts` | the three under net's subscriptions and closes, and a second process after a fork; implements `Multiplexer` |
| `NpPorts_proofs` | that it does, and its other invariants |
| `ByteQueue` | abstract: a queue of bytes that is read in pieces |
| `SocketBuffer`, `MCSocketBuffer` | the Lua buffer of received data; implements `ByteQueue` |
| `SocketBuffer_proofs` | its size and offset, its pops, and that it is a queue of bytes |
| `LuaSocket`, `MCLuaSocket` | the coroutine layer and the dispatch of a batch, over what `Net` promises |
| `LuaSocket_proofs` | its invariant, and that it keeps what it promises its coroutines |
| `QueueLemmas` | what `Tail` and `Append` do, for the proofs |

### SlotPool

A slot's field `fd` is one variable for both of its meanings, as in the code;
`status` says which.  `CreateSocket` is `_create_socket`, `CloseSocket` is
`_close_socket`, guarded by the live status that every caller has seen.  `queue`
is a history variable: the order in which slots were freed.  `_close_socket`
returns early for `fd < 0`, which no live slot has (`LiveHoldFds`).

### Net

Variables are the fields of `struct socket`, a function of the slot each
(`fd` holds only descriptors here, the free list is the sequence `free`, by the
refinement that `SlotPool` proves), the kernel's side (`os`, what a descriptor
is; `ep_ud` and `ep_mask`, its registration) and the two arrays of events.
`sbuffersz` stands for the send list: it is empty exactly when the number is 0.

* Every entry point of `socket.h` that changes state is an action; a call that
  changes nothing in the model (an unknown id, a full table, a read that finds
  data, a write the kernel takes in full, `socket_udata`, `socket_address`) is
  not one.  They are enabled between two `socket_poll` only, because the program
  is single threaded.
* `PollStart` is `np_poll`, `PollEvent` one iteration of the loop, with one
  operator per case of the switch, `PollReturn` the return.  The kernel's order
  of events is arbitrary, so `ievents` is a set.
* A function that takes a slot and fails after it (bind 681, accept 705, listen
  771, connect 875) is `CreateThenClose`: the slot moves to the end of the list.
* The kernel is what epoll(7) on Linux does: a registration goes away with the
  descriptor, ADD of a registered descriptor fails, errors and hang-ups are
  reported unasked and as "write" (`np_epoll.h` 77-79), a socket that is
  connecting reports nothing.
* `StdFds` are the descriptors up to `STDERR_FILENO`, which `_close_socket`
  leaves open *and registered* (line 164).

Left out: `self->err` and the returned values, `udata`, `rbuffersz` and
`rlimit` (in `Connection`), name resolution (an address that fails is followed
by the next one; only the last attempt has an effect), `getsockopt` failing,
descriptors shared with another process (in `NpPorts`).  The application binds a descriptor only while no live
slot holds it, never closes a descriptor of the table behind its back, and never
queues more than `INT_MAX` bytes on a socket (`SendQueue` shows what happens
then).

### SendQueue

One connection, of either protocol (`protocol`, chosen in `Init`).  A byte is
its message, its position and the descriptor that arrives with it; a `struct
sbuffer` is the message, the offset of `ptr`, the bytes left and the descriptor
still to pass.  `Send` is `socket_send` or `socket_sendfd`, `FlushWrite` one
iteration of `_send_buffer_tcp` or `_send_buffer_ipc`.  `sbuffersz` is added and
subtracted in two's complement (`Wrap`): the overflow is undefined in C, and
what the build produces is the wrapped value.  `given` and `wire` are history.

### Connection

Two sockets of the library as the ends of one connection.  The sending end is
`SendQueue`, as it is; `wire` is what the kernel has, and `taken` how much of it
the other end has read.  `ReadData` is `_read`, `ReadDropped` `_read_close`,
which it calls while the reading end is half closed, `ReadMsg` `_readfd`;
`ReadEnd` and `ReadError` are the two ways in which each of the three closes the
socket.  The kernel gives any number of the bytes that are there (`Gives`), so
that messages are split and joined at will, and 0 at the end of the file or for
a buffer of no size (`AtEnd`).  `ReadMsg` has room for one descriptor: the
kernel drops one that the process has no room for and sets `MSG_CTRUNC`.
`Adapt` is the change of `rbuffersz` after a read; its second condition, `n <
rbuffersz << 1`, always holds, since a read returns at most `rbuffersz`.

`Reconnect` uses both slots again: `_create_socket` resets `rbuffersz` but not
`rlimit`, so that a limit of the last connection turns the adaptation off for
the next one and limits nothing (`limit`, the history that `ReadsBounded` is
about, is the one set for this connection).

The peer of an IPC connection can not tell a message's descriptor from its
bytes: `_readfd` puts `sizeof(int)` bytes in front of what it has read when a
descriptor came with it, and returns the sum.  The model hands over the two
separately, which is what a caller that knew would do.

### Np, NpEpoll, NpKqueue, NpSelect and NpPorts

Each implementation has variables of its own (the epoll set; two filters of each
descriptor; two sets of descriptors, the array `ud` with its size `cap`, and
`maxfd`), an action for each function of `np.h` that succeeds, one for each that
fails, and the events that `np_poll` may report.  `NpPorts` calls them as
`_subscribe` does (by the slot's mask, `Granting` and `Refusing`), closes
descriptors as `_close_socket` does, and handles the events of a batch one by
one with what the handlers of `socket_poll` do to the multiplexer: close, drop
the interest in writing, accept.  `backend` and `fault` (system calls fail for
want of memory) are chosen in `Init`, so that one run and one proof cover all.

* epoll: a registration belongs to a descriptor and an open file.  `Fork` gives
  another process a copy of every socket and its mask (`child`); what this one
  then closes while it is registered stays behind as an orphan that reports
  events of a freed slot.  `ChildCloses` is `_close_socket` there, without
  `np_del`, for the reason that its comment gives: with `np_del`
  (`ChildUnsubscribes`) the sockets of this process would lose their
  registrations.  `ChildSubscribes` is `_subscribe` there, by the copied mask:
  the epoll set is one for both processes, so `epoll_ctl` changes what this
  process has registered, and nothing in the code keeps the masks of the two
  together.  It is counted as a misuse.  Sockets that the other process creates
  itself are not modelled.
* kqueue: `np_add` adds both filters and disables those not asked for; `np_mod`
  only ever disables one, and refuses to ask for both.  Closing deletes the
  filters.  Two events of one descriptor may be in a batch.
* select: the sets keep a descriptor that net closes; `select(2)` then fails for
  all.  `np_poll` does not look at its `max`.

`misused` is a history variable: net has given up a socket that asks for
something in a way the implementation does not bear, which is any with select, a
shared one with epoll, and a standard descriptor with each (`Misuse`), or the
other process has changed what a shared socket asks for (`ChildSubscribes`).
`Multiplexer`, `RegisteredAsAsked` and `EventsReachOwner` promise what they say
until then; what select keeps of it afterwards is in `SelectTable` and in the
last conjunct of `RegisteredAsAsked`.

### SocketBuffer

The list of blocks, the offset into the first one and `size`, as
`lsocketbuffer.c` keeps them.  `Push` appends a block; `PushPack` and
`FreeBuffer` are the two halves of a pop, which build the result and free what
it covers; `CheckSep` is the comparison across blocks, with the bytes that
`memcmp` reads behind the separator.  `ByteQueue` is what a coroutine expects of
it: `queue` is the bytes that wait, a push puts some behind them, a pop returns
the front of them, or nothing.

### LuaSocket

`pool` is `socket_pool`; the coroutines are modelled by what they wait for, the
socket they use (`own`) and what their last call returned.  `stack` is the chain
of coroutines that have resumed each other, so a handler is not over before the
coroutine it has resumed yields.  `Dispatch` is one iteration of
`psocket_poll`'s loop (with `LS_ECONN_THEN_READ` dispatched twice), and an
assertion that fails in a handler ends that handler only, since `_dispatch`
catches it; in a coroutine it ends the coroutine.  The C library is a small
state machine of its own (`CConnect`, `CReads`, `CSend` and the others are the
functions of `lsocket.c` and `psocket.c`, by what they return and change): the status of each slot, the connection it holds, the
queue of free slots (`SlotQueue`), which an accept or a connect that fails after it
took a slot rotates (`CreateThenClose`), and at most one event for a slot that was
live when the poll began (`Net`'s `EventsReachOwner`, `PollReports` and
`SlotsInOrder`).  It is deliberately not an instance of `Net`, whose descriptors
and masks mean nothing here.

`Init` is the state after `socket.init` and `socket.listen` on any number of
sockets.  A `read` of a coroutine whose entry has no buffer yet ends the
coroutine: line 135 indexes nil (`"pool"` in `failed`).

A connection has a number, by which a property can tell the socket that a
coroutine means from the one that has its slot now; the code cannot.

`psocket.c` was written for another version of `socket.h`: it calls
`socket_send` with a fifth argument and `socket_subscribe`, which is not
declared.  The model reads these as `socket_send` and `socket_enableread`.
`psocket_send` then returns 0 for a failure and `event.err`, which nobody has
set, for a success; the model takes either outcome.

`fault` is chosen in `Init` and says what may go wrong in a behaviour.  The
promises of the layer survive different faults, and each is stated for those
that it survives; for the others TLC finds a counterexample, which is why they
are left out:

| fault | `WaiterKept` | `OwnSocket` | `RightAnswer` | `DisconnectFindsSocket` |
|---|---|---|---|---|
| none | holds | holds | holds | holds |
| `sockerr`: a queued write fails, the handler fails (line 70) | no | no | holds | **no** (run `lua_assert`) |
| `send`: `socket_send` fails, `psocket_send` says it did not | no | no | no | no |
| `enable`: a subscription fails, `readenable` does not say so | no | holds | holds | holds |
| `reuse`: a slot is taken again while `LS_ECONNERR` for it waits | no | no | no | holds |

What is assumed of the program, as the test programs do it: a coroutine uses one
socket at a time, reads only with reading enabled, turns it off before it ends,
and hands a socket over only to a coroutine that starts then.

## Runs

| run | what it asks | bounds |
|---|---|---|
| `slot_pool` | list against queue, assertions of line 182 | 4 slots, descriptors 0..3, so that one taken for a link would be followed |
| `net` | leaks, interest in writing, half close, connect, events within one batch, order of slots | 3 slots: a listener, a socket that ends, and the batch that accepts into its slot; 3 descriptors, 2 bytes (so that a write can be partial), `fcntl` fails |
| `net_faults` | owners, masks and slots when `epoll_ctl` and `fcntl` fail, connects block, the application sends early, and stdin is bound, closed and bound again | 2 slots, stdin and 3 descriptors |
| `net_live` | graceful closes and connects end | 2 slots, 2 descriptors, 2 bytes, a send limit of 1 |
| `connection` | the byte stream from `socket_send` to `socket_read`, descriptors, both limits, the adaptation, `sbuffersz` past the end of `int` | 3 messages of up to 2 bytes and 2 descriptors, an int of 3 bits, `RBUFFER_SZ` = 1 so that it doubles twice, a read limit of 2 |
| `send_return` | does `socket_send` return what its comment says? It does not | |
| `np` | each multiplexer against `Multiplexer`, select's table, refusals, forks | 2 slots, a standard descriptor, two others and one beyond `FD_SETSIZE` = 5, so that the array grows from 2 to 4 |
| `np_select` | does select know what net has closed, as the comment in `np_select.h` has it? It does not | |
| `socket_buffer` | buffer against byte queue, all kinds of pop | 5 bytes in blocks of 1 or 2, separators of 1 to 3 bytes |
| `buffer_length` | does the mode `*1` of the test programs read one byte? It does not | |
| `lua` | waiting coroutines, answers, leftovers | 3 slots, 3 coroutines, 3 connections |
| `lua_assert` | can the assertion of `disconnect` fail? It can | the fault `sockerr` |

`lua` has 1.4 million states, `connection` 0.9 million; the others have fewer.
`connection` has a VIEW that leaves out what the last call returned, which
neither a guard nor one of its properties looks at, and its two descriptors are
interchangeable (symmetry): nothing compares them with anything but `NoFd`.  `np` has a CONSTRAINT: after
a misuse only select is followed further, of which something is still promised;
and only with select a socket takes the descriptor beyond `FD_SETSIZE`, which
means nothing to the others.  `lua` has a VIEW that leaves out what a
coroutine's last call returned (`got`): no guard looks at it, and `RightAnswer`
only at what the step itself has put there.

The types of `Net` and `NpPorts` are proved (`NetType`, `TypeCorrect`) and are
therefore not invariants of a run; those of `SocketBuffer` are part of
`SizeIsContent`.  `NothingLost` and `EndToEnd` are about the bytes and about the
descriptors.  Neither says that what is queued is ever written: `_subscribe`,
whose result `socket_send` and `_send_buffer` ignore, may fail, and that is
`Net`'s (`WriteInterest`, and the theorem `NothingStranded`, each under the
condition that it does not).

Two slots are enough for an action that concerns one socket and disturbs
another; the third is needed only within one batch.  Descriptors and coroutines
are interchangeable (symmetry), except the standard descriptors.  Nothing in the
code depends on how many bytes a write takes beyond none, some and all.  A
separator of three bytes is the shortest that can lie in three blocks, and five
bytes leave room before and behind it.

What does *not* hold, and is why a constant or a condition is what it is:

* `WriteInterest` with `EarlySend = TRUE`: data sent before the connection is
  reported waits with interest in writing, which `_onconnect` (790) then
  removes.  The Lua layer never sends that early (`lib/socket.lua` 84-86).
* `EventsReachOwner` and `BatchTellsTruth` with a standard descriptor: after
  stdin is bound, enabled and closed, its registration still names the slot, and
  an event of stdin is taken for one of the connection that has it now.
  `net_faults` checks what survives this.  The registration can not be renewed
  either: ADD fails with EEXIST when stdin is bound again.
* `NoFdLeak` with a blocking connect and a failing `fcntl` (851-854).
* `HalfCloseEnds` for IPC, if the application goes on sending: `socket_sendfd`
  does not look at the half close.
* What `socket_send` returns (`send_return`) is not what `socket_sendfd` returns
  either: -1 with the message queued, in both.
* That a socket which is half closed sends what it has: the end of the file, read
  before, closes it (265-289).
* That the read limit outlives its connection harmlessly (`Reconnect` above), or
  that it bounds `_readfd`, which does not look at it, nor at the half close.
* `Granted` for kqueue and both directions: a socket that reads and has data
  queued never gets to know that it can write.
* For kqueue, that every event names the slot which holds its descriptor: the
  second event of a descriptor may come after the first has closed it and another
  socket has its slot.  `EventsReachOwner` says that this is the only way: a stale
  event is the last of its descriptor in the batch.
* `RegisteredAsAsked` and `EventsReachOwner` after this process has closed a
  socket that the other one still has, or the other one has called `_subscribe`.
* Everything in `RegisteredAsAsked` but its last conjunct after a misuse.
* That a pop finds every separator: one that is split over blocks is missed
  unless a block ends where it does (`CheckSep`); `MissesOnlySplit` is what is
  left of it.
* `ImplementsQueue` with a NUL in the data and a separator of two bytes, when
  `memcmp` reads the separator's own NUL, and with `AnyDetach = TRUE`, when
  `ldetach` frees `size` bytes of the last block.  Negative numbers of bytes are
  not modelled.
* The matrix of faults above.

## Fairness

`FairSpec` assumes that socket_poll is called again and again and returns
(`while true do socket.poll(-1)`, `test/server.lua` 58-60), weak fairness; that
TCP decides a connection, weak; that a socket that is writable at every call of
`np_poll` is reported again and again (level-triggered epoll; strong, since
between two reports the loop is elsewhere); and that a peer of a socket that is
reported writable again and again takes bytes or dies, strong.  Nothing is
assumed of the application: it may never call anything but `socket_poll`.

## Proofs

`Net_proofs` shows `Spec => []Inv` (`NetCorrect`) for every table size, set of
descriptors, limit and fault.  `Inv` conjoins the types, `FreeIsInvalid` (the
free list has exactly the free slots, once each), `SingleOwner`,
`InterestRegistered`, `NoFdLeak` under the condition that keeps connect from
leaking, and `StdOpen`.  None is inductive alone: a new descriptor gets a clean
registration because nothing is registered for a descriptor no slot holds
(`InterestRegistered`), it is in no slot because live slots hold open ones
(`SingleOwner`), and the slot it goes to is in no use because the list has only
free ones (`FreeIsInvalid`).  One lemma per operator that changes the table
(`CreateInv`, `RotateInv`, `CloseInv`, `SubscribeInv`) carries the argument; the
steps only apply them.  `SlotPool_proofs` shows that `ListInv` is inductive (the
links spell out the history `queue`) and from it the assertions of
`_close_socket` and the refinement of `SlotQueue`.

The second part of `Net_proofs` adds what waits, on top of `NetCorrect`.  Its
argument has two layers.  The first says once what a step may do: `SlotStep` (to a slot: opened,
closed, kept, queued on, half closed, connected or flushed, `NextStep`),
`TableStep` (to the list and the registrations, `NextTable`) and `Outcome` (what
an iteration of `socket_poll` leaves of the slot its event names,
`PollEventStep`).  The second has the invariants, and never opens an action
again.

* `WaitInv`: a connecting socket is watched for writing (`ConnectsAreWatched`)
  and a half closed one has data (`HalfCloseWaitsForData`).  `WriteInv`: queued
  data asks for write events, also in the middle of a batch (`NothingStranded`,
  `InterestInWriting`).
* `LoopInv` counts: `np_poll` gives one event at most for a descriptor and no
  more than `Max`, and an iteration uses up one and puts out one at most
  (`OutputHasRoom`).  `PollingReports` follows from `Outcome` alone.
* `OwnerInv` relates four things.  An event names the slot that holds its
  descriptor (`EventInv`), because the descriptor of an event that waits can not
  have been closed: only the iteration about its slot closes it.  A slot with a
  status has a descriptor of that kind (`KindsInv`), so that a connect that the
  kernel has not decided reports nothing.  What `o_events` says of a slot is its
  state, and a slot comes twice only when it was closed and accepted into
  (`BatchInv`); that an accept gets no slot whose event still waits is what makes
  these inductive (`EventsReachTheirOwner`, `ConnectedIsConnected`,
  `BatchIsTrue`).

Two hypotheses are conditions of the properties, and TLC shows what happens
without them (above): `StdUnbound`, no standard descriptor is bound, and
`WritesGranted`, no data is sent before the connection is reported and
`epoll_ctl` does not fail.  `InterestInWriting` needs, besides, that there are
no standard descriptors, since a bound one may keep an old registration;
`NothingStranded` says the same of all other sockets.

`NpPorts_proofs` shows `Spec => []IInv` (`Invariance`) for every number of slots,
set of descriptors and `FD_SETSIZE`, and from it all invariants of `NpPorts` but
`Granted`, and that each implementation is `Multiplexer`
(`PortsImplementMultiplexer`).  The argument has three layers.  `SelAddInv`,
`SelModInv` and `SelDelInv` are about `np_select.h` alone: `ud` has an entry
exactly for the members of the two sets, and `maxfd` is the largest
(`LargestIs` has the well-foundedness of the naturals behind it).  `AddReg`,
`ModReg`, `DelReg`, `RefusedReg` and `ClosedReg` hide the difference: a call sets
the registration of one descriptor, or none.  On top of them `IInv` relates the
registrations to the sockets.  Its parts need each other: `np_add` finds nothing
registered and `np_mod` the socket's own mask because masks and registrations
agree (`AsAsked`), which lasts because no two live sockets share a descriptor
(`ClientInv`); the table of select stays consistent after a misuse because what a
live socket asks for stays in the sets (`SelectOwns`); and the batch
(`BatchInv`) needs that two events of it have different slots.

`Connection_proofs` is about sequences of bytes of every length.  `FlattenSeq`
is a fold over a recursive function, so what it does with an element more has to
be proved from its definition: `FlattenLemmas` does so, with an induction over a
set of naturals that has a least element (`SetInduction`; the library's
induction theorems take an operator and can not be used here).  The width of
`int` is handled by `WrapIs`, `WrapSum` and `WrapOfInt`: a sum of wrapped numbers
is the wrapped sum, so `sbuffersz` stays the length of the list whatever
overflows on the way.  Two invariants:

* `SendInv` for `SendQueue`: no struct sbuffer is longer than its message,
  `wire \o Queued = given` while the socket is live and `wire` is a prefix
  afterwards, `sbuffersz` is what is queued.  The
  conservation is not inductive alone: a write that takes part of a buffer moves
  its bytes from one side to the other (`TakesFlow`, `StreamSplit`), which
  preserves it only if the buffer is not empty and its descriptor goes with its
  first byte.  Each call is first reduced to the few things it can do to
  `wire`, `list` and `given` (`SendCases`, `FlushCases`).
* `ReadInv` for `Connection`: `SendInv`, and that what was handed over is the
  first `taken` bytes of the wire, for the bytes and for the descriptors
  separately; that nothing is left when the end of the file was seen; and that
  the buffer has the size of the limit once one was set for this connection, and
  never size 0.

From these: `NothingIsLost`, `AccountingHolds`, `LimitHolds`, `StreamImplemented`
of `SendQueue`, and `EofHolds`, `ReadsAreBounded` and `ConnectionDelivers` (both
ends together implement `ByteStream`, for the bytes and for the descriptors) of
`Connection`.  `ConnectionSends` says that the one specification implies the
other, so that what is proved of `SendQueue` holds of the connection the run
checks.

`LuaSocket_proofs` shows `Spec => []LuaInv` (`LuaInvHolds`) for every number of
slots, coroutines and connections.  `TableInv` holds under every fault: types,
the list of free slots without repetition, a stack that has exactly the
coroutines that run.  The rest holds under the faults of `Tame`, where no slot
is reused while an event for it waits and `socket_send` does not lie:

* `OneEventEach`, and `told`, the event that is left for a slot, or none.  With
  it a property of the batch becomes one of the slot.
* `EntriesOK`: an entry of `socket_pool` belongs to a coroutine that uses this
  slot, or has died.  `RunningOK`: a coroutine that runs has its entry, with data of its own
  connection.  `ConnectingOK` and `ReadingOK`: one that waits has its entry, and
  the slot holds its connection or the event that ends it is told.  `EventsOK`:
  an event that is told is one the slot's state explains.
* `Lost` is what the fault `sockerr` leaves: a reader whose end nobody tells.
  Without it the invariant would be false where `OnSockErr` fails, with it
  `RightAnswer` is still proved for `sockerr`.

None of these is inductive alone: `connect` finds no entry of another coroutine
under its new id because every entry has a slot that is live or an event that
waits (`EntriesOK`), no slot of an event that waits is taken (the guard that
`reuse` drops), and the handler removes the entry before it wakes anybody
(`EventsOK`).  `LuaTyped` holds under every fault, `WaitersAreKept`,
`SocketsAreOwned` and `AnswersAreRight` under those of the matrix above.

`SocketBuffer_proofs` shows `Spec => []SizeIsContent` (`SizeKept`) for blocks of
every number and length.  The model names a byte of the list by the number of
bytes before it where the code has a node and an offset, and `StartsAt` and
`NodeAtHolds` relate the two, with `FlattenLemmas` for the content of the list.
What every pop does is `Pops(p, e)`: it returns the bytes up to place `p` and
frees those up to place `e`.  `FreeCuts` has the two cases of `freebuffer`, a
block that ends there and one that does not, and `ReadNPops`, `ReadAllPops`,
`DetachPops` and `ReadSepPops` say which places each call chooses; everything
after them is arithmetic on places.  `checksep` is a recursive function: that it
exists (`MatchExists`), ends behind its place (`SepEnds`), accepts a separator
within one block (`SepFound`) and, without a NUL in the data or with a separator
of one byte, nothing but the separator (`SepMatches`) goes by induction over the
bytes that are left.  `SizeIsContent` is inductive as it stands, and the others
follow: `CountsRight`, `WholeSeparatorsFound`, which needs no condition on the
data, and `ListIsQueue`, the refinement of `ByteQueue`.  `~AnyDetach` (a buffer
is detached only as one whole block) and `Exact` (the condition on NUL) are the
cases that TLC refutes above.

The assumptions are the named ones of the modules (`MaxAssumption`,
`FdsAssumption`, `NetAssumption`, `NpAssumption`, `NpPortsAssumption`,
`SendQueueAssumption`, `ConnectionAssumption`, `LuaSocketAssumption`,
`SocketBufferAssumption`).  They say
that bounds are naturals, that a process has finitely many descriptors
(`NetAssumption`: the number of events of a batch is counted), that a separator
has a byte (`lpop` asks for no other), and that `NoFd`, `NoEntry`, `NoBuffer` and
`Nil` stand apart from what they are the absence of.

Only model-checked: liveness (`HalfCloseEnds`, `ConnectResolves`) and `Granted`,
since fairness and ENABLED are out of the prover's reach.  The safety half of
the two is proved.  `HalfCloseIsFinal`: a half closed socket goes nowhere but to
its end, and what it has left to send never grows (`socket_sendfd`, which does
not look at the status, is the exception the theorem names); with
`HalfCloseWaitsForData` there is always a write that can end it.
`ConnectIsReported` and `ConnectEndsAtEvent`: a connect that the kernel has
decided is one that `np_poll` can report, and the iteration that gets this event
ends the connect.

## Plan

Every safety property of the passing runs but `Granted` is stated by a theorem,
under the conditions named above, and so are the steps behind the two liveness
properties; what a run still has to show is that fairness puts them together.

Runs that ask the same question of several variants share a configuration, with
a variable that `Init` chooses (`protocol`, `backend`, `fault`).

## Not modelled

The Windows variants and the meaning of `FD_SETSIZE` there, name resolution and
addresses, `alloc.h`, argument conversion in `lsocket.c` and its functions that
only pass a result on, the test programs.  Reading from a UDP socket is not: the
library lets one be bound, but `socket_read` returns -1 for it (443) and nothing
else reads it.
