----------------------------- MODULE SendQueue -----------------------------
(***************************************************************************)
(* The send path of one socket of src/src/socket.c, in bytes: the list of  *)
(* struct sbuffer between socket_send (TCP) or socket_sendfd (IPC), which  *)
(* append to it, and _send_buffer, which writes its head, one write(2) or  *)
(* sendmsg(2) being one step; sbuffersz, the int that is compared with the *)
(* limit; the descriptors an IPC message carries.  The rest of the slot    *)
(* and of the loop is in Net: also the interest in writing, which both     *)
(* ends of the list ask _subscribe for and do not see refused.  So nothing *)
(* here says when, or that, _send_buffer runs.                             *)
(***************************************************************************)
EXTENDS Integers, Sequences, SequencesExt

CONSTANTS
  Protocols,   \* of the connections: "TCP", "IPC"
  INT_MAX,     \* of the C type int
  MaxSize,     \* the largest message
  MaxMsgs,     \* bound on the messages of one connection
  Limits,      \* the values the application gives to socket_limit
  Cfds,        \* descriptors that an IPC message may carry
  NoFd         \* -1: the message carries none

ASSUME SendQueueAssumption ==
  /\ Protocols \subseteq {"TCP", "IPC"}
  /\ INT_MAX \in Nat \ {0}
  /\ MaxSize \in 1 .. INT_MAX
  /\ MaxMsgs \in Nat
  /\ Limits \subseteq 1 .. INT_MAX
  /\ NoFd \notin Cfds

VARIABLES
  protocol,
  status,      \* "OPEN" (connected or bound), "HALFCLOSE" or "INVALID"
  list,        \* head .. tail
  sbuffersz, slimit,
  flushing,    \* inside _send_buffer
  msgs,        \* the number of messages so far
  given,       \* history: the bytes of the messages that were taken
  wire,        \* the bytes the kernel has taken
  event,       \* what has ended the connection
  ret          \* the last call: returned value, error reported, bytes sent

vars == <<protocol, status, list, sbuffersz, slimit, flushing, msgs,
          given, wire, event, ret>>

\* struct sbuffer: the message, how far ptr is from begin, the bytes left,
\* and the descriptor to pass with the next of them.
Sbuffer == [msg : 1 .. MaxMsgs, at : 0 .. MaxSize, sz : 1 .. MaxSize,
            fd : Cfds \cup {NoFd}]

\* A byte on the wire, and the descriptor that arrives with it.
Bytes == [msg : 1 .. MaxMsgs, byte : 1 .. MaxSize, fd : Cfds \cup {NoFd}]

\* What sendmsg(2) of the first n bytes of b puts on the wire: a descriptor
\* travels with the first of them.
Stream(b, n) ==
  [i \in 1 .. n |-> [msg |-> b.msg, byte |-> b.at + i,
                     fd |-> IF i = 1 THEN b.fd ELSE NoFd]]

Queued == FlattenSeq([i \in 1 .. Len(list) |-> Stream(list[i], list[i].sz)])

\* Addition of int, in two's complement.
Wrap(x) == ((x + INT_MAX + 1) % (2 * (INT_MAX + 1))) - (INT_MAX + 1)

TypeOK ==
  /\ protocol \in Protocols
  /\ status \in {"OPEN", "HALFCLOSE", "INVALID"}
  /\ list \in Seq(Sbuffer)
  /\ sbuffersz \in -(INT_MAX + 1) .. INT_MAX
  /\ slimit \in 1 .. INT_MAX
  /\ flushing \in BOOLEAN
  /\ msgs \in 0 .. MaxMsgs
  /\ given \in Seq(Bytes)
  /\ wire \in Seq(Bytes)
  /\ event \in {"none", "SOCKERR", "WRIDONECLOSE", "WBUFOVER", "closed"}
  /\ ret \in [n : -1 .. MaxSize, err : BOOLEAN, sent : 0 .. MaxSize]

NoCall == [n |-> 0, err |-> FALSE, sent |-> 0]

\* _create_socket.
Init ==
  /\ protocol \in Protocols
  /\ status = "OPEN"
  /\ list = <<>>
  /\ sbuffersz = 0
  /\ slimit = INT_MAX
  /\ flushing = FALSE
  /\ msgs = 0
  /\ given = <<>>
  /\ wire = <<>>
  /\ event = "none"
  /\ ret = NoCall

Reopen ==
  /\ status = "INVALID"
  /\ protocol' \in Protocols
  /\ status' = "OPEN"
  /\ list' = <<>>
  /\ sbuffersz' = 0
  /\ slimit' = INT_MAX
  /\ msgs' = 0
  /\ given' = <<>>
  /\ wire' = <<>>
  /\ event' = "none"
  /\ ret' = NoCall
  /\ UNCHANGED flushing

\* _close_socket, which frees the list.
CloseSocket(why) ==
  /\ status' = "INVALID"
  /\ list' = <<>>
  /\ sbuffersz' = 0
  /\ flushing' = FALSE
  /\ event' = why
  /\ UNCHANGED slimit

-----------------------------------------------------------------------------
(* socket_send and socket_sendfd.                                          *)

\* Mutant of Enqueue: the limit is compared before the message is counted.
EnqueueLateCheck(b, n, sent) ==
  \/ /\ sbuffersz > slimit
     /\ CloseSocket("WBUFOVER")
     /\ ret' = [n |-> -1, err |-> TRUE, sent |-> sent]
  \/ /\ sbuffersz <= slimit
     /\ sbuffersz' = Wrap(sbuffersz + b.sz)
     /\ list' = Append(list, b)
     /\ UNCHANGED <<status, slimit, flushing, event>>
     /\ ret' = [n |-> n, err |-> FALSE, sent |-> sent]

\* What is left of a message is counted, compared with the limit, and
\* appended.  socket_send has sent "sent" bytes and would return n.
Enqueue(b, n, sent) ==
  LET total == Wrap(sbuffersz + b.sz) IN
  \/ /\ total > slimit
     /\ CloseSocket("WBUFOVER")
     /\ ret' = [n |-> -1, err |-> TRUE, sent |-> sent]
  \/ /\ total <= slimit
     /\ sbuffersz' = total
     /\ list' = Append(list, b)
     /\ UNCHANGED <<status, slimit, flushing, event>>
     /\ ret' = [n |-> n, err |-> FALSE, sent |-> sent]

\* The call on an empty list: the kernel is asked first.
SendNow(b) ==
  \/ /\ wire' = wire \o Stream(b, b.sz)
     /\ UNCHANGED <<status, list, sbuffersz, slimit, flushing, event>>
     /\ ret' = [n |-> IF protocol = "TCP" THEN b.sz ELSE 0,
                err |-> FALSE, sent |-> b.sz]
  \/ \E n \in 1 .. b.sz - 1 :
       /\ wire' = wire \o Stream(b, n)
       /\ Enqueue([b EXCEPT !.at = n, !.sz = @ - n, !.fd = NoFd], n, n)
  \/ /\ UNCHANGED wire
     /\ Enqueue(b, -1, 0)                           \* EAGAIN, EINTR
  \/ /\ UNCHANGED wire
     /\ CloseSocket("SOCKERR")
     /\ ret' = [n |-> -1, err |-> TRUE, sent |-> 0]

\* Only TCP looks at the half close.
Send(sz, cfd) ==
  LET b == [msg |-> msgs + 1, at |-> 0, sz |-> sz, fd |-> cfd] IN
  /\ ~flushing
  /\ msgs < MaxMsgs
  /\ status # "INVALID"
  /\ \/ /\ protocol = "TCP" /\ status = "HALFCLOSE"
        /\ ret' = [n |-> -1, err |-> TRUE, sent |-> 0]
        /\ UNCHANGED <<status, list, sbuffersz, slimit, flushing,
                       msgs, given, wire, event>>
     \/ /\ protocol = "IPC" \/ status = "OPEN"
        /\ msgs' = msgs + 1
        /\ given' = given \o Stream(b, sz)
        /\ \/ list = <<>> /\ SendNow(b)
           \/ list # <<>> /\ Enqueue(b, 0, 0) /\ UNCHANGED wire

-----------------------------------------------------------------------------
(* socket_poll on this socket.                                             *)

\* Writable, or an error or a hang-up, which epoll calls writable.  On an
\* empty list _send_buffer does nothing.
FlushStart ==
  /\ ~flushing
  /\ status # "INVALID"
  /\ list # <<>>
  /\ flushing' = TRUE
  /\ UNCHANGED <<status, list, sbuffersz, slimit, msgs, given,
                 wire, event, ret>>

\* Mutant of FlushSome: off by one, a buffer with nothing left stays.
FlushSomeOrAll(n) ==
  LET b == Head(list) IN
  /\ n \in 0 .. b.sz
  /\ wire' = wire \o Stream(b, n)
  /\ sbuffersz' = Wrap(sbuffersz - n)
  /\ list' = [list EXCEPT ![1] = [b EXCEPT !.at = @ + n, !.sz = @ - n]]
  /\ flushing' = FALSE

\* Mutant of FlushSome: the descriptor is passed with every part.
FlushSomeKeepsFd(n) ==
  LET b == Head(list) IN
  /\ n \in 0 .. b.sz - 1
  /\ wire' = wire \o Stream(b, n)
  /\ sbuffersz' = Wrap(sbuffersz - n)
  /\ list' = [list EXCEPT ![1] = [b EXCEPT !.at = @ + n, !.sz = @ - n]]
  /\ flushing' = FALSE

\* One iteration of _send_buffer_tcp or _send_buffer_ipc; after EAGAIN and
\* after a part the loop returns.
FlushSome(n) ==
  LET b == Head(list) IN
  /\ n \in 0 .. b.sz - 1
  /\ wire' = wire \o Stream(b, n)
  /\ sbuffersz' = Wrap(sbuffersz - n)
  /\ list' = [list EXCEPT ![1] = [b EXCEPT !.at = @ + n, !.sz = @ - n,
                                           !.fd = IF n > 0 THEN NoFd ELSE @]]
  /\ flushing' = FALSE

\* Mutant of FlushWhole: what was sent stays in the count.
FlushWholeUncounted ==
  LET b == Head(list) IN
  /\ wire' = wire \o Stream(b, b.sz)
  /\ list' = Tail(list)
  /\ UNCHANGED <<sbuffersz, flushing>>

FlushWhole ==
  LET b == Head(list) IN
  /\ wire' = wire \o Stream(b, b.sz)
  /\ sbuffersz' = Wrap(sbuffersz - b.sz)
  /\ list' = Tail(list)
  /\ UNCHANGED flushing

FlushWrite ==
  /\ flushing
  /\ list # <<>>
  /\ (\E n \in 0 .. MaxSize : FlushSome(n)) \/ FlushWhole
  /\ UNCHANGED <<status, slimit, msgs, given, event, ret>>

FlushError ==
  /\ flushing
  /\ list # <<>>
  /\ CloseSocket("SOCKERR")
  /\ UNCHANGED <<msgs, given, wire, ret>>

\* Mutant of FlushEnd: the half closed socket does not wait for its list.
FlushEndEarly ==
  /\ flushing
  /\ IF status = "HALFCLOSE"
     THEN status' = "INVALID" /\ event' = "WRIDONECLOSE" /\ list' = <<>>
     ELSE list = <<>> /\ UNCHANGED <<status, event, list>>
  /\ flushing' = FALSE
  /\ UNCHANGED <<sbuffersz, slimit, msgs, given, wire, ret>>

\* The list is empty: the end of a half closed socket.
FlushEnd ==
  /\ flushing
  /\ list = <<>>
  /\ IF status = "HALFCLOSE"
     THEN /\ status' = "INVALID"
          /\ event' = "WRIDONECLOSE"
     ELSE UNCHANGED <<status, event>>
  /\ flushing' = FALSE
  /\ UNCHANGED <<list, sbuffersz, slimit, msgs, given, wire, ret>>

-----------------------------------------------------------------------------
\* socket_close.
Close(force) ==
  /\ ~flushing
  /\ status # "INVALID"
  /\ \/ /\ force \/ list = <<>>
        /\ CloseSocket("closed")
     \/ /\ ~force /\ list # <<>>
        /\ status' = "HALFCLOSE"
        /\ UNCHANGED <<list, sbuffersz, slimit, flushing, event>>
  /\ UNCHANGED <<msgs, given, wire, ret>>

\* socket_limit.
Limit(lim) ==
  /\ ~flushing
  /\ status # "INVALID"
  /\ slimit' = lim
  /\ UNCHANGED <<status, list, sbuffersz, flushing, msgs, given,
                 wire, event, ret>>

Step ==
  \/ \E sz \in 1 .. MaxSize,
        cfd \in (IF protocol = "IPC" THEN Cfds ELSE {}) \cup {NoFd} : Send(sz, cfd)
  \/ FlushStart
  \/ FlushWrite
  \/ FlushError
  \/ FlushEnd
  \/ \E force \in BOOLEAN : Close(force)
  \/ \E lim \in Limits \cup {INT_MAX} : Limit(lim)

Next == (Step /\ UNCHANGED protocol) \/ Reopen

Spec == Init /\ [][Next]_vars

-----------------------------------------------------------------------------
(***************************************************************************)
(* What the kernel has taken, followed by what the list holds, is what was *)
(* given: after any mixture of partial writes, full writes and appends no  *)
(* byte is lost, doubled or out of order, and the descriptor of a message  *)
(* is passed once, with the first byte of it.  (That what is queued is     *)
(* also watched for writing is not true of every run: see WriteInterest in *)
(* Net.)                                                                   *)
(***************************************************************************)
NothingLost == status # "INVALID" => wire \o Queued = given

(***************************************************************************)
(* sbuffersz is the number of bytes in the list, modulo the width of int.  *)
(***************************************************************************)
Accounting == sbuffersz = Wrap(Len(Queued))

(***************************************************************************)
(* The list never grows past the limit that is in force, if there is one:  *)
(* or it is more than an int counts, which no limit stops.                 *)
(***************************************************************************)
LimitRespected ==
  [][Len(list') > Len(list) /\ slimit < INT_MAX
       => Len(Queued)' > INT_MAX \/ Len(Queued)' <= slimit]_vars

(***************************************************************************)
(* The comments above socket_send ("return send size, or -1 for error")    *)
(* and socket_sendfd (socket.c:521 and 595).                               *)
(***************************************************************************)
ReturnsSendSize == ret.n = IF ret.err THEN -1 ELSE ret.sent

(***************************************************************************)
(* The send path implements the byte stream; in particular a socket that   *)
(* is half closed ends as done only when the peer has been sent all.       *)
(***************************************************************************)
Channel ==
  INSTANCE ByteStream WITH
    phase <- IF status # "INVALID" THEN "open"
             ELSE IF event = "WRIDONECLOSE" THEN "done" ELSE "aborted"

ImplementsStream == Channel!Spec
=============================================================================
