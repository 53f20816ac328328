----------------------------- MODULE Connection -----------------------------
(***************************************************************************)
(* Two sockets of the library as the ends of one connection: SendQueue is  *)
(* the end that sends, and the other end reads what it has put on the      *)
(* wire with socket_read: _read for TCP, whose buffer adapts to what it    *)
(* reads, and _readfd for IPC, which hands over the descriptors.  Of what  *)
(* the reading end sends itself only the half close matters here.          *)
(***************************************************************************)
EXTENDS SendQueue

CONSTANTS
  RBUFFER_SZ,        \* the first size of the buffer of _read
  RECVMSG_MAXSIZE,   \* the buffer of _readfd
  ReadLimits         \* what the application gives to socket_limit

ASSUME ConnectionAssumption ==
  /\ RBUFFER_SZ \in Nat \ {0}
  /\ RECVMSG_MAXSIZE \in Nat \ {0}
  /\ ReadLimits \subseteq Nat \ {0}

VARIABLES
  rstatus,     \* of the reading end: "OPEN", "HALFCLOSE" or "INVALID"
  rbuffersz, rlimit,
  taken,       \* how much of the wire the kernel has given out
  data, fds,   \* history: the bytes and the descriptors handed over
  limit,       \* history: the last read limit set for this connection, or 0
  rend         \* what has ended the reading end; EOFHALF while half closed

rvars == <<rstatus, rbuffersz, rlimit, taken, data, fds, limit, rend>>

\* A byte without the descriptor that travels with it.
Payload == [msg : 1 .. MaxMsgs, byte : 1 .. MaxSize]
Contents(s) == [i \in DOMAIN s |-> [msg |-> s[i].msg, byte |-> s[i].byte]]
Carried(s) == [i \in DOMAIN s |-> IF s[i].fd = NoFd THEN <<>> ELSE <<s[i].fd>>]
Descriptors(s) == FlattenSeq(Carried(s))

ConnectionTypeOK ==
  /\ TypeOK
  /\ rstatus \in {"OPEN", "HALFCLOSE", "INVALID"}
  /\ rbuffersz \in Nat
  /\ rlimit \in ReadLimits \cup {0}
  /\ taken \in 0 .. Len(wire)
  /\ data \in Seq(Payload)
  /\ fds \in Seq(Cfds)
  /\ limit \in ReadLimits \cup {0}
  /\ rend \in {"none", "EOF", "EOFHALF", "SOCKERR", "TRUNC", "closed"}

ConnectionInit ==
  /\ Init
  /\ rstatus = "OPEN"
  /\ rbuffersz = RBUFFER_SZ
  /\ rlimit = 0
  /\ taken = 0
  /\ data = <<>> /\ fds = <<>>
  /\ limit = 0
  /\ rend = "none"

\* Both slots are used again; _create_socket resets rbuffersz, not rlimit.
Reconnect ==
  /\ rstatus = "INVALID"
  /\ Reopen
  /\ rstatus' = "OPEN"
  /\ rbuffersz' = RBUFFER_SZ
  /\ taken' = 0
  /\ data' = <<>> /\ fds' = <<>>
  /\ limit' = 0
  /\ rend' = "none"
  /\ UNCHANGED rlimit

-----------------------------------------------------------------------------
(* The kernel at the reading end.                                          *)

Unread == SubSeq(wire, taken + 1, Len(wire))

\* read(2) or recvmsg(2) gives the first n unread bytes.
Gives(n) == n \in 1 .. Len(Unread) /\ taken' = taken + n

\* Nothing is left and the sending end is closed; or the buffer is empty.
AtEnd(size) == size = 0 \/ (Unread = <<>> /\ status = "INVALID")

EndReading(why) ==
  /\ rstatus' = "INVALID"
  /\ rend' = why
  /\ UNCHANGED <<rbuffersz, rlimit, data, fds, limit>>

-----------------------------------------------------------------------------
(* socket_read.                                                            *)

\* Mutant of Adapt: the limit does not stop it.
AdaptAlways(n) ==
  IF n = rbuffersz THEN 2 * rbuffersz
  ELSE IF rbuffersz > RBUFFER_SZ THEN rbuffersz \div 2 ELSE rbuffersz

\* The next size, after a read of n bytes; n < (rbuffersz << 1) always holds,
\* and twice what a kernel gives at once is far from INT_MAX.
Adapt(n) ==
  IF rlimit # 0 THEN rbuffersz
  ELSE IF n = rbuffersz THEN 2 * rbuffersz
  ELSE IF rbuffersz > RBUFFER_SZ THEN rbuffersz \div 2 ELSE rbuffersz

\* _read.
ReadData(n) ==
  /\ protocol = "TCP" /\ rstatus = "OPEN"
  /\ n <= rbuffersz
  /\ Gives(n)
  /\ data' = data \o Contents(SubSeq(Unread, 1, n))
  /\ rbuffersz' = Adapt(n)
  /\ UNCHANGED <<rstatus, rlimit, fds, limit, rend>>

\* _read_close: what arrives is dropped.
ReadDropped(n) ==
  /\ protocol = "TCP" /\ rstatus = "HALFCLOSE"
  /\ Gives(n)
  /\ UNCHANGED <<rstatus, rbuffersz, rlimit, data, fds, limit, rend>>

\* Mutant of ReadMsg: the flags are not looked at.
ReadMsgUnchecked(n) ==
  LET got == SubSeq(Unread, 1, n)
      cfds == Descriptors(got) IN
  /\ protocol = "IPC" /\ rstatus # "INVALID"
  /\ n <= RECVMSG_MAXSIZE
  /\ Gives(n)
  /\ data' = data \o Contents(got)
  /\ fds' = IF cfds = <<>> THEN fds ELSE Append(fds, Head(cfds))
  /\ UNCHANGED <<rstatus, rbuffersz, rlimit, limit, rend>>

\* _readfd, which does not look at the half close.  There is room for one
\* descriptor; one more, or no room for it in the process, is MSG_CTRUNC.
ReadMsg(n) ==
  LET got == SubSeq(Unread, 1, n)
      cfds == Descriptors(got) IN
  /\ protocol = "IPC" /\ rstatus # "INVALID"
  /\ n <= RECVMSG_MAXSIZE
  /\ Gives(n)
  /\ \/ /\ Len(cfds) <= 1
        /\ data' = data \o Contents(got)
        /\ fds' = fds \o cfds
        /\ UNCHANGED <<rstatus, rbuffersz, rlimit, limit, rend>>
     \/ cfds # <<>> /\ EndReading("TRUNC")

\* The end of the file, in each of the three.
ReadEnd ==
  /\ \/ protocol = "TCP" /\ rstatus = "OPEN" /\ AtEnd(rbuffersz) /\ EndReading("EOF")
     \/ protocol = "TCP" /\ rstatus = "HALFCLOSE" /\ AtEnd(1024) /\ EndReading("EOFHALF")
     \/ protocol = "IPC" /\ rstatus # "INVALID" /\ AtEnd(RECVMSG_MAXSIZE) /\ EndReading("EOF")
  /\ UNCHANGED taken

ReadError ==
  /\ rstatus # "INVALID"
  /\ EndReading("SOCKERR")
  /\ UNCHANGED taken

-----------------------------------------------------------------------------
(* The other calls on the reading end.                                     *)

\* Mutant of ReadLimit: no limit is taken for a size.
ReadLimitZero(lim) ==
  /\ rstatus # "INVALID"
  /\ rlimit' = lim
  /\ rbuffersz' = lim
  /\ limit' = lim
  /\ UNCHANGED <<rstatus, taken, data, fds, rend>>

\* socket_limit's rlimit.
ReadLimit(lim) ==
  /\ rstatus # "INVALID"
  /\ rlimit' = lim
  /\ rbuffersz' = IF lim = 0 THEN rbuffersz ELSE lim
  /\ limit' = lim
  /\ UNCHANGED <<rstatus, taken, data, fds, rend>>

\* socket_close, with data of its own queued.
HalfClose ==
  /\ rstatus = "OPEN"
  /\ rstatus' = "HALFCLOSE"
  /\ UNCHANGED <<rbuffersz, rlimit, taken, data, fds, limit, rend>>

\* It is closed by force, or its own data has gone out or cannot.
ReaderCloses ==
  /\ rstatus # "INVALID"
  /\ EndReading("closed")
  /\ UNCHANGED taken

Reader ==
  \/ \E n \in 1 .. Len(Unread) : ReadData(n) \/ ReadDropped(n) \/ ReadMsg(n)
  \/ ReadEnd
  \/ ReadError
  \/ \E lim \in ReadLimits \cup {0} : ReadLimit(lim)
  \/ HalfClose
  \/ ReaderCloses

ConnectionNext ==
  \/ Step /\ UNCHANGED <<protocol, rvars>>
  \/ Reader /\ UNCHANGED vars
  \/ Reconnect

ConnectionSpec == ConnectionInit /\ [][ConnectionNext]_<<vars, rvars>>

-----------------------------------------------------------------------------
\* Both ends went well: all was sent before the close, and read to the end.
Phase ==
  IF rstatus # "INVALID" THEN "open"
  ELSE IF rend = "EOF" /\ event = "WRIDONECLOSE" THEN "done" ELSE "aborted"

(***************************************************************************)
(* From socket_send to socket_read the connection is a byte stream: what   *)
(* the reader has is a prefix of what was given, and when a half closed    *)
(* sender ends as done and the reader at the end of the file, all of it.   *)
(* A reader that has closed its own half drops what comes.                 *)
(***************************************************************************)
Delivery ==
  INSTANCE ByteStream WITH
    Bytes <- Payload, given <- Contents(given), wire <- data, phase <- Phase

(***************************************************************************)
(* So are the descriptors: they arrive as they were given, in order and    *)
(* none left out, however the messages were split and joined on the way: a *)
(* descriptor that cannot be handed over ends the connection (LS_ERR_TRUNC).*)
(***************************************************************************)
Passing ==
  INSTANCE ByteStream WITH
    Bytes <- Cfds, given <- Descriptors(given), wire <- fds, phase <- Phase

(***************************************************************************)
(* Bytes and descriptors reach the peer's socket_read as they were given   *)
(* to socket_send and socket_sendfd, each as a stream of its own.          *)
(***************************************************************************)
EndToEnd == Delivery!Spec /\ Passing!Spec

(***************************************************************************)
(* The reading end takes for the end of the file only the peer's close,    *)
(* after all that it has sent: neither the limit nor the adaptation leaves *)
(* a buffer of no size, for which read(2) would return 0.                  *)
(***************************************************************************)
EofIsReal ==
  rend \in {"EOF", "EOFHALF"} => status = "INVALID" /\ Unread = <<>>

(***************************************************************************)
(* With a read limit set for a TCP connection, no read of it returns more. *)
(* And when the buffer grows, it grows to no more than its first size, the *)
(* limit or twice what the call has just read.                             *)
(***************************************************************************)
ReadsBounded ==
  [][/\ data' # data /\ protocol = "TCP" /\ limit # 0 => Len(data') - Len(data) <= limit
     /\ rbuffersz' > rbuffersz =>
          rbuffersz' <= Max({RBUFFER_SZ, rlimit', 2 * (taken' - taken)})]_<<vars, rvars>>
=============================================================================
