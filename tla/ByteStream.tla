----------------------------- MODULE ByteStream -----------------------------
(***************************************************************************)
(* What the send path of socket.c promises for one connection: the peer    *)
(* receives the bytes that were given, in order, each once, and a graceful *)
(* close comes after the last of them.  An abort may lose the rest, and    *)
(* what is given before the sending end hears of it.                       *)
(***************************************************************************)
EXTENDS Naturals, Sequences

CONSTANT Bytes      \* what travels: a byte, and the descriptor it may carry

VARIABLES given,    \* the bytes the application has handed over
          wire,     \* the bytes the kernel has taken
          phase     \* "open", "done" or "aborted"

Init == given = <<>> /\ wire = <<>> /\ phase = "open"

Extends(longer, s) ==
  Len(longer) >= Len(s) /\ SubSeq(longer, 1, Len(s)) = s

\* Bytes are handed over, the kernel takes bytes, or both.
Moves ==
  /\ given' \in Seq(Bytes)
  /\ Extends(given', given)
  /\ Extends(wire', wire)
  /\ Extends(given', wire')

Transfer ==
  /\ phase = "open"
  /\ Moves
  /\ UNCHANGED phase

Finish ==
  /\ phase = "open"
  /\ wire = given
  /\ phase' = "done"
  /\ UNCHANGED <<given, wire>>

\* The connection may fail in the middle of a transfer.
Abort ==
  /\ phase = "open"
  /\ Moves
  /\ phase' = "aborted"

GiveInVain ==
  /\ phase = "aborted"
  /\ given' \in Seq(Bytes)
  /\ Extends(given', given)
  /\ UNCHANGED <<wire, phase>>

\* The slot is used for another connection.
Reopen ==
  /\ phase # "open"
  /\ given' = <<>> /\ wire' = <<>> /\ phase' = "open"

Next == Transfer \/ Finish \/ Abort \/ GiveInVain \/ Reopen

Spec == Init /\ [][Next]_<<given, wire, phase>>
=============================================================================
