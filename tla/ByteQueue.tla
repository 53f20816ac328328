----------------------------- MODULE ByteQueue -----------------------------
(***************************************************************************)
(* What a buffer of received data is for its user: a queue of bytes.  Data *)
(* is put in at the end; a pop takes bytes off the front, or those before  *)
(* a separator, which goes too, or finds that it can not.                  *)
(***************************************************************************)
EXTENDS Naturals, Sequences

CONSTANTS Bytes, Seps, Nil

VARIABLES queue,      \* the bytes that wait
          ret         \* what the last pop has returned, or Nil

Init == queue = <<>> /\ ret = Nil

Push ==
  /\ queue' \in Seq(Bytes)
  /\ Len(queue') > Len(queue)
  /\ SubSeq(queue', 1, Len(queue)) = queue
  /\ ret' = Nil

Take ==
  /\ ret' \in Seq(Bytes)
  /\ queue = ret' \o queue'

TakeBefore(sep) ==
  /\ ret' \in Seq(Bytes)
  /\ queue = ret' \o sep \o queue'

Nothing == ret' = Nil /\ UNCHANGED queue

Next == Push \/ Take \/ (\E sep \in Seps : TakeBefore(sep)) \/ Nothing

Spec == Init /\ [][Next]_<<queue, ret>>
=============================================================================
