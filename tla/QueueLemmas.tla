---------------------------- MODULE QueueLemmas ----------------------------
(* What Tail and Append do to a queue held in a sequence.                  *)
EXTENDS Integers, Sequences, SequenceTheorems, TLAPS

(***************************************************************************)
(* Taking the head of the queue keeps the order of the others.             *)
(***************************************************************************)
LEMMA TailOfQueue ==
  ASSUME NEW S, NEW q \in Seq(S), q # <<>>
  PROVE  /\ Tail(q) \in Seq(S)
         /\ Len(Tail(q)) = Len(q) - 1
         /\ Len(q) \in Nat \ {0}
         /\ q[1] \in S
         /\ Head(q) = q[1]
         /\ \A i \in 1 .. Len(q) - 1 : Tail(q)[i] = q[i+1]
  BY HeadTailProperties, EmptySeq, ElementOfSeq, LenProperties

(***************************************************************************)
(* Appending behind the queue keeps the order of the others.               *)
(***************************************************************************)
LEMMA AppendToQueue ==
  ASSUME NEW S, NEW q \in Seq(S), NEW e \in S
  PROVE  /\ Append(q, e) \in Seq(S)
         /\ Append(q, e) # <<>>
         /\ Len(Append(q, e)) = Len(q) + 1
         /\ Len(q) \in Nat
         /\ \A i \in 1 .. Len(q) : Append(q, e)[i] = q[i]
         /\ Append(q, e)[Len(q) + 1] = e
  BY AppendProperties, LenProperties
=============================================================================
