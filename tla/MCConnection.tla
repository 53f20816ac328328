---------------------------- MODULE MCConnection ----------------------------
(* Connection with two descriptors to pass, which are interchangeable.     *)
EXTENDS Connection, TLC

CONSTANTS c1, c2

\* All that these runs' properties and the guards look at: not ret.
View == <<protocol, status, list, sbuffersz, slimit, flushing, msgs,
          given, wire, event, rvars>>

Symmetry == Permutations(Cfds)
=============================================================================
