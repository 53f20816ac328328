---------------------------- MODULE MCLuaSocket ----------------------------
(* LuaSocket with up to three coroutines, which are interchangeable.       *)
EXTENDS LuaSocket, TLC

CONSTANTS c1, c2, c3

\* All that the guards look at: not got, of which the properties ask only
\* what the step that sets it has put there.
View == <<fault, sock, free, conns, phase, polled, batch, pool, stack, cst, own, failed>>

Symmetry == Permutations(Cos)
=============================================================================
