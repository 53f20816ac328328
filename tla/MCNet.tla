------------------------------- MODULE MCNet -------------------------------
(* Net on small tables; f1 stands for stdin where StdFds holds it.         *)
EXTENDS Net, TLC

CONSTANTS f1, f2, f3, f4

Symmetry == Permutations(Fds)

\* The standard descriptors are not like the others.
StdSymmetry == Permutations(Fds \ StdFds)
=============================================================================
