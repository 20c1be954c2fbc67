-------------------------- MODULE MCAtomicRevisions --------------------------
(* Instances of AtomicRevisions for TLC: the constants are in the cfg files.  *)
EXTENDS AtomicRevisions, TLC

\* Processes may be exchanged; keys may not, where one of them is a create.
Symmetry == Permutations(Procs)
=============================================================================
