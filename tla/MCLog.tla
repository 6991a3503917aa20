------------------------------- MODULE MCLog -------------------------------
(* Instance of Log for TLC: the constants come from the .cfg files.        *)
EXTENDS Log, TLC

\* The processes, the blocks and the contents are interchangeable.
LogSymmetry == Permutations(Procs) \cup Permutations(Blocks) \cup Permutations(Vals)
=============================================================================
