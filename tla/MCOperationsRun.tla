--------------------------- MODULE MCOperationsRun ---------------------------
(* Two processes, three run identities, two edits; processes and identities   *)
(* are interchangeable.                                                       *)
EXTENDS OperationsRun, TLC

Interchangeable == Permutations(Procs) \union Permutations(RunIds)
=============================================================================
