------------------------------ MODULE MCGreen ------------------------------
(***************************************************************************)
(* GreenClient on a handful of threads.                                    *)
(***************************************************************************)
EXTENDS GreenClient, TLC

\* The threads other than Main are interchangeable, and so are the mutexes
\* and the conditions.
Symmetry ==
  Permutations(Threads \ {Main}) \cup Permutations(Mutexes) \cup Permutations(Conds)
=============================================================================
