----------------------------- MODULE MCBringup -----------------------------
(* Symmetry of the instances of Bringup.                                   *)
EXTENDS Bringup, TLC

\* No definition of Bringup tells two runs, or two process ids, apart.
Symmetry == Permutations(Starters) \cup Permutations(Pids)
=============================================================================
