----------------------------- MODULE PrecalcMC -----------------------------
(* Precalc on small instances.                                             *)
EXTENDS Precalc, TLC

\* Processes, users and subreddits are told apart by nothing but their names.
Symmetry == Permutations(Procs) \cup Permutations(Users) \cup Permutations(Subs)
=============================================================================
