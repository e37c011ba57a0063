----------------------------- MODULE JobQueueMC -----------------------------
(* Instances of JobQueue for TLC.                                          *)
EXTENDS JobQueue, TLC

\* Rows and crawlers are interchangeable in Init and Next: sound for the
\* safety runs.
Symmetry == Permutations(Subs) \cup Permutations(Crawlers)
SymmetryOfCrawlers == Permutations(Crawlers)
=============================================================================
