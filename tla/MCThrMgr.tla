------------------------------ MODULE MCThrMgr ------------------------------
(* Small instances of the thread pool for TLC. *)
EXTENDS ThrMgr, TLC

\* Workers, jobs and dispatchers are interchangeable in every definition that
\* the invariants use.
Symmetry ==
  Permutations(Workers) \cup Permutations(Jobs) \cup Permutations(Dispatchers)
=============================================================================
