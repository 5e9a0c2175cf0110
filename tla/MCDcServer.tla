----------------------------- MODULE MCDcServer -----------------------------
(* An instance of the DcServer process with its picks for TLC. *)
EXTENDS DcPicks, TLC

Symmetry == Permutations(Nodes) \cup Permutations(Tasks)
=============================================================================
