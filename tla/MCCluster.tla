----------------------------- MODULE MCCluster ------------------------------
(* Instances of the composed cluster for TLC. *)
EXTENDS Cluster, TLC

Symmetry == Permutations(Nodes)

\* When a wait ends, as long as somebody is in it.
Pending(waits, end) == IF waits /\ now < end THEN end ELSE 0

\* States that agree on this have the same future and the same invariants: no
\* guard reads `missed', which records history for LeavesForCause, and the end
\* of a wait that is over or that nobody is in is not read again.
Matters ==
  <<now, m_node_vec, pickNum, mpc, lCheckTime, Pending(mpc = "wait", wakeAt),
    task, npc, m_bregister_ok, [n \in Nodes |-> Pending(npc[n] = "wait", nwake[n])],
    serving, srvUp, call, stray, work, runs, faults>>
=============================================================================
