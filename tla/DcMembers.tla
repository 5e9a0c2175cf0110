----------------------------- MODULE DcMembers -----------------------------
(***************************************************************************)
(* The DcServer process as an implementation of Membership: m_node_vec is  *)
(* a way to keep a set of members, and a request shows which node it calls,*)
(* whether that failed, and its answer.                                    *)
(***************************************************************************)
EXTENDS DcServer

Members == {m_node_vec[i] : i \in DOMAIN m_node_vec}

Shown(ts) == [node |-> ts.node, failed |-> ts.pc = "erase", reply |-> ts.reply]

MS == INSTANCE Membership WITH
        members <- Members,
        request <- [t \in Tasks |-> Shown(task[t])],
        Patience <- HB_TIMEOUT,
        Grace <- HB_TIMEOUT + SWEEP_WAIT + 2 * MaxLag

\* Every step of the server is one that Membership allows, or hidden: whichever
\* way registrations, heartbeats, late sweeps, picks and erasures by address
\* interleave, the vector is a set of members with one entry a node, only silent
\* nodes are swept and in time, and only the node whose call failed is erased.
ImplementsMembership == MS!Spec
=============================================================================
