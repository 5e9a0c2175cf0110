----------------------------- MODULE Membership -----------------------------
(***************************************************************************)
(* What the server's node table promises the nodes and the clients: a node *)
(* is a member from the call that registers it until it has been silent    *)
(* for longer than Patience or a call to it has failed; nobody silent for  *)
(* longer than Grace is one; work goes to members only; and a client is    *)
(* told that there is no node only when there is none.  It hides the order *)
(* of the table, the monitor with its check time and its lock, and how a   *)
(* node is picked; DcServer implements it (DcMembers).                     *)
(*                                                                         *)
(* What it does not promise: that a client is answered, that a call to a   *)
(* member succeeds, that a node whose call failed is silent.               *)
(***************************************************************************)
EXTENDS Integers

CONSTANTS Nodes, NoNode, Tasks, Patience, Grace

VARIABLES
  now,      \* the time
  members,  \* the members, each with the time it was last heard of
  request   \* the node each request calls, whether that failed, its answer

vars == <<now, members, request>>

At(n, failed, code) == [node |-> n, failed |-> failed, reply |-> code]
Unanswered == At(NoNode, FALSE, "none")
Answered(code) == At(NoNode, FALSE, code)
Becomes(t, r) == request' = [request EXCEPT ![t] = r]
\* The client gets its answer, or none.
Ends(t, code) == Becomes(t, Answered(code)) \/ Becomes(t, Unanswered)

Others(n) == {e \in members : e.node # n}

Init ==
  /\ now = 0 /\ members = {}
  /\ request = [t \in Tasks |-> Unanswered]

\* A node registers, or a member beats.
Hear(n) ==
  /\ members' = Others(n) \cup {[node |-> n, lHeartBeatTime |-> now]}
  /\ UNCHANGED <<now, request>>

\* Members that have been silent for too long leave.
Forget ==
  /\ members' \subseteq members
  /\ \A e \in members \ members' : now - e.lHeartBeatTime > Patience
  /\ UNCHANGED <<now, request>>

\* A request comes in the place of one that has ended.
Begin(t) ==
  /\ request[t].node = NoNode
  /\ Becomes(t, Unanswered)
  /\ UNCHANGED <<now, members>>

\* It is refused for what it asks.
Reject(t) ==
  /\ request[t] = Unanswered
  /\ Ends(t, "DC_URL_ERR") \/ Ends(t, "DC_BODY_ERR")
  /\ UNCHANGED <<now, members>>

NobodyThere(t) ==
  /\ request[t] = Unanswered /\ members = {}
  /\ Ends(t, "DC_NO_NODE")
  /\ UNCHANGED <<now, members>>

\* A member is called.
Call(t) ==
  /\ request[t] = Unanswered
  /\ \E e \in members : Becomes(t, At(e.node, FALSE, "none"))
  /\ UNCHANGED <<now, members>>

Succeed(t) ==
  /\ request[t].node # NoNode /\ ~request[t].failed
  /\ Ends(t, "DC_NO_ERR")
  /\ UNCHANGED <<now, members>>

Fail(t) ==
  /\ request[t].node # NoNode /\ ~request[t].failed
  /\ Becomes(t, At(request[t].node, TRUE, "none"))
  /\ UNCHANGED <<now, members>>

\* The node that failed, and no other, is a member no longer.
Blame(t) ==
  /\ request[t].failed
  /\ members' = Others(request[t].node)
  /\ Ends(t, "DC_NODE_ERR")
  /\ UNCHANGED now

\* Time passes only as far as every member's grace.
Tick ==
  /\ \A e \in members : now - e.lHeartBeatTime < Grace
  /\ now' = now + 1
  /\ UNCHANGED <<members, request>>

Next ==
  \/ \E n \in Nodes : Hear(n)
  \/ Forget \/ Tick
  \/ \E t \in Tasks :
       \/ Begin(t) \/ Reject(t) \/ NobodyThere(t) \/ Call(t)
       \/ Succeed(t) \/ Fail(t) \/ Blame(t)

Spec == Init /\ [][Next]_vars
=============================================================================
