------------------------------ MODULE DcServer ------------------------------
(***************************************************************************)
(* The DcServer process: the table of collection nodes with the calls that *)
(* maintain it (RegisterWork, HeartBeatWork), the monitor thread that      *)
(* drops silent nodes (StartService) and the HTTP requests that pick a     *)
(* node and forward work to it (HttpCallback, WorkService,                 *)
(* CollectWorkProc).  Source: src/DcServer/src/DcServer.cpp, HttpServer.cpp.*)
(*                                                                         *)
(* Every section under m_Manmutex is one step: it touches only m_node_vec  *)
(* and pickNum, which are accessed nowhere else.  What lies between two    *)
(* sections (the check time the monitor reads before it locks, the RPC a   *)
(* request makes after it unlocked) is where other threads interleave.     *)
(***************************************************************************)
EXTENDS Integers, FiniteSets, Sequences, Vector

CONSTANTS
  Nodes,        \* collection nodes, an (ip, port) pair each
  NoNode,       \* the node of a request that has picked none
  Tasks,        \* http_task_t slots: requests that can be in service at once
  HB_TIMEOUT,   \* 60*1000 ms: silence after which the monitor drops a node
  SWEEP_WAIT,   \* 45*1000 ms: the monitor's wait between two sweeps
  MaxLag,       \* longest delay between reading lCheckTime and locking
  MaxTime       \* bound of the clock

ASSUME ServerAssumption ==
  /\ NoNode \notin Nodes
  /\ HB_TIMEOUT \in Nat /\ SWEEP_WAIT \in Nat \ {0} /\ MaxLag \in Nat
  /\ MaxTime \in Nat

VARIABLES
  now,          \* DCGetTickCount()
  m_node_vec,   \* sequence of dcnode_t
  pickNum,      \* static int of CollectWorkProc
  mpc,          \* monitor thread: "wait" in sem_wait, "sweep" before the lock
  lCheckTime,   \* its check time
  wakeAt,       \* when its wait ends
  task          \* the state of each request's http_task_t

tableVars == <<m_node_vec, pickNum>>
monitorVars == <<mpc, lCheckTime, wakeAt>>
serverVars == <<tableVars, monitorVars, task>>
vars == <<now, serverVars>>

dcnode_t == [node : Nodes, lHeartBeatTime : Nat]

\* What tells requests apart: not a POST, another URL, a body that cannot be
\* read in full or is not JSON, or a body with an index code.
Requests == {"notPost", "otherUrl", "badBody", "work"}

DC_HTTP_REPLY == {"DC_NO_ERR", "DC_URL_ERR", "DC_BODY_ERR", "DC_NO_NODE",
                  "DC_NODE_ERR"}

\* "idle": answered with `reply'; "queued": handed to the thread pool; "pick":
\* body parsed; "rpc": in ClusterWorkProc; "erase": the RPC failed; "dropped":
\* never to be answered.
TaskPc == {"idle", "queued", "pick", "rpc", "erase", "dropped"}

\* A request's program point, what it asks (until that is known to be work),
\* the copy of the node it picked, and the code it was answered with.
TaskState == [pc : TaskPc, req : Requests \cup {"none"},
              node : Nodes \cup {NoNode}, reply : DC_HTTP_REPLY \cup {"none"}]

At(pc, r, n, code) == [pc |-> pc, req |-> r, node |-> n, reply |-> code]
Idle(code) == At("idle", "none", NoNode, code)
Dropped == At("dropped", "none", NoNode, "none")
Queued(r) == At("queued", r, NoNode, "none")
Parsed == At("pick", "none", NoNode, "none")
Calling(n) == At("rpc", "none", n, "none")
Blaming(n) == At("erase", "none", n, "none")
Becomes(t, ts) == task' = [task EXCEPT ![t] = ts]

Registered == {m_node_vec[i].node : i \in DOMAIN m_node_vec}

\* Indexes of the entries of node n, and the first of them.
IndexesOf(n) == {i \in DOMAIN m_node_vec : m_node_vec[i].node = n}
IsFirst(i, n) == i \in IndexesOf(n) /\ \A j \in IndexesOf(n) : i <= j

InitServer ==
  /\ m_node_vec = <<>> /\ pickNum = 0
  /\ mpc = "wait" /\ lCheckTime = 0 /\ wakeAt = now
  /\ task = [t \in Tasks |-> Idle("none")]

Init == now = 0 /\ InitServer

-----------------------------------------------------------------------------
(* The node table: Thrift handlers *)

\* The first entry of n gets the current tick count.
Refresh(n) ==
  \E i \in DOMAIN m_node_vec :
    /\ IsFirst(i, n)
    /\ m_node_vec' = [m_node_vec EXCEPT ![i].lHeartBeatTime = now]

\* m_node_vec.push_back(node)
PushBack(n) == m_node_vec' = Append(m_node_vec, [node |-> n, lHeartBeatTime |-> now])

\* (Mutant: registers without looking for the node.)
RegisterAlwaysNew(n) == PushBack(n) /\ UNCHANGED <<now, pickNum, monitorVars, task>>

\* registClient: refresh a known node, append an unknown one; always SUCCESS.
RegisterWork(n) ==
  /\ Refresh(n) \/ (n \notin Registered /\ PushBack(n))
  /\ UNCHANGED <<now, pickNum, monitorVars, task>>

\* (Mutant: a heartbeat that only looks.)
HeartBeatNoRefresh(n, bret) ==
  /\ bret = (n \in Registered)
  /\ UNCHANGED <<now, m_node_vec, pickNum, monitorVars, task>>

\* heartbeat: refresh a known node and return true, else return false.
HeartBeatWork(n, bret) ==
  /\ \/ bret = TRUE /\ Refresh(n)
     \/ bret = FALSE /\ n \notin Registered /\ UNCHANGED m_node_vec
  /\ UNCHANGED <<now, pickNum, monitorVars, task>>

-----------------------------------------------------------------------------
(* StartService: the monitor thread *)

\* The wait is over; lCheckTime is read before the lock is taken.
MonitorCheckTime ==
  /\ mpc = "wait" /\ now >= wakeAt
  /\ lCheckTime' = now
  /\ mpc' = "sweep"
  /\ UNCHANGED <<now, tableVars, wakeAt, task>>

\* lCheckTime - lHeartBeatTime > 60*1000, in signed arithmetic.  (Mutant: in
\* unsigned arithmetic, where a time after the check time is far in the past.)
SilentUnsigned(i) == (lCheckTime - m_node_vec[i].lHeartBeatTime) % 2^16 > HB_TIMEOUT
Silent(i) == lCheckTime - m_node_vec[i].lHeartBeatTime > HB_TIMEOUT

\* The entries the loop keeps.  (Mutant: the iterator moves on after an erase
\* too, so the entry behind an erased one is not looked at.)
SweepSkipsNext ==
  {i \in DOMAIN m_node_vec : ~Silent(i) \/ (i > 1 /\ Silent(i - 1))}
SweepKeeps == {i \in DOMAIN m_node_vec : ~Silent(i)}

\* Under the lock: erase every silent node; then wait again (lCheckTime, local
\* to the block, ends).
MonitorSweep ==
  /\ mpc = "sweep"
  /\ m_node_vec' \in Keep(m_node_vec, SweepKeeps)
  /\ mpc' = "wait" /\ lCheckTime' = 0
  /\ wakeAt' = now + SWEEP_WAIT
  /\ UNCHANGED <<now, pickNum, task>>

-----------------------------------------------------------------------------
(* HTTP requests *)

\* HttpCallback: a new task for the pool, or none if the pool refuses it: then
\* the request is never answered.
HttpCallback(t, r) ==
  /\ task[t].pc \in {"idle", "dropped"}
  /\ Becomes(t, Queued(r)) \/ Becomes(t, Dropped)
  /\ UNCHANGED <<now, tableVars, monitorVars>>

\* SendReply; without memory for the evbuffer it returns without a reply.
SendReply(t, code) == Becomes(t, Idle(code)) \/ Becomes(t, Dropped)

\* WorkService and the part of CollectWorkProc before the lock.
WorkService(t) ==
  /\ task[t].pc = "queued"
  /\ \/ task[t].req \in {"notPost", "otherUrl"} /\ SendReply(t, "DC_URL_ERR")
     \/ task[t].req = "badBody" /\ SendReply(t, "DC_BODY_ERR")
     \/ task[t].req = "work" /\ Becomes(t, Parsed)
  /\ UNCHANGED <<now, tableVars, monitorVars>>

\* pickNum++ after the pick at k.  (Mutants: no increment; a decrement.)
PickStays(k) == k
PickBackwards(k) == k - 1
NextPick(k) == k + 1

\* Under the lock: copy the node at pickNum modulo the table's size.
CollectPick(t) ==
  /\ task[t].pc = "pick" /\ m_node_vec # <<>>
  /\ LET k == pickNum % Len(m_node_vec)
     IN  /\ Becomes(t, Calling(m_node_vec[k + 1].node))
         /\ pickNum' = NextPick(k)
  /\ UNCHANGED <<now, m_node_vec, monitorVars>>

\* Under the lock: the table is empty.
CollectNoNode(t) ==
  /\ task[t].pc = "pick" /\ m_node_vec = <<>>
  /\ SendReply(t, "DC_NO_NODE")
  /\ UNCHANGED <<now, tableVars, monitorVars>>

\* (Mutant: bsuccess keeps its initial true when the RPC throws.)
ReturnAlwaysTrue(t, bsuccess) ==
  /\ task[t].pc = "rpc" /\ SendReply(t, "DC_NO_ERR")
  /\ UNCHANGED <<now, tableVars, monitorVars>>

\* ClusterWorkProc returns bsuccess.
CollectReturn(t, bsuccess) ==
  /\ task[t].pc = "rpc"
  /\ \/ bsuccess = TRUE /\ SendReply(t, "DC_NO_ERR")
     \/ bsuccess = FALSE /\ Becomes(t, Blaming(task[t].node))
  /\ UNCHANGED <<now, tableVars, monitorVars>>

\* The entries kept when t blames its node: all but the first one with its
\* address.  (Mutant: the entry is found by its old position instead.)
EraseKeepsByIndex(t) == {i \in DOMAIN m_node_vec : i # pickNum}
EraseKeeps(t) == {i \in DOMAIN m_node_vec : ~IsFirst(i, task[t].node)}

\* Under the lock again: erase the node that failed, if it is there.
CollectErase(t) ==
  /\ task[t].pc = "erase"
  /\ m_node_vec' \in Keep(m_node_vec, EraseKeeps(t))
  /\ SendReply(t, "DC_NODE_ERR")
  /\ UNCHANGED <<now, pickNum, monitorVars>>

-----------------------------------------------------------------------------
\* Time passes.  A wait that is over ends before the next tick, and the
\* monitor gets its lock within MaxLag ticks of reading the check time.
OnTime ==
  /\ mpc = "wait" => now < wakeAt
  /\ mpc = "sweep" => now < lCheckTime + MaxLag

Tick ==
  /\ OnTime /\ now < MaxTime
  /\ now' = now + 1
  /\ UNCHANGED serverVars

\* The server among callers that register and beat at any time and nodes whose
\* RPCs end either way.
Next ==
  \/ \E n \in Nodes : RegisterWork(n) \/ \E b \in BOOLEAN : HeartBeatWork(n, b)
  \/ MonitorCheckTime \/ MonitorSweep
  \/ \E t \in Tasks :
       \/ \E r \in Requests : HttpCallback(t, r)
       \/ WorkService(t) \/ CollectPick(t) \/ CollectNoNode(t)
       \/ \E b \in BOOLEAN : CollectReturn(t, b)
       \/ CollectErase(t)
  \/ Tick

Spec == Init /\ [][Next]_vars

-----------------------------------------------------------------------------
(* Properties *)

\* Type invariant of the server's state.
TypeOK ==
  /\ now \in Nat
  /\ m_node_vec \in Seq(dcnode_t) /\ pickNum \in Nat
  /\ mpc \in {"wait", "sweep"} /\ lCheckTime \in Nat /\ wakeAt \in Nat
  /\ task \in [Tasks -> TaskState]

\* A node has at most one entry in m_node_vec, however registrations, sweeps
\* and erasures interleave: RegisterWork looks for it before push_back.
NoDuplicateNode ==
  \A i, j \in DOMAIN m_node_vec :
    m_node_vec[i].node = m_node_vec[j].node => i = j

\* A node that fell silent is gone after HB_TIMEOUT plus one sweep period, the
\* delay of the monitor's lock counted once for each of two sweeps.
SilentNodeGone ==
  \A i \in DOMAIN m_node_vec :
    now - m_node_vec[i].lHeartBeatTime <= HB_TIMEOUT + SWEEP_WAIT + 2 * MaxLag

\* The sweep never drops a node heard of within HB_TIMEOUT, although it uses a
\* check time read before the lock and nodes may beat in between.
SweepSparesHeard ==
  [][MonitorSweep =>
       \A i \in DOMAIN m_node_vec :
         now - m_node_vec[i].lHeartBeatTime <= HB_TIMEOUT =>
           m_node_vec[i].node \in Registered']_vars

\* Only a sweep that found it silent or a request whose RPC to it failed takes
\* a node out of the table; another request's failure never does.
OnlyBlamedNodeLeaves ==
  [][\A n \in Registered \ Registered' :
       \/ mpc = "sweep" /\ mpc' = "wait"
       \/ \E t \in Tasks : task[t] = Blaming(n) /\ task'[t] # task[t]]_vars
=============================================================================
