--------------------------- MODULE DcServerProofs ---------------------------
(***************************************************************************)
(* Proofs about the DcServer process, for any nodes, requests and times.   *)
(***************************************************************************)
EXTENDS DcPicks, DcMembers, DataProofs

-----------------------------------------------------------------------------
(* The inductive invariant *)

\* How late the monitor can be with any entry: no entry is older, at the time
\* of the next sweep, than the limit, one period and one late lock allow.
Timely ==
  /\ mpc = "wait" =>
       /\ now <= wakeAt /\ wakeAt <= now + SWEEP_WAIT
       /\ \A i \in DOMAIN m_node_vec :
            wakeAt - m_node_vec[i].lHeartBeatTime <= HB_TIMEOUT + SWEEP_WAIT + MaxLag
  /\ mpc = "sweep" =>
       /\ lCheckTime <= now /\ now <= lCheckTime + MaxLag
       /\ \A i \in DOMAIN m_node_vec :
            lCheckTime - m_node_vec[i].lHeartBeatTime <= HB_TIMEOUT + SWEEP_WAIT + MaxLag

\* A request's state: it has a node exactly while it calls it and until it has
\* erased it, and an answer only when it has ended.
GoodTask(ts) ==
  /\ ts \in TaskState
  /\ ts.pc \in {"rpc", "erase"} => ts.node \in Nodes
  /\ ts.pc \notin {"rpc", "erase"} => ts.node = NoNode
  /\ ts.pc # "idle" => ts.reply = "none"
  /\ ts.pc = "erase" => ts = Blaming(ts.node)

GoodTasks == \A t \in Tasks : GoodTask(task[t])

IInv == TypeOK /\ NoDuplicateNode /\ Timely /\ GoodTasks

\* Every entry after a step was there before or was written just now.
OldOrFresh ==
  \A i \in DOMAIN m_node_vec' :
    \/ m_node_vec'[i].lHeartBeatTime = now
    \/ \E k \in DOMAIN m_node_vec : m_node_vec'[i] = m_node_vec[k]

\* What registrations and heartbeats do to the table.
Grown ==
  /\ m_node_vec' \in Seq(dcnode_t)
  /\ NoDuplicateNode'
  /\ OldOrFresh
  /\ Registered \subseteq Registered'

-----------------------------------------------------------------------------
(* Steps on the table *)

\* Refreshing a node changes no address and no other time.
LEMMA RefreshGrows ==
  ASSUME TypeOK, NoDuplicateNode, NEW n \in Nodes, Refresh(n)
  PROVE  Grown
<1>1. PICK i \in DOMAIN m_node_vec :
        m_node_vec' = [m_node_vec EXCEPT ![i].lHeartBeatTime = now]
  BY DEF Refresh
<1>2. /\ m_node_vec \in [1..Len(m_node_vec) -> dcnode_t]
      /\ DOMAIN m_node_vec = 1..Len(m_node_vec) /\ Len(m_node_vec) \in Nat
  BY SeqIsFunction DEF TypeOK
<1>3. m_node_vec' \in [1..Len(m_node_vec) -> dcnode_t]
  BY <1>1, <1>2 DEF TypeOK, dcnode_t
<1>4. m_node_vec' \in Seq(dcnode_t)
  BY <1>2, <1>3, FunctionIsSeq
<1>5. \A j \in DOMAIN m_node_vec :
        /\ m_node_vec'[j].node = m_node_vec[j].node
        /\ j # i => m_node_vec'[j] = m_node_vec[j]
        /\ j = i => m_node_vec'[j].lHeartBeatTime = now
  BY <1>1, <1>2 DEF dcnode_t
<1>6. DOMAIN m_node_vec' = DOMAIN m_node_vec
  BY <1>2, <1>3
<1>7. NoDuplicateNode'
  BY <1>5, <1>6 DEF NoDuplicateNode
<1>8. OldOrFresh
  BY <1>5, <1>6 DEF OldOrFresh
<1>9. Registered \subseteq Registered'
  BY <1>5, <1>6 DEF Registered
<1> QED
  BY <1>4, <1>7, <1>8, <1>9 DEF Grown

\* Appending a node that is not there keeps the addresses distinct.
LEMMA PushBackGrows ==
  ASSUME TypeOK, NoDuplicateNode, NEW n \in Nodes, n \notin Registered, PushBack(n)
  PROVE  Grown
<1> DEFINE e == [node |-> n, lHeartBeatTime |-> now]
           L == Len(m_node_vec)
<1>1. e \in dcnode_t
  BY DEF TypeOK, dcnode_t
<1>2. m_node_vec \in Seq(dcnode_t) /\ L \in Nat /\ DOMAIN m_node_vec = 1..L
  BY SeqIsFunction DEF TypeOK
<1>3. m_node_vec' = Append(m_node_vec, e)
  BY DEF PushBack
<1>4. /\ m_node_vec' \in Seq(dcnode_t)
      /\ DOMAIN m_node_vec' = 1..(L + 1)
      /\ \A i \in 1..L : m_node_vec'[i] = m_node_vec[i]
      /\ m_node_vec'[L + 1] = e
  BY <1>1, <1>2, <1>3, AppendAdds
<1>5. \A i \in DOMAIN m_node_vec' : i = L + 1 \/ i \in DOMAIN m_node_vec
  BY <1>2, <1>4
<1>6. \A i \in DOMAIN m_node_vec : m_node_vec[i].node # n
  BY DEF Registered
<1>7. NoDuplicateNode'
  BY <1>2, <1>4, <1>5, <1>6 DEF NoDuplicateNode
<1>8. OldOrFresh
  BY <1>2, <1>4, <1>5 DEF OldOrFresh
<1>9. Registered \subseteq Registered'
  BY <1>2, <1>4 DEF Registered
<1> QED
  BY <1>4, <1>7, <1>8, <1>9 DEF Grown

\* Erasing leaves a table without duplicates, made of old entries, in which
\* every kept node is still registered.
LEMMA EraseShrinks ==
  ASSUME TypeOK, NoDuplicateNode, NEW K \in SUBSET (DOMAIN m_node_vec),
         m_node_vec' \in Keep(m_node_vec, K)
  PROVE  /\ m_node_vec' \in Seq(dcnode_t)
         /\ NoDuplicateNode'
         /\ \A i \in DOMAIN m_node_vec' : \E k \in K : m_node_vec'[i] = m_node_vec[k]
         /\ \A k \in K : m_node_vec[k].node \in Registered'
<1>1. m_node_vec' \in Seq(dcnode_t) /\ Restricts(m_node_vec', m_node_vec, K)
  BY KeepProperties DEF TypeOK
<1>2. PICK f \in [DOMAIN m_node_vec' -> K] :
        /\ \A i \in DOMAIN m_node_vec' : m_node_vec'[i] = m_node_vec[f[i]]
        /\ \A i, j \in DOMAIN m_node_vec' : f[i] = f[j] => i = j
        /\ \A k \in K : \E i \in DOMAIN m_node_vec' : f[i] = k
  BY <1>1 DEF Restricts
<1>3. NoDuplicateNode'
  BY <1>2 DEF NoDuplicateNode
<1>4. \A i \in DOMAIN m_node_vec' : \E k \in K : m_node_vec'[i] = m_node_vec[k]
  BY <1>2
<1>5. \A k \in K : m_node_vec[k].node \in Registered'
  BY <1>2 DEF Registered
<1> QED
  BY <1>1, <1>3, <1>4, <1>5

-----------------------------------------------------------------------------
(* Steps of requests and of time *)

\* Every state the request actions assign is such a state.
LEMMA TaskStates ==
  /\ \A r \in Requests : GoodTask(Queued(r))
  /\ \A c \in DC_HTTP_REPLY : GoodTask(Idle(c))
  /\ \A n \in Nodes : GoodTask(Calling(n)) /\ GoodTask(Blaming(n))
  /\ GoodTask(Dropped) /\ GoodTask(Parsed)
BY DEF GoodTask, TaskState, TaskPc, At, Queued, Idle, Calling, Blaming, Dropped, Parsed

\* Moving one request keeps the type and the blames of all.
LEMMA TaskMoves ==
  ASSUME TypeOK, GoodTasks, NEW t \in Tasks, NEW ts, GoodTask(ts), Becomes(t, ts)
  PROVE  task' \in [Tasks -> TaskState] /\ GoodTasks'
<1>1. \A u \in Tasks : task'[u] = IF u = t THEN ts ELSE task[u]
  BY DEF TypeOK, Becomes
<1>2. GoodTasks'
  BY <1>1 DEF GoodTasks
<1>3. task' \in [Tasks -> TaskState]
  BY DEF TypeOK, GoodTask, Becomes
<1> QED
  BY <1>2, <1>3

\* The times in a table are natural numbers.
LEMMA EntryTimes ==
  ASSUME NEW s \in Seq(dcnode_t)
  PROVE  \A i \in DOMAIN s : s[i].lHeartBeatTime \in Nat
<1>1. s \in [1..Len(s) -> dcnode_t]
  BY SeqIsFunction
<1> QED
  BY <1>1 DEF dcnode_t

\* Steps that only grow the table leave the monitor in time.
LEMMA TimelyKept ==
  ASSUME TypeOK, Timely, m_node_vec' \in Seq(dcnode_t), OldOrFresh,
         UNCHANGED <<now, monitorVars>>
  PROVE  Timely'
<1> USE ServerAssumption DEF TypeOK
<1>1. \A i \in DOMAIN m_node_vec : m_node_vec[i].lHeartBeatTime \in Nat
  BY EntryTimes
<1>2. \A i \in DOMAIN m_node_vec' : m_node_vec'[i].lHeartBeatTime \in Nat
  BY EntryTimes
<1>3. UNCHANGED <<now, mpc, lCheckTime, wakeAt>>
  BY DEF monitorVars
<1>4. CASE mpc = "wait"
  <2>1. \A i \in DOMAIN m_node_vec' :
          wakeAt - m_node_vec'[i].lHeartBeatTime <= HB_TIMEOUT + SWEEP_WAIT + MaxLag
    <3> SUFFICES ASSUME NEW i \in DOMAIN m_node_vec'
                 PROVE  wakeAt - m_node_vec'[i].lHeartBeatTime
                          <= HB_TIMEOUT + SWEEP_WAIT + MaxLag
      OBVIOUS
    <3>1. CASE m_node_vec'[i].lHeartBeatTime = now
      BY <1>4, <3>1 DEF Timely
    <3>2. CASE \E k \in DOMAIN m_node_vec : m_node_vec'[i] = m_node_vec[k]
      BY <1>1, <1>4, <3>2 DEF Timely
    <3> QED
      BY <3>1, <3>2 DEF OldOrFresh
  <2> QED
    BY <1>3, <1>4, <2>1 DEF Timely
<1>5. CASE mpc = "sweep"
  <2>1. \A i \in DOMAIN m_node_vec' :
          lCheckTime - m_node_vec'[i].lHeartBeatTime <= HB_TIMEOUT + SWEEP_WAIT + MaxLag
    <3> SUFFICES ASSUME NEW i \in DOMAIN m_node_vec'
                 PROVE  lCheckTime - m_node_vec'[i].lHeartBeatTime
                          <= HB_TIMEOUT + SWEEP_WAIT + MaxLag
      OBVIOUS
    <3>1. CASE m_node_vec'[i].lHeartBeatTime = now
      BY <1>5, <3>1 DEF Timely
    <3>2. CASE \E k \in DOMAIN m_node_vec : m_node_vec'[i] = m_node_vec[k]
      BY <1>1, <1>5, <3>2 DEF Timely
    <3> QED
      BY <3>1, <3>2 DEF OldOrFresh
  <2> QED
    BY <1>3, <1>5, <2>1 DEF Timely
<1> QED
  BY <1>4, <1>5

-----------------------------------------------------------------------------
(* Each action preserves the invariant *)

\* The started server, with an empty table, satisfies the invariant.
LEMMA InitInv == Init => IInv
<1> SUFFICES ASSUME Init PROVE IInv
  OBVIOUS
<1> USE ServerAssumption DEF Init, InitServer
<1>1. TypeOK
  BY DEF TypeOK, TaskState, TaskPc, Idle, At
<1>2. GoodTasks
  BY DEF GoodTasks, GoodTask, TaskState, TaskPc, Idle, At
<1> QED
  BY <1>1, <1>2 DEF IInv, NoDuplicateNode, Timely

\* RegisterWork and HeartBeatWork.
LEMMA TableInv ==
  ASSUME IInv, NEW n \in Nodes,
         RegisterWork(n) \/ \E b \in BOOLEAN : HeartBeatWork(n, b)
  PROVE  IInv' /\ Registered \subseteq Registered'
<1> USE DEF IInv
<1>1. UNCHANGED <<now, pickNum, monitorVars, task>>
  BY DEF RegisterWork, HeartBeatWork
<1>2. Grown
  <2>1. CASE Refresh(n)
    BY <2>1, RefreshGrows
  <2>2. CASE n \notin Registered /\ PushBack(n)
    BY <2>2, PushBackGrows
  <2>3. CASE UNCHANGED m_node_vec
    BY <2>3 DEF Grown, OldOrFresh, TypeOK, NoDuplicateNode, Registered
  <2> QED
    BY <2>1, <2>2, <2>3 DEF RegisterWork, HeartBeatWork
<1>3. TypeOK'
  BY <1>1, <1>2 DEF TypeOK, Grown, monitorVars
<1>4. Timely'
  BY <1>1, <1>2, TimelyKept DEF Grown
<1>5. GoodTasks'
  BY <1>1 DEF GoodTasks
<1> QED
  BY <1>2, <1>3, <1>4, <1>5 DEF Grown

\* The request steps that leave the table alone.
LEMMA RequestInv ==
  ASSUME IInv, NEW t \in Tasks, NEW ts, GoodTask(ts), Becomes(t, ts),
         UNCHANGED <<now, m_node_vec, monitorVars>>, pickNum' \in Nat
  PROVE  IInv'
<1> USE DEF IInv
<1>1. task' \in [Tasks -> TaskState] /\ GoodTasks'
  BY TaskMoves
<1>2. TypeOK'
  BY <1>1 DEF TypeOK, monitorVars
<1>3. NoDuplicateNode'
  BY DEF NoDuplicateNode
<1>4. Timely'
  BY DEF Timely, monitorVars
<1> QED
  BY <1>1, <1>2, <1>3, <1>4

\* The request steps and what they assign.
LEMMA RequestStep ==
  ASSUME IInv, NEW t \in Tasks,
         \/ \E r \in Requests : HttpCallback(t, r)
         \/ WorkService(t) \/ CollectPick(t) \/ CollectNoNode(t)
         \/ \E b \in BOOLEAN : CollectReturn(t, b)
  PROVE  IInv' /\ UNCHANGED m_node_vec
<1> USE DEF IInv
<1>1. UNCHANGED <<now, m_node_vec, monitorVars>>
  BY DEF HttpCallback, WorkService, CollectPick, CollectNoNode, CollectReturn, tableVars
<1>2. pickNum' \in Nat
  <2>1. CASE CollectPick(t)
    <3>1. Len(m_node_vec) \in Nat \ {0}
      BY <2>1, NotEmpty DEF TypeOK, CollectPick
    <3> QED
      BY <2>1, <3>1 DEF TypeOK, CollectPick, NextPick
  <2> QED
    BY <2>1 DEF TypeOK, HttpCallback, WorkService, CollectNoNode, CollectReturn, tableVars
<1>3. \E ts : GoodTask(ts) /\ Becomes(t, ts)
  <2> USE TaskStates
  <2>1. ASSUME NEW code \in DC_HTTP_REPLY, SendReply(t, code)
        PROVE  \E ts : GoodTask(ts) /\ Becomes(t, ts)
    BY <2>1 DEF SendReply
  <2>2. CASE \E r \in Requests : HttpCallback(t, r)
    BY <2>2 DEF HttpCallback
  <2>3. CASE WorkService(t)
    BY <2>1, <2>3 DEF WorkService, DC_HTTP_REPLY
  <2>4. CASE CollectPick(t)
    <3> DEFINE k == pickNum % Len(m_node_vec)
    <3>1. Len(m_node_vec) \in Nat \ {0} /\ m_node_vec \in [1..Len(m_node_vec) -> dcnode_t]
      BY <2>4, NotEmpty, SeqIsFunction DEF TypeOK, CollectPick
    <3>2. k + 1 \in 1..Len(m_node_vec)
      BY <3>1 DEF TypeOK
    <3>3. m_node_vec[k + 1].node \in Nodes
      BY <3>1, <3>2 DEF dcnode_t
    <3> QED
      BY <2>4, <3>3 DEF CollectPick
  <2>5. CASE CollectNoNode(t)
    BY <2>1, <2>5 DEF CollectNoNode, DC_HTTP_REPLY
  <2>6. CASE \E b \in BOOLEAN : CollectReturn(t, b)
    <3>1. task[t].node \in Nodes
      BY <2>6 DEF GoodTasks, GoodTask, CollectReturn
    <3> QED
      BY <2>1, <2>6, <3>1 DEF CollectReturn, DC_HTTP_REPLY
  <2> QED
    BY <2>2, <2>3, <2>4, <2>5, <2>6
<1> QED
  BY <1>1, <1>2, <1>3, RequestInv

\* The erasure after a failed RPC.
LEMMA EraseInv ==
  ASSUME IInv, NEW t \in Tasks, CollectErase(t)
  PROVE  /\ IInv'
         /\ \A n \in Registered \ Registered' :
              task[t] = Blaming(n) /\ task'[t] # task[t]
<1> USE DEF IInv
<1> DEFINE K == EraseKeeps(t)
<1>1. /\ K \in SUBSET (DOMAIN m_node_vec)
      /\ m_node_vec' \in Keep(m_node_vec, K)
      /\ UNCHANGED <<now, pickNum, monitorVars>>
  BY DEF CollectErase, EraseKeeps
<1>2. /\ m_node_vec' \in Seq(dcnode_t) /\ NoDuplicateNode'
      /\ \A i \in DOMAIN m_node_vec' : \E k \in K : m_node_vec'[i] = m_node_vec[k]
      /\ \A k \in K : m_node_vec[k].node \in Registered'
  BY <1>1, EraseShrinks
<1>3. OldOrFresh
  BY <1>1, <1>2 DEF OldOrFresh
<1>4. Timely'
  BY <1>1, <1>2, <1>3, TimelyKept
<1>5. \E ts : GoodTask(ts) /\ Becomes(t, ts) /\ ts.pc # "erase"
  BY TaskStates DEF CollectErase, SendReply, DC_HTTP_REPLY, Idle, Dropped, At
<1>6. task' \in [Tasks -> TaskState] /\ GoodTasks'
  BY <1>5, TaskMoves
<1>7. TypeOK'
  BY <1>1, <1>2, <1>6 DEF TypeOK, monitorVars
<1>8. task'[t] # task[t]
  BY <1>5 DEF CollectErase, Becomes, TypeOK
<1>9. \A n \in Registered \ Registered' : n = task[t].node
  BY <1>2 DEF Registered, EraseKeeps, IsFirst, IndexesOf
<1>10. task[t] = Blaming(task[t].node)
  BY DEF GoodTasks, GoodTask, CollectErase
<1> QED
  BY <1>2, <1>4, <1>6, <1>7, <1>8, <1>9, <1>10

\* The two steps of the monitor.
LEMMA MonitorInv ==
  ASSUME IInv, MonitorCheckTime \/ MonitorSweep
  PROVE  IInv'
<1> USE ServerAssumption DEF IInv
<1>1. CASE MonitorCheckTime
  <2>1. TypeOK' /\ NoDuplicateNode' /\ GoodTasks'
    BY <1>1 DEF MonitorCheckTime, TypeOK, NoDuplicateNode, GoodTasks, tableVars
  <2>2. Timely'
    BY <1>1 DEF MonitorCheckTime, TypeOK, Timely, tableVars
  <2> QED
    BY <2>1, <2>2
<1>2. CASE MonitorSweep
  <2>1. /\ m_node_vec' \in Seq(dcnode_t) /\ NoDuplicateNode'
        /\ \A i \in DOMAIN m_node_vec' :
             \E k \in SweepKeeps : m_node_vec'[i] = m_node_vec[k]
    BY <1>2, EraseShrinks DEF MonitorSweep, SweepKeeps
  <2>2. TypeOK' /\ GoodTasks'
    BY <1>2, <2>1 DEF MonitorSweep, TypeOK, GoodTasks
  <2>3. \A k \in SweepKeeps :
          /\ k \in DOMAIN m_node_vec /\ m_node_vec[k].lHeartBeatTime \in Nat
          /\ lCheckTime - m_node_vec[k].lHeartBeatTime <= HB_TIMEOUT
    BY EntryTimes DEF SweepKeeps, Silent, TypeOK
  <2>4. now <= lCheckTime + MaxLag
    BY <1>2 DEF MonitorSweep, Timely
  <2>5. \A i \in DOMAIN m_node_vec' :
          now - m_node_vec'[i].lHeartBeatTime <= HB_TIMEOUT + MaxLag
    <3>1. ASSUME NEW i \in DOMAIN m_node_vec'
          PROVE  now - m_node_vec'[i].lHeartBeatTime <= HB_TIMEOUT + MaxLag
      <4>1. PICK k \in SweepKeeps : m_node_vec'[i] = m_node_vec[k]
        BY <2>1, <3>1
      <4>2. /\ m_node_vec'[i].lHeartBeatTime \in Nat
            /\ lCheckTime - m_node_vec'[i].lHeartBeatTime <= HB_TIMEOUT
        BY ONLY <2>3, <4>1
      <4>3. {now, lCheckTime, MaxLag, HB_TIMEOUT} \subseteq Nat
        BY ServerAssumption DEF TypeOK
      <4> QED
        BY ONLY <2>4, <4>2, <4>3
    <3> QED
      BY <3>1
  <2>6. \A i \in DOMAIN m_node_vec' : m_node_vec'[i].lHeartBeatTime \in Nat
    BY <2>1, EntryTimes
  <2>7. Timely'
    BY <1>2, <2>5, <2>6 DEF MonitorSweep, Timely, TypeOK
  <2> QED
    BY <2>1, <2>2, <2>7
<1> QED
  BY <1>1, <1>2

\* Time passes only while the monitor is in time.
LEMMA TickInv ==
  ASSUME IInv, Tick
  PROVE  IInv'
<1> USE ServerAssumption DEF IInv, Tick, serverVars, tableVars, monitorVars
<1>1. TypeOK' /\ NoDuplicateNode' /\ GoodTasks'
  BY DEF TypeOK, NoDuplicateNode, GoodTasks
<1>2. Timely'
  BY DEF Timely, OnTime, TypeOK
<1> QED
  BY <1>1, <1>2

\* Every step of a handler, the monitor, a request or the clock preserves it.
LEMMA NextInv == IInv /\ [Next]_vars => IInv'
<1> SUFFICES ASSUME IInv, [Next]_vars PROVE IInv'
  OBVIOUS
<1>1. ASSUME NEW n \in Nodes,
             RegisterWork(n) \/ \E b \in BOOLEAN : HeartBeatWork(n, b)
      PROVE  IInv'
  BY <1>1, TableInv
<1>2. CASE MonitorCheckTime \/ MonitorSweep
  BY <1>2, MonitorInv
<1>3. ASSUME NEW t \in Tasks,
             \/ \E r \in Requests : HttpCallback(t, r)
             \/ WorkService(t) \/ CollectPick(t) \/ CollectNoNode(t)
             \/ \E b \in BOOLEAN : CollectReturn(t, b)
      PROVE  IInv'
  BY <1>3, RequestStep
<1>4. ASSUME NEW t \in Tasks, CollectErase(t)
      PROVE  IInv'
  BY <1>4, EraseInv
<1>5. CASE Tick
  BY <1>5, TickInv
<1>6. CASE UNCHANGED vars
  BY <1>6 DEF vars, serverVars, tableVars, monitorVars, IInv, TypeOK, NoDuplicateNode,
              Timely, GoodTasks
<1> QED
  BY <1>1, <1>2, <1>3, <1>4, <1>5, <1>6 DEF Next

\* The inductive invariant holds throughout.
LEMMA AlwaysIInv == Spec => []IInv
BY InitInv, NextInv, PTL DEF Spec

-----------------------------------------------------------------------------
(* The theorems *)

\* The server's state keeps its type.
THEOREM TypeCorrect == Spec => []TypeOK
BY AlwaysIInv, PTL DEF IInv

\* m_node_vec never holds a node twice.
THEOREM NoDuplicates == Spec => []NoDuplicateNode
BY AlwaysIInv, PTL DEF IInv

\* A silent node is dropped in time, for any timeouts and any lock delay.
THEOREM SilentGone == Spec => []SilentNodeGone
<1>1. IInv => SilentNodeGone
  <2> SUFFICES ASSUME IInv, NEW i \in DOMAIN m_node_vec
               PROVE  now - m_node_vec[i].lHeartBeatTime
                        <= HB_TIMEOUT + SWEEP_WAIT + 2 * MaxLag
    BY DEF SilentNodeGone
  <2> USE ServerAssumption DEF IInv, TypeOK
  <2>1. m_node_vec[i].lHeartBeatTime \in Nat
    BY EntryTimes
  <2>2. CASE mpc = "wait"
    BY <2>1, <2>2 DEF Timely
  <2>3. CASE mpc = "sweep"
    BY <2>1, <2>3 DEF Timely
  <2> QED
    BY <2>2, <2>3
<1> QED
  BY <1>1, AlwaysIInv, PTL

\* The sweep spares every node heard of within the limit, although its check
\* time is older than its lock: lCheckTime <= now is what makes it safe.
THEOREM SweepSpares == Spec => SweepSparesHeard
<1> DEFINE Spares ==
      MonitorSweep =>
        \A i \in DOMAIN m_node_vec :
          now - m_node_vec[i].lHeartBeatTime <= HB_TIMEOUT =>
            m_node_vec[i].node \in Registered'
<1>1. IInv => [Spares]_vars
  <2> SUFFICES ASSUME IInv, MonitorSweep, NEW i \in DOMAIN m_node_vec,
                      now - m_node_vec[i].lHeartBeatTime <= HB_TIMEOUT
               PROVE  m_node_vec[i].node \in Registered'
    OBVIOUS
  <2> USE ServerAssumption DEF IInv
  <2>1. m_node_vec[i].lHeartBeatTime \in Nat /\ lCheckTime <= now
    BY EntryTimes DEF MonitorSweep, Timely, TypeOK
  <2>2. i \in SweepKeeps
    BY <2>1 DEF SweepKeeps, Silent, TypeOK
  <2>3. \A k \in SweepKeeps : m_node_vec[k].node \in Registered'
    BY EraseShrinks DEF MonitorSweep, SweepKeeps
  <2> QED
    BY <2>2, <2>3
<1> QED
  BY <1>1, AlwaysIInv, PTL DEF SweepSparesHeard

\* A node leaves the table only by a sweep or by the failure of a request that
\* picked this node.
THEOREM OnlyBlamed == Spec => OnlyBlamedNodeLeaves
<1> DEFINE Leaves ==
      \A n \in Registered \ Registered' :
        \/ mpc = "sweep" /\ mpc' = "wait"
        \/ \E t \in Tasks : task[t] = Blaming(n) /\ task'[t] # task[t]
<1>1. IInv /\ [Next]_vars => [Leaves]_vars
  <2> SUFFICES ASSUME IInv, Next PROVE Leaves
    OBVIOUS
  <2>1. ASSUME NEW n \in Nodes,
               RegisterWork(n) \/ \E b \in BOOLEAN : HeartBeatWork(n, b)
        PROVE  Leaves
    BY <2>1, TableInv
  <2>2. CASE MonitorSweep
    BY <2>2 DEF MonitorSweep
  <2>3. ASSUME NEW t \in Tasks, CollectErase(t)
        PROVE  Leaves
    BY <2>3, EraseInv
  <2>4. CASE UNCHANGED m_node_vec
    BY <2>4 DEF Registered
  <2>5. ASSUME NEW t \in Tasks,
               \/ \E r \in Requests : HttpCallback(t, r)
               \/ WorkService(t) \/ CollectPick(t) \/ CollectNoNode(t)
               \/ \E b \in BOOLEAN : CollectReturn(t, b)
        PROVE  UNCHANGED m_node_vec
    BY <2>5, RequestStep
  <2>6. MonitorCheckTime \/ Tick => UNCHANGED m_node_vec
    BY DEF MonitorCheckTime, Tick, serverVars, tableVars
  <2> QED
    BY <2>1, <2>2, <2>3, <2>4, <2>5, <2>6 DEF Next
<1> QED
  BY <1>1, AlwaysIInv, PTL DEF Spec, OnlyBlamedNodeLeaves

-----------------------------------------------------------------------------
(* The table as a set of members *)

\* What a call that hears of node n does to the members.
Hears(n) ==
  Members' = {e \in Members : e.node # n} \cup {[node |-> n, lHeartBeatTime |-> now]}

\* With one entry a node, refreshing the first is refreshing the node.
LEMMA RefreshHears ==
  ASSUME TypeOK, NoDuplicateNode, NEW n \in Nodes, Refresh(n)
  PROVE  Hears(n)
<1> DEFINE fresh == [node |-> n, lHeartBeatTime |-> now]
<1>1. m_node_vec \in [1..Len(m_node_vec) -> dcnode_t]
  BY SeqIsFunction DEF TypeOK
<1>2. PICK i \in DOMAIN m_node_vec :
        /\ m_node_vec[i].node = n
        /\ m_node_vec' = [m_node_vec EXCEPT ![i].lHeartBeatTime = now]
  BY DEF Refresh, IsFirst, IndexesOf
<1>3. m_node_vec[i] \in dcnode_t
  BY <1>1, <1>2
<1>4. [m_node_vec[i] EXCEPT !.lHeartBeatTime = now] = fresh
  BY <1>2, <1>3 DEF dcnode_t
<1>5. m_node_vec' = [m_node_vec EXCEPT ![i] = fresh]
  BY <1>2, <1>4
<1>6. \A j \in DOMAIN m_node_vec : m_node_vec[j].node # n <=> j # i
  BY <1>2 DEF NoDuplicateNode
<1>7. DOMAIN m_node_vec' = DOMAIN m_node_vec
  BY <1>5
<1>8. /\ m_node_vec'[i] = fresh
      /\ \A j \in DOMAIN m_node_vec : j # i => m_node_vec'[j] = m_node_vec[j]
  BY <1>1, <1>2, <1>5
<1>9. ASSUME NEW e \in Members' PROVE e = fresh \/ (e \in Members /\ e.node # n)
  <2>1. PICK j \in DOMAIN m_node_vec : e = m_node_vec'[j]
    BY <1>7, <1>9 DEF Members
  <2> QED
    BY <1>6, <1>8, <2>1 DEF Members
<1>10. ASSUME NEW e \in Members, e.node # n PROVE e \in Members'
  <2>1. PICK j \in DOMAIN m_node_vec : e = m_node_vec[j]
    BY <1>10 DEF Members
  <2> QED
    BY <1>6, <1>7, <1>8, <1>10, <2>1 DEF Members
<1>11. fresh \in Members'
  BY <1>2, <1>7, <1>8 DEF Members
<1> QED
  BY <1>9, <1>10, <1>11 DEF Hears

\* A node without an entry gets one, behind the others.
LEMMA PushBackHears ==
  ASSUME TypeOK, NEW n \in Nodes, n \notin Registered, PushBack(n)
  PROVE  Hears(n)
<1> DEFINE fresh == [node |-> n, lHeartBeatTime |-> now]
           L == Len(m_node_vec)
<1>1. fresh \in dcnode_t
  BY DEF TypeOK, dcnode_t
<1>2. /\ L \in Nat /\ DOMAIN m_node_vec = 1..L
      /\ m_node_vec' = Append(m_node_vec, fresh)
  BY SeqIsFunction DEF TypeOK, PushBack
<1>3. /\ DOMAIN m_node_vec' = 1..(L + 1) /\ m_node_vec'[L + 1] = fresh
      /\ \A j \in 1..L : m_node_vec'[j] = m_node_vec[j]
  BY <1>1, <1>2 DEF TypeOK
<1>4. \A e \in Members : e.node # n
  BY DEF Members, Registered
<1>5. Members' = {m_node_vec'[j] : j \in 1..(L + 1)} /\ Members = {m_node_vec[j] : j \in 1..L}
  BY <1>2, <1>3 DEF Members
<1>6. 1..(L + 1) = (1..L) \cup {L + 1}
  BY <1>2
<1>7. Members' = Members \cup {fresh}
  BY ONLY <1>3, <1>5, <1>6
<1> QED
  BY <1>4, <1>7 DEF Hears

\* Erasing keeps exactly the entries it should.
LEMMA EraseMembers ==
  ASSUME TypeOK, NEW K \in SUBSET (DOMAIN m_node_vec),
         m_node_vec' \in Keep(m_node_vec, K)
  PROVE  Members' = {m_node_vec[k] : k \in K}
<1>1. Restricts(m_node_vec', m_node_vec, K)
  BY KeepProperties DEF TypeOK
<1>2. PICK f \in [DOMAIN m_node_vec' -> K] :
        /\ \A i \in DOMAIN m_node_vec' : m_node_vec'[i] = m_node_vec[f[i]]
        /\ \A k \in K : \E i \in DOMAIN m_node_vec' : f[i] = k
  BY <1>1 DEF Restricts
<1>3. Members' = {m_node_vec'[i] : i \in DOMAIN m_node_vec'}
  BY DEF Members
<1> QED
  BY ONLY <1>2, <1>3

\* What Membership is shown of a request.
request == [t \in Tasks |-> Shown(task[t])]

\* A step of one request is seen as a step of that request.
LEMMA ShownMoves ==
  ASSUME TypeOK, NEW t \in Tasks, NEW ts, NEW r, Becomes(t, ts), Shown(ts) = r
  PROVE  MS!Becomes(t, r)
<1>1. \A u \in Tasks : task'[u] = IF u = t THEN ts ELSE task[u]
  BY DEF TypeOK, Becomes
<1>2. [u \in Tasks |-> Shown(task'[u])]
        = [[u \in Tasks |-> Shown(task[u])] EXCEPT ![t] = r]
  BY <1>1
<1> QED
  BY <1>2 DEF MS!Becomes

\* How the states that the request steps assign are seen.
LEMMA ShownStates ==
  /\ \A c \in DC_HTTP_REPLY : Shown(Idle(c)) = MS!Answered(c)
  /\ \A x \in Requests : Shown(Queued(x)) = MS!Unanswered
  /\ Shown(Dropped) = MS!Unanswered /\ Shown(Parsed) = MS!Unanswered
  /\ \A n \in Nodes : /\ Shown(Calling(n)) = MS!At(n, FALSE, "none")
                      /\ Shown(Blaming(n)) = MS!At(n, TRUE, "none")
BY DEF Shown, Idle, Dropped, Queued, Parsed, Calling, Blaming, At, MS!Answered,
       MS!Unanswered, MS!At

\* How a request is seen where it stands.
LEMMA ShownRequest ==
  ASSUME GoodTasks, NEW t \in Tasks
  PROVE  /\ task[t].pc \in {"idle", "dropped"} => request[t].node = NoNode
         /\ task[t].pc \in {"queued", "pick"} => request[t] = MS!Unanswered
         /\ task[t].pc = "rpc" => request[t].node # NoNode /\ ~request[t].failed
         /\ task[t].pc = "erase" => request[t].failed
         /\ request[t].node = task[t].node
<1> DEFINE ts == task[t]
<1>1. request[t] = [node |-> ts.node, failed |-> ts.pc = "erase", reply |-> ts.reply]
  BY DEF request, Shown
<1>2. /\ ts.pc \in {"rpc", "erase"} => ts.node \in Nodes
      /\ ts.pc \notin {"rpc", "erase"} => ts.node = NoNode
      /\ ts.pc # "idle" => ts.reply = "none"
  BY DEF GoodTasks, GoodTask
<1> HIDE DEF ts
<1>3. ASSUME ts.pc \in {"queued", "pick"}
      PROVE  request[t] = MS!Unanswered
  <2>1. (ts.pc = "erase") = FALSE
    BY <1>3
  <2>2. ts.node = NoNode /\ ts.reply = "none"
    BY <1>2, <1>3
  <2> QED
    BY <1>1, <2>1, <2>2 DEF MS!Unanswered, MS!At
<1>4. request[t].node = ts.node
  BY ONLY <1>1
<1>5. request[t].failed <=> ts.pc = "erase"
  <2>1. CASE ts.pc = "erase"
    <3>1. (ts.pc = "erase") = TRUE
      BY <2>1
    <3>2. request[t] = [node |-> ts.node, failed |-> TRUE, reply |-> ts.reply]
      BY ONLY <1>1, <3>1
    <3> QED
      BY ONLY <2>1, <3>2
  <2>2. CASE ts.pc # "erase"
    <3>1. (ts.pc = "erase") = FALSE
      BY <2>2
    <3>2. request[t] = [node |-> ts.node, failed |-> FALSE, reply |-> ts.reply]
      BY ONLY <1>1, <3>1
    <3> QED
      BY ONLY <2>2, <3>2
  <2> QED
    BY ONLY <2>1, <2>2
<1>6. ts.pc = "rpc" => ts.node # NoNode /\ ts.pc # "erase"
  BY <1>2, ServerAssumption DEF ServerAssumption
<1>7. ts.pc \in {"idle", "dropped"} => ts.node = NoNode
  BY <1>2
<1> QED
  BY <1>3, <1>4, <1>5, <1>6, <1>7 DEF ts

\* A reply, or the lack of memory for it.
LEMMA ReplyEnds ==
  ASSUME TypeOK, NEW t \in Tasks, NEW c \in DC_HTTP_REPLY, SendReply(t, c)
  PROVE  MS!Ends(t, c)
<1>1. CASE Becomes(t, Idle(c))
  <2>1. MS!Becomes(t, MS!Answered(c))
    BY <1>1, ShownStates, ShownMoves
  <2> QED
    BY <2>1 DEF MS!Ends
<1>2. CASE Becomes(t, Dropped)
  <2>1. MS!Becomes(t, MS!Unanswered)
    BY <1>2, ShownStates, ShownMoves
  <2> QED
    BY <2>1 DEF MS!Ends
<1> QED
  BY <1>1, <1>2 DEF SendReply

\* Requests that leave the table alone.
LEMMA RequestShows ==
  ASSUME IInv, NEW t \in Tasks,
         \/ \E x \in Requests : HttpCallback(t, x)
         \/ WorkService(t) \/ CollectPick(t) \/ CollectNoNode(t)
         \/ \E b \in BOOLEAN : CollectReturn(t, b)
  PROVE  MS!Next
<1>0. TypeOK /\ GoodTasks
  BY DEF IInv
<1>1. UNCHANGED <<now, Members>>
  BY DEF HttpCallback, WorkService, CollectPick, CollectNoNode, CollectReturn, tableVars,
         Members
<1>2. /\ task[t].pc \in {"idle", "dropped"} => request[t].node = NoNode
      /\ task[t].pc \in {"queued", "pick"} => request[t] = MS!Unanswered
      /\ task[t].pc = "rpc" => request[t].node # NoNode /\ ~request[t].failed
      /\ request[t].node = task[t].node
  BY <1>0, ShownRequest
<1>3. ASSUME request[t].node = NoNode, NEW ts, Becomes(t, ts), Shown(ts) = MS!Unanswered
      PROVE  MS!Begin(t)
  <2>1. MS!Becomes(t, MS!Unanswered)
    BY <1>0, <1>3, ShownMoves
  <2> QED
    BY <1>1, <1>3, <2>1 DEF MS!Begin, request
<1>4. CASE \E x \in Requests : HttpCallback(t, x)
  <2>1. PICK x \in Requests : HttpCallback(t, x)
    BY <1>4
  <2>2. /\ request[t].node = NoNode
        /\ Becomes(t, Queued(x)) \/ Becomes(t, Dropped)
    BY <1>2, <2>1 DEF HttpCallback
  <2>3. MS!Begin(t)
    BY <1>3, <2>2, ShownStates
  <2> QED
    BY <2>3 DEF MS!Next
<1>5. CASE WorkService(t)
  <2>1. request[t] = MS!Unanswered
    BY <1>2, <1>5 DEF WorkService
  <2>2. CASE Becomes(t, Parsed)
    <3>1. request[t].node = NoNode
      BY <2>1 DEF MS!Unanswered, MS!At
    <3>2. MS!Begin(t)
      BY <1>3, <2>2, <3>1, ShownStates
    <3> QED
      BY <3>2 DEF MS!Next
  <2>3. CASE SendReply(t, "DC_URL_ERR") \/ SendReply(t, "DC_BODY_ERR")
    <3>1. MS!Ends(t, "DC_URL_ERR") \/ MS!Ends(t, "DC_BODY_ERR")
      BY <1>0, <2>3, ReplyEnds DEF DC_HTTP_REPLY
    <3>2. MS!Reject(t)
      BY <1>1, <2>1, <3>1 DEF MS!Reject, request
    <3> QED
      BY <3>2 DEF MS!Next
  <2> QED
    BY <1>5, <2>2, <2>3 DEF WorkService
<1>6. CASE CollectPick(t)
  <2> DEFINE k == pickNum % Len(m_node_vec)
  <2>1. /\ Len(m_node_vec) \in Nat \ {0} /\ m_node_vec \in [1..Len(m_node_vec) -> dcnode_t]
        /\ pickNum \in Nat
    BY <1>0, <1>6, NotEmpty, SeqIsFunction DEF TypeOK, CollectPick
  <2>2. k + 1 \in 1..Len(m_node_vec)
    BY <2>1
  <2> DEFINE e == m_node_vec[k + 1]
  <2>3. e \in Members /\ e.node \in Nodes
    BY <2>1, <2>2 DEF dcnode_t, Members
  <2>4. Becomes(t, Calling(e.node)) /\ request[t] = MS!Unanswered
    BY <1>2, <1>6 DEF CollectPick
  <2> HIDE DEF e
  <2>5. MS!Becomes(t, MS!At(e.node, FALSE, "none"))
    BY <1>0, <2>3, <2>4, ShownStates, ShownMoves
  <2>6. MS!Call(t)
    BY <1>1, <2>3, <2>4, <2>5 DEF MS!Call, request
  <2> QED
    BY <2>6 DEF MS!Next
<1>7. CASE CollectNoNode(t)
  <2>1. MS!Ends(t, "DC_NO_NODE")
    BY <1>0, <1>7, ReplyEnds DEF CollectNoNode, DC_HTTP_REPLY
  <2>2. Members = {}
    BY <1>7 DEF CollectNoNode, Members
  <2>3. MS!NobodyThere(t)
    BY <1>1, <1>2, <1>7, <2>1, <2>2 DEF CollectNoNode, MS!NobodyThere, request
  <2> QED
    BY <2>3 DEF MS!Next
<1>8. CASE \E b \in BOOLEAN : CollectReturn(t, b)
  <2>1. /\ task[t].pc = "rpc" /\ request[t].node # NoNode /\ ~request[t].failed
        /\ SendReply(t, "DC_NO_ERR") \/ Becomes(t, Blaming(task[t].node))
    BY <1>2, <1>8 DEF CollectReturn
  <2>2. CASE SendReply(t, "DC_NO_ERR")
    <3>1. MS!Ends(t, "DC_NO_ERR")
      BY <1>0, <2>2, ReplyEnds DEF DC_HTTP_REPLY
    <3>2. MS!Succeed(t)
      BY <1>1, <2>1, <3>1 DEF MS!Succeed, request
    <3> QED
      BY <3>2 DEF MS!Next
  <2>3. CASE Becomes(t, Blaming(task[t].node))
    <3>1. task[t].node \in Nodes
      BY <1>0, <2>1 DEF GoodTasks, GoodTask
    <3>2. MS!Becomes(t, MS!At(task[t].node, TRUE, "none"))
      BY <1>0, <2>3, <3>1, ShownStates, ShownMoves
    <3>3. MS!Fail(t)
      BY <1>1, <1>2, <2>1, <3>2 DEF MS!Fail, request
    <3> QED
      BY <3>3 DEF MS!Next
  <2> QED
    BY <2>1, <2>2, <2>3
<1> QED
  BY <1>4, <1>5, <1>6, <1>7, <1>8

\* The erasure by address takes out the one entry of the node that failed.
LEMMA EraseShows ==
  ASSUME IInv, NEW t \in Tasks, CollectErase(t)
  PROVE  MS!Next
<1> DEFINE n == task[t].node
           K == EraseKeeps(t)
<1>0. TypeOK /\ NoDuplicateNode /\ GoodTasks
  BY DEF IInv
<1>1. /\ K \in SUBSET (DOMAIN m_node_vec) /\ m_node_vec' \in Keep(m_node_vec, K)
      /\ task[t].pc = "erase" /\ SendReply(t, "DC_NODE_ERR") /\ UNCHANGED now
  BY DEF CollectErase, EraseKeeps
<1>2. DOMAIN m_node_vec = 1..Len(m_node_vec) /\ Len(m_node_vec) \in Nat
  BY <1>0, SeqIsFunction DEF TypeOK
<1>3. \A i \in DOMAIN m_node_vec : i \in K <=> m_node_vec[i].node # n
  <2> SUFFICES ASSUME NEW i \in DOMAIN m_node_vec
               PROVE  IsFirst(i, n) <=> m_node_vec[i].node = n
    BY DEF EraseKeeps
  <2>1. ASSUME m_node_vec[i].node = n PROVE IsFirst(i, n)
    <3>1. IndexesOf(n) = {i}
      BY <1>0, <2>1 DEF IndexesOf, NoDuplicateNode
    <3> QED
      BY <1>2, <3>1 DEF IsFirst
  <2> QED
    BY <2>1 DEF IsFirst, IndexesOf
<1>4. Members' = {m_node_vec[k] : k \in K}
  BY <1>0, <1>1, EraseMembers
<1>5. Members' = {e \in Members : e.node # n}
  BY <1>1, <1>3, <1>4 DEF Members
<1>6. request[t].failed /\ request[t].node = n
  BY <1>0, <1>1, ShownRequest
<1>7. MS!Ends(t, "DC_NODE_ERR")
  BY <1>0, <1>1, ReplyEnds DEF DC_HTTP_REPLY
<1>8. MS!Blame(t)
  BY <1>1, <1>5, <1>6, <1>7 DEF MS!Blame, MS!Others, request
<1> QED
  BY <1>8 DEF MS!Next

\* A sweep drops only nodes silent at its check time, which is not after now.
LEMMA SweepShows ==
  ASSUME IInv, MonitorSweep
  PROVE  MS!Next
<1>0. TypeOK /\ Timely
  BY DEF IInv
<1>1. Members' = {m_node_vec[k] : k \in SweepKeeps}
  BY <1>0, EraseMembers DEF MonitorSweep, SweepKeeps
<1>2. Members' \subseteq Members
  BY <1>1 DEF Members, SweepKeeps
<1>3. now \in Nat /\ lCheckTime \in Nat /\ lCheckTime <= now
  BY <1>0 DEF MonitorSweep, Timely, TypeOK
<1>4. ASSUME NEW e \in Members \ Members'
      PROVE  now - e.lHeartBeatTime > HB_TIMEOUT
  <2>1. PICK i \in DOMAIN m_node_vec : e = m_node_vec[i]
    BY <1>4 DEF Members
  <2>2. i \notin SweepKeeps
    BY <1>1, <1>4, <2>1
  <2>3. /\ lCheckTime - e.lHeartBeatTime > HB_TIMEOUT
        /\ e.lHeartBeatTime \in Nat
    BY <1>0, <2>1, <2>2, EntryTimes DEF SweepKeeps, Silent, TypeOK
  <2> QED
    BY ONLY <1>3, <2>3, ServerAssumption DEF ServerAssumption
<1>5. UNCHANGED <<now, task>>
  BY DEF MonitorSweep
<1>6. MS!Forget
  BY <1>2, <1>4, <1>5 DEF MS!Forget
<1> QED
  BY <1>6 DEF MS!Next

\* Registrations and heartbeats are heard, a heartbeat of no member is not.
LEMMA TableShows ==
  ASSUME IInv, NEW n \in Nodes,
         RegisterWork(n) \/ \E b \in BOOLEAN : HeartBeatWork(n, b)
  PROVE  [MS!Next]_(MS!vars)
<1>0. TypeOK /\ NoDuplicateNode /\ UNCHANGED <<now, task>>
  BY DEF IInv, RegisterWork, HeartBeatWork
<1>1. ASSUME Hears(n) PROVE MS!Next
  <2>1. MS!Hear(n)
    BY <1>0, <1>1 DEF MS!Hear, MS!Others, Hears
  <2> QED
    BY <2>1 DEF MS!Next
<1>2. CASE Refresh(n)
  BY <1>0, <1>1, <1>2, RefreshHears
<1>3. CASE n \notin Registered /\ PushBack(n)
  BY <1>0, <1>1, <1>3, PushBackHears
<1>4. CASE UNCHANGED m_node_vec
  BY <1>0, <1>4 DEF MS!vars, Members
<1> QED
  BY <1>2, <1>3, <1>4 DEF RegisterWork, HeartBeatWork

\* Time passes only while the monitor keeps to every member's grace.
LEMMA TickShows ==
  ASSUME IInv, SilentNodeGone', Tick
  PROVE  MS!Next
<1> DEFINE Grace == HB_TIMEOUT + SWEEP_WAIT + 2 * MaxLag
<1>1. now \in Nat /\ now' = now + 1 /\ UNCHANGED <<m_node_vec, task>>
  BY DEF IInv, TypeOK, Tick, serverVars, tableVars
<1>2. ASSUME NEW e \in Members
      PROVE  now - e.lHeartBeatTime < Grace
  <2>1. PICK i \in DOMAIN m_node_vec : e = m_node_vec[i]
    BY <1>2 DEF Members
  <2>2. e.lHeartBeatTime \in Nat
    BY <2>1, EntryTimes DEF IInv, TypeOK
  <2>3. now' - e.lHeartBeatTime <= Grace
    BY <1>1, <2>1 DEF SilentNodeGone
  <2> QED
    BY ONLY <1>1, <2>2, <2>3, ServerAssumption DEF ServerAssumption
<1>3. MS!Tick
  BY <1>1, <1>2 DEF MS!Tick, Members
<1> QED
  BY <1>3 DEF MS!Next

\* The DcServer process implements Membership: for any nodes, requests,
\* timeouts and lock delays, what nodes and clients see of the vector, the
\* monitor and the requests is a set of members kept as Membership promises.
THEOREM ServerRefines == Spec => ImplementsMembership
<1>1. Init => MS!Init
  <2> SUFFICES ASSUME Init PROVE MS!Init
    OBVIOUS
  <2>1. now = 0 /\ m_node_vec = <<>> /\ task = [t \in Tasks |-> Idle("none")]
    BY DEF Init, InitServer
  <2>2. Members = {}
    BY <2>1 DEF Members
  <2>3. Shown(Idle("none")) = MS!Unanswered
    BY DEF Shown, Idle, At, MS!Unanswered, MS!At
  <2>4. [t \in Tasks |-> Shown(task[t])] = [t \in Tasks |-> MS!Unanswered]
    BY <2>1, <2>3
  <2> QED
    BY <2>1, <2>2, <2>4 DEF MS!Init
<1>2. IInv /\ SilentNodeGone' /\ [Next]_vars => [MS!Next]_(MS!vars)
  <2> SUFFICES ASSUME IInv, SilentNodeGone', [Next]_vars PROVE [MS!Next]_(MS!vars)
    OBVIOUS
  <2>1. ASSUME NEW n \in Nodes,
               RegisterWork(n) \/ \E b \in BOOLEAN : HeartBeatWork(n, b)
        PROVE  [MS!Next]_(MS!vars)
    BY <2>1, TableShows
  <2>2. CASE MonitorSweep
    BY <2>2, SweepShows
  <2>3. ASSUME NEW t \in Tasks,
               \/ \E r \in Requests : HttpCallback(t, r)
               \/ WorkService(t) \/ CollectPick(t) \/ CollectNoNode(t)
               \/ \E b \in BOOLEAN : CollectReturn(t, b)
        PROVE  MS!Next
    BY <2>3, RequestShows
  <2>4. ASSUME NEW t \in Tasks, CollectErase(t)
        PROVE  MS!Next
    BY <2>4, EraseShows
  <2>5. CASE Tick
    BY <2>5, TickShows
  <2>6. CASE MonitorCheckTime \/ UNCHANGED vars
    BY <2>6 DEF MonitorCheckTime, vars, serverVars, tableVars, MS!vars, Members
  <2> QED
    BY <2>1, <2>2, <2>3, <2>4, <2>5, <2>6 DEF Next
<1> QED
  BY <1>1, <1>2, AlwaysIInv, SilentGone, PTL DEF Spec, ImplementsMembership, MS!Spec

-----------------------------------------------------------------------------
(* Even scheduling *)

\* Where the pick i rounds of the cursor ago was made, in a table of L nodes.
Before(p, i, L) == IF i < p THEN p - i ELSE p - i + L

\* The history is what the cursor passed over, backwards from pickNum and around
\* the end of the table; while it is empty pickNum may be beyond the table.
PickInv ==
  /\ recent \in Seq(Nodes) /\ Len(recent) <= Len(m_node_vec)
  /\ recent # <<>> => pickNum \in 1..Len(m_node_vec)
  /\ \A i \in 0..(Len(recent) - 1) :
       recent[Len(recent) - i] = m_node_vec[Before(pickNum, i, Len(m_node_vec))].node

\* In one round the cursor passes over different positions.
LEMMA BeforeOnce ==
  ASSUME NEW L \in Nat, NEW p \in 1..L
  PROVE  \A i, j \in 0..(L - 1) :
           /\ Before(p, i, L) \in 1..L
           /\ Before(p, i, L) = Before(p, j, L) => i = j
BY DEF Before

\* A pick moves the cursor by one, from the last position to the first.
LEMMA BeforeShifts ==
  ASSUME NEW L \in Nat \ {0}, NEW p \in 1..L
  PROVE  /\ (p % L) + 1 \in 1..L
         /\ \A i \in 0..(L - 2) : Before((p % L) + 1, i + 1, L) = Before(p, i, L)
<1>1. CASE p = L
  <2>1. p % L = 0
    BY <1>1
  <2> QED
    BY <1>1, <2>1 DEF Before
<1>2. CASE p # L
  <2>1. p % L = p
    BY <1>2
  <2> QED
    BY <1>2, <2>1 DEF Before
<1> QED
  BY <1>1, <1>2

\* r is s with e at its end, without its oldest entry if it was full, as seen
\* from the end.
Follows(r, s, e, S, L) ==
  /\ r \in Seq(S) /\ Len(r) <= L /\ Len(r) \in Nat \ {0} /\ Len(r) <= Len(s) + 1
  /\ r[Len(r)] = e
  /\ \A i \in 1..(Len(r) - 1) : r[Len(r) - i] = s[Len(s) - (i - 1)]

\* That is what Record makes of the history.
LEMMA LastOfAppend ==
  ASSUME NEW S, NEW s \in Seq(S), NEW e \in S, NEW L \in Nat \ {0}, Len(s) <= L,
         NEW r, r = LastOf(Append(s, e), L)
  PROVE  Follows(r, s, e, S, L)
<1> USE DEF Follows
<1>1. CASE Len(s) + 1 <= L
  <2>1. r = Append(s, e) /\ Len(r) = Len(s) + 1
    BY <1>1 DEF LastOf
  <2> QED
    BY <1>1, <2>1
<1>2. CASE ~(Len(s) + 1 <= L)
  <2>1. Len(s) = L /\ r = SubSeq(Append(s, e), 2, L + 1)
    <3>1. Len(s) = L /\ Len(Append(s, e)) = L + 1
      BY <1>2
    <3>2. ~(Len(Append(s, e)) <= L) /\ Len(Append(s, e)) - L + 1 = 2
      BY <3>1
    <3>3. r = SubSeq(Append(s, e), Len(Append(s, e)) - L + 1, Len(Append(s, e)))
      BY <3>2, Zenon DEF LastOf
    <3> QED
      BY <3>1, <3>2, <3>3, Zenon
  <2>2. r \in Seq(S) /\ Len(r) = L /\ \A j \in 1..L : r[j] = Append(s, e)[j + 1]
    BY <2>1
  <2>3. \A i \in 1..(L - 1) : Append(s, e)[L - i + 1] = s[L - (i - 1)]
    BY <2>1
  <2> QED
    BY <2>1, <2>2, <2>3
<1> QED
  BY <1>1, <1>2

\* Only CollectPick picks, and only it moves the cursor.
LEMMA PickStep ==
  ASSUME IInv, [Next]_vars
  PROVE  \/ \E t \in Tasks : CollectPick(t)
         \/ UNCHANGED pickNum /\ \A t \in Tasks : ~Picking(t)
<1>1. ASSUME UNCHANGED <<pickNum, task>>
      PROVE  UNCHANGED pickNum /\ \A t \in Tasks : ~Picking(t)
  BY <1>1 DEF Picking
<1>2. ASSUME NEW t \in Tasks, NEW ts, Becomes(t, ts), ts.pc # "rpc", UNCHANGED pickNum
      PROVE  UNCHANGED pickNum /\ \A u \in Tasks : ~Picking(u)
  BY <1>2 DEF Picking, Becomes, IInv, TypeOK
<1>3. CASE (\E n \in Nodes : RegisterWork(n) \/ \E b \in BOOLEAN : HeartBeatWork(n, b))
           \/ MonitorCheckTime \/ MonitorSweep \/ Tick \/ UNCHANGED vars
  <2>1. UNCHANGED <<pickNum, task>>
    BY <1>3 DEF RegisterWork, HeartBeatWork, MonitorCheckTime, MonitorSweep, Tick,
                vars, serverVars, tableVars
  <2> QED
    BY <1>1, <2>1
<1>4. ASSUME NEW t \in Tasks,
             \/ \E r \in Requests : HttpCallback(t, r)
             \/ WorkService(t) \/ CollectNoNode(t)
             \/ \E b \in BOOLEAN : CollectReturn(t, b)
             \/ CollectErase(t)
      PROVE  UNCHANGED pickNum /\ \A u \in Tasks : ~Picking(u)
  <2>1. UNCHANGED pickNum
    BY <1>4 DEF HttpCallback, WorkService, CollectNoNode, CollectReturn, CollectErase,
                tableVars
  <2>2. \E ts : Becomes(t, ts) /\ ts.pc # "rpc"
    <3>1. /\ \A r : Queued(r).pc # "rpc"
          /\ \A c : Idle(c).pc # "rpc"
          /\ \A n : Blaming(n).pc # "rpc"
          /\ Dropped.pc # "rpc" /\ Parsed.pc # "rpc"
      BY DEF Idle, Dropped, Queued, Parsed, Blaming, At
    <3>2. \/ \E r : Becomes(t, Queued(r))
          \/ \E c : Becomes(t, Idle(c))
          \/ \E n : Becomes(t, Blaming(n))
          \/ Becomes(t, Dropped) \/ Becomes(t, Parsed)
      BY <1>4, Zenon DEF HttpCallback, WorkService, CollectNoNode, CollectReturn,
                  CollectErase, SendReply
    <3> QED
      BY <3>1, <3>2, Zenon
  <2> QED
    BY <1>2, <2>1, <2>2
<1> QED
  BY <1>3, <1>4 DEF Next

\* The history of a step that leaves the nodes and their order alone.
LEMMA NamesKept ==
  ASSUME IInv, IInv', Names(m_node_vec') = Names(m_node_vec)
  PROVE  /\ Len(m_node_vec') = Len(m_node_vec) /\ Len(m_node_vec) \in Nat
         /\ \A i \in 1..Len(m_node_vec) : m_node_vec'[i].node = m_node_vec[i].node
<1>1. /\ DOMAIN m_node_vec = 1..Len(m_node_vec) /\ Len(m_node_vec) \in Nat
      /\ DOMAIN m_node_vec' = 1..Len(m_node_vec') /\ Len(m_node_vec') \in Nat
  BY SeqIsFunction DEF IInv, TypeOK
<1>2. DOMAIN m_node_vec' = DOMAIN m_node_vec
  <2>1. \A s : DOMAIN Names(s) = DOMAIN s
    BY DEF Names
  <2> QED
    BY <2>1
<1>3. Len(m_node_vec') = Len(m_node_vec)
  <2>1. ASSUME NEW a \in Nat, NEW b \in Nat, 1..a = 1..b PROVE a = b
    <3>1. (a \in 1..a <=> a \in 1..b) /\ (b \in 1..b <=> b \in 1..a)
      BY <2>1
    <3> QED
      BY <3>1
  <2>2. 1..Len(m_node_vec') = 1..Len(m_node_vec)
    BY <1>1, <1>2, Zenon
  <2> QED
    BY <1>1, <2>1, <2>2, Zenon
<1>4. \A i \in DOMAIN m_node_vec : Names(m_node_vec')[i] = m_node_vec'[i].node
                                   /\ Names(m_node_vec)[i] = m_node_vec[i].node
  BY <1>2 DEF Names
<1> QED
  BY <1>1, <1>3, <1>4

\* A pick: the table's entry at the cursor, which the history then ends with.
LEMMA PickedNode ==
  ASSUME IInv, NEW t \in Tasks, CollectPick(t)
  PROVE  /\ Len(m_node_vec) \in Nat \ {0} /\ pickNum \in Nat
         /\ pickNum' = (pickNum % Len(m_node_vec)) + 1
         /\ pickNum' \in 1..Len(m_node_vec)
         /\ UNCHANGED m_node_vec
         /\ \E u \in Tasks : Picking(u)
         /\ m_node_vec[pickNum'].node \in Nodes
         /\ \A u \in Tasks : Picking(u) => task'[u].node = m_node_vec[pickNum'].node
<1> DEFINE k == pickNum % Len(m_node_vec)
<1>1. /\ m_node_vec \in Seq(dcnode_t) /\ pickNum \in Nat
      /\ task \in [Tasks -> TaskState]
  BY DEF IInv, TypeOK
<1>2. task[t].pc = "pick" /\ m_node_vec # <<>> /\ UNCHANGED m_node_vec
  BY DEF CollectPick
<1>3. Becomes(t, Calling(m_node_vec[k + 1].node)) /\ pickNum' = k + 1
  BY DEF CollectPick, NextPick
<1>4. Len(m_node_vec) \in Nat \ {0} /\ m_node_vec \in [1..Len(m_node_vec) -> dcnode_t]
  BY <1>1, <1>2, NotEmpty, SeqIsFunction
<1>5. k + 1 \in 1..Len(m_node_vec)
  BY <1>1, <1>4
<1>6. m_node_vec[k + 1].node \in Nodes
  BY <1>4, <1>5 DEF dcnode_t
<1> HIDE DEF k
<1>7. task'[t] = Calling(m_node_vec[k + 1].node) /\ \A u \in Tasks : u # t => task'[u] = task[u]
  BY <1>1, <1>3 DEF Becomes
<1>8. Picking(t) /\ task'[t].node = m_node_vec[k + 1].node
  BY <1>2, <1>7 DEF Picking, Calling, At
<1>9. \A u \in Tasks : Picking(u) => u = t
  BY <1>7 DEF Picking
<1>10. pickNum' = (pickNum % Len(m_node_vec)) + 1
  BY <1>3 DEF k
<1> QED
  BY <1>1, <1>2, <1>3, <1>4, <1>5, <1>6, <1>8, <1>9, <1>10

\* The history stays what the cursor passed over.
LEMMA PickInvKept ==
  ASSUME IInv, IInv', PickInv, [PickNext]_pickVars
  PROVE  PickInv'
<1> DEFINE L == Len(m_node_vec)
<1>1. recent \in Seq(Nodes) /\ Len(recent) \in Nat /\ Len(recent) <= L /\ L \in Nat
  BY SeqIsFunction DEF PickInv, IInv, TypeOK
<1>2. [Next]_vars
  BY DEF PickNext, pickVars
<1>3. CASE Names(m_node_vec') # Names(m_node_vec)
  <2>1. recent' = <<>>
    BY <1>3 DEF PickNext, Record, pickVars, vars, serverVars, tableVars
  <2>2. Len(m_node_vec') \in Nat
    BY SeqIsFunction DEF IInv, TypeOK
  <2> QED
    BY <2>1, <2>2 DEF PickInv
<1>4. CASE /\ Names(m_node_vec') = Names(m_node_vec) /\ UNCHANGED pickNum
           /\ \A t \in Tasks : ~Picking(t)
  <2>1. recent' = recent
    BY <1>4 DEF PickNext, Record, pickVars
  <2>2. Len(m_node_vec') = L /\ \A i \in 1..L : m_node_vec'[i].node = m_node_vec[i].node
    BY <1>4, NamesKept
  <2>3. ASSUME NEW i \in 0..(Len(recent) - 1)
        PROVE  recent[Len(recent) - i] = m_node_vec'[Before(pickNum, i, L)].node
    <3>1. recent # <<>> /\ i \in 0..(L - 1)
      BY <1>1
    <3>2. Before(pickNum, i, L) \in 1..L
      BY <1>1, <3>1, BeforeOnce DEF PickInv
    <3> QED
      BY <2>2, <3>2 DEF PickInv
  <2> QED
    BY <1>4, <2>1, <2>2, <2>3 DEF PickInv
<1>5. ASSUME NEW t \in Tasks, CollectPick(t)
      PROVE  PickInv'
  <2> DEFINE e == m_node_vec[pickNum'].node
  <2>1. /\ L \in Nat \ {0} /\ pickNum \in Nat
        /\ pickNum' = (pickNum % L) + 1 /\ pickNum' \in 1..L
        /\ UNCHANGED m_node_vec /\ e \in Nodes
    BY <1>5, PickedNode
  <2>2. (\E u \in Tasks : Picking(u)) /\ \A u \in Tasks : Picking(u) => task'[u].node = e
    BY <1>5, PickedNode
  <2>3. recent' = LastOf(Append(recent, e), L)
    <3>1. PickNext
      <4>1. CASE UNCHANGED pickVars
        BY <4>1, <2>2 DEF Picking, pickVars, vars, serverVars
      <4> QED
        BY <4>1
    <3>2. Names(m_node_vec') = Names(m_node_vec)
      BY <2>1
    <3>3. recent' = LastOf(Append(recent, task'[CHOOSE u \in Tasks : Picking(u)].node), L)
      BY <2>2, <3>1, <3>2, Zenon DEF PickNext, Record
    <3>4. task'[CHOOSE u \in Tasks : Picking(u)].node = e
      BY <2>2, Zenon
    <3> QED
      BY <3>3, <3>4, Zenon
  <2> HIDE DEF e
  <2> DEFINE r == recent'
             n == Len(r)
  <2>4. /\ r \in Seq(Nodes) /\ n <= L /\ n \in Nat \ {0} /\ n <= Len(recent) + 1
        /\ r[n] = e
        /\ \A i \in 1..(n - 1) : r[n - i] = recent[Len(recent) - (i - 1)]
    <3>1. Follows(r, recent, e, Nodes, L)
      BY <1>1, <2>1, <2>3, LastOfAppend, Zenon
    <3> QED
      BY <3>1 DEF Follows
  <2>5. ASSUME NEW i \in 0..(n - 1)
        PROVE  r[n - i] = m_node_vec[Before(pickNum', i, L)].node
    <3>1. CASE i = 0
      <4>1. Before(pickNum', i, L) = pickNum' /\ n - i = n
        BY <2>1, <2>4, <3>1 DEF Before
      <4> QED
        BY <2>4, <4>1 DEF e
    <3>2. CASE i # 0
      <4>1. i - 1 \in 0..(Len(recent) - 1) /\ i - 1 \in 0..(L - 2) /\ i \in 1..(n - 1)
        BY <1>1, <2>1, <2>4, <3>2
      <4>2. r[n - i] = recent[Len(recent) - (i - 1)]
        BY <2>4, <4>1
      <4>3. recent[Len(recent) - (i - 1)] = m_node_vec[Before(pickNum, i - 1, L)].node
        BY <4>1 DEF PickInv
      <4>4. pickNum \in 1..L
        BY <1>1, <4>1 DEF PickInv
      <4>5. Before((pickNum % L) + 1, i - 1 + 1, L) = Before(pickNum, i - 1, L)
        BY <2>1, <4>1, <4>4, BeforeShifts
      <4>6. i - 1 + 1 = i
        BY <4>1
      <4> QED
        BY <2>1, <4>2, <4>3, <4>5, <4>6, Zenon
    <3> QED
      BY <3>1, <3>2
  <2> QED
    BY <2>1, <2>4, <2>5 DEF PickInv
<1> QED
  BY <1>2, <1>3, <1>4, <1>5, PickStep

\* Even scheduling, for any number of nodes and of requests that pick at once:
\* between two changes of the table, each round of picks reaches every node.
THEOREM DispatchIsEven == PickSpec => []EvenDispatch
<1>1. PickInit => IInv /\ PickInv
  <2> SUFFICES ASSUME PickInit PROVE IInv /\ PickInv
    OBVIOUS
  <2>1. IInv
    BY InitInv DEF PickInit
  <2>2. recent = <<>> /\ m_node_vec = <<>>
    BY DEF PickInit, Init, InitServer
  <2> QED
    BY <2>1, <2>2 DEF PickInv
<1>2. IInv /\ PickInv /\ [PickNext]_pickVars => IInv' /\ PickInv'
  <2> SUFFICES ASSUME IInv, PickInv, [PickNext]_pickVars PROVE IInv' /\ PickInv'
    OBVIOUS
  <2>1. [Next]_vars
    BY DEF PickNext, pickVars
  <2>2. IInv'
    BY <2>1, NextInv
  <2> QED
    BY <2>2, PickInvKept
<1>3. IInv /\ PickInv => EvenDispatch
  <2> SUFFICES ASSUME IInv, PickInv, NEW i \in DOMAIN recent, NEW j \in DOMAIN recent,
                      recent[i] = recent[j]
               PROVE  i = j
    BY DEF EvenDispatch
  <2> DEFINE L == Len(m_node_vec)
             n == Len(recent)
             a == n - i
             b == n - j
  <2>1. /\ L \in Nat /\ n \in Nat /\ n <= L /\ i \in 1..n /\ j \in 1..n
        /\ DOMAIN m_node_vec = 1..L
    BY SeqIsFunction DEF PickInv, IInv, TypeOK
  <2>2. /\ a \in 0..(n - 1) /\ b \in 0..(n - 1) /\ a \in 0..(L - 1) /\ b \in 0..(L - 1)
        /\ n - a = i /\ n - b = j /\ recent # <<>>
    BY <2>1
  <2> HIDE DEF a, b
  <2>3. m_node_vec[Before(pickNum, a, L)].node = m_node_vec[Before(pickNum, b, L)].node
    <3>1. /\ recent[n - a] = m_node_vec[Before(pickNum, a, L)].node
          /\ recent[n - b] = m_node_vec[Before(pickNum, b, L)].node
      BY <2>2 DEF PickInv
    <3> QED
      BY <2>2, <3>1, Zenon
  <2>4. /\ Before(pickNum, a, L) \in 1..L /\ Before(pickNum, b, L) \in 1..L
        /\ Before(pickNum, a, L) = Before(pickNum, b, L) => a = b
    BY <2>1, <2>2, BeforeOnce DEF PickInv
  <2>5. a = b
    BY <2>1, <2>3, <2>4, Zenon DEF IInv, NoDuplicateNode
  <2> QED
    BY <2>2, <2>5, Zenon
<1> QED
  BY <1>1, <1>2, <1>3, PTL DEF PickSpec
=============================================================================
