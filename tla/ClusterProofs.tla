--------------------------- MODULE ClusterProofs ----------------------------
(***************************************************************************)
(* Proofs about the composed cluster, for any nodes, requests, times and   *)
(* number of faults.                                                       *)
(***************************************************************************)
EXTENDS ClusterNodeProofs

-----------------------------------------------------------------------------
(* Steps of requests *)

\* Steps that add nothing to the table and leave the nodes alone.
LEMMA PunctualSame ==
  ASSUME IInv, UNCHANGED <<now, nodeVars, call, missed, stray>>, NothingNew,
         lCheckTime' <= Window
  PROVE  Punctual'
<1> USE DEF IInv
<1>1. ASSUME NEW n \in Nodes
      PROVE  InTime(n)'
  <2>1. OldOrFresh(n)
    BY DEF OldOrFresh, NothingNew
  <2>2. HeardOf(n)' => HeardOf(n)
    BY DEF HeardOf, Srv!Registered, NothingNew
  <2>3. InTime(n)
    BY DEF Punctual
  <2> QED
    BY <2>1, <2>2, <2>3, InTimeKept DEF nodeVars
<1> QED
  BY <1>1 DEF Punctual

\* A step of request t: what it has to keep.
LEMMA RequestStep ==
  ASSUME IInv, NEW t \in Tasks, NEW ts \in Srv!TaskState, Srv!Becomes(t, ts),
         m_node_vec' \in Seq(Srv!dcnode_t), Srv!NoDuplicateNode', NothingNew,
         pickNum' \in Nat,
         UNCHANGED <<now, mpc, lCheckTime, wakeAt, nodeVars, srvUp, call, stray, missed>>,
         faults' \in 0..MaxFaults, DOMAIN work' = Tasks, runs' \in [Tasks -> Nat],
         \A u \in Tasks \ {t} : work'[u] = work[u] /\ runs'[u] = runs[u],
         task'[t] = ts => WorkMatches(t)' /\ RunsFit(t)'
  PROVE  IInv'
<1> USE DEF IInv
<1>1. Srv!TypeOK' /\ task'[t] = ts /\ \A u \in Tasks \ {t} : task'[u] = task[u]
  BY TaskStep DEF ServerSafe
<1>2. WorkSafe'
  BY <1>1, WorkOfOthers
<1>3. NodesSafe'
  BY NodesSame DEF NodesSafe
<1>4. Punctual'
  BY PunctualSame DEF Punctual
<1> QED
  BY <1>1, <1>2, <1>3, <1>4 DEF ServerSafe

\* The table as it was.
LEMMA TableSame ==
  ASSUME ServerSafe, UNCHANGED m_node_vec
  PROVE  m_node_vec' \in Seq(Srv!dcnode_t) /\ Srv!NoDuplicateNode' /\ NothingNew
BY DEF ServerSafe, Srv!TypeOK, Srv!NoDuplicateNode, NothingNew

\* Requests that are not in a call have no message.
LEMMA NoWork ==
  ASSUME WorkSafe, NEW t \in Tasks, task[t].pc # "rpc"
  PROVE  work[t] = NoMsg
BY DEF WorkSafe, WorkMatches

\* No message is neither a request nor an answer.
LEMMA NoMsgIsNone ==
  /\ \A t : NoMsg # send_ClusterWork(t)
  /\ NoMsg # process_ClusterWork(Returned(TRUE))
BY Kinds, Zenon

\* A request arrives.
LEMMA TaskArrivesInv ==
  ASSUME IInv, NEW t \in Tasks, TaskArrives(t)
  PROVE  IInv'
<1> USE DEF IInv
<1>1. PICK ts \in {Srv!Queued("work"), Srv!Dropped} : Srv!Becomes(t, ts)
  BY DEF TaskArrives, Srv!HttpCallback
<1>2. ts \in Srv!TaskState /\ ts.pc \in {"queued", "dropped"}
  BY <1>1, States DEF Srv!Requests
<1>3. /\ runs' = [runs EXCEPT ![t] = 0] /\ work' = work /\ work[t] = NoMsg
      /\ UNCHANGED <<now, m_node_vec, pickNum, mpc, lCheckTime, wakeAt, nodeVars, srvUp,
                     call, stray, missed, faults>>
  BY NoWork DEF TaskArrives, Srv!HttpCallback, Srv!tableVars, Srv!monitorVars
<1>4. /\ runs' \in [Tasks -> Nat] /\ runs'[t] = 0 /\ DOMAIN work' = Tasks
      /\ \A u \in Tasks \ {t} : runs'[u] = runs[u]
  BY <1>3 DEF WorkSafe
<1>5. ASSUME task'[t] = ts
      PROVE  WorkMatches(t)' /\ RunsFit(t)'
  <2>1. ts # Srv!Idle("DC_NO_ERR") /\ ts.pc # "rpc"
    BY <1>2, States
  <2>2. work'[t] = NoMsg /\ work'[t] # send_ClusterWork(t)
        /\ work'[t] # process_ClusterWork(Returned(TRUE))
    BY <1>3, NoMsgIsNone, Zenon
  <2>3. WorkMatches(t)'
    BY <1>5, <2>1, <2>2 DEF WorkMatches
  <2>4. runs'[t] <= 1
    BY <1>4
  <2>5. RunsFit(t)'
    BY <1>4, <1>5, <2>1, <2>2, <2>4, Zenon DEF RunsFit
  <2> QED
    BY <2>3, <2>5
<1>6. pickNum' \in Nat
  BY <1>3 DEF ServerSafe, Srv!TypeOK
<1> QED
  BY <1>1, <1>2, <1>3, <1>4, <1>5, <1>6, RequestStep, TableSame

\* The steps of WorkService and CollectWorkProc that make no call.
LEMMA TaskLocalInv ==
  ASSUME IInv, NEW t \in Tasks, TaskLocal(t)
  PROVE  IInv'
<1> USE DEF IInv
<1>1. UNCHANGED <<now, mpc, lCheckTime, wakeAt, pickNum, nodeVars, srvUp, netVars, faults>>
  BY DEF TaskLocal, Srv!WorkService, Srv!CollectNoNode, Srv!CollectErase, Srv!tableVars,
         Srv!monitorVars
<1>2. m_node_vec' \in Seq(Srv!dcnode_t) /\ Srv!NoDuplicateNode' /\ NothingNew
  <2>1. CASE Srv!WorkService(t) \/ Srv!CollectNoNode(t)
    BY <2>1, TableSame DEF Srv!WorkService, Srv!CollectNoNode, Srv!tableVars
  <2>2. CASE Srv!CollectErase(t)
    BY <2>2, EraseStep DEF Srv!CollectErase, Srv!EraseKeeps, ServerSafe
  <2> QED
    BY <2>1, <2>2 DEF TaskLocal
<1>3. \E ts \in Srv!TaskState :
        /\ Srv!Becomes(t, ts)
        /\ ts.pc # "rpc" /\ ts # Srv!Idle("DC_NO_ERR") /\ task[t].pc # "rpc"
        /\ ts.pc \in {"queued", "pick"} \/ ts = Srv!Idle("DC_NO_NODE") =>
             task[t].pc \in {"queued", "pick"}
  <2>1. \A c \in {"DC_URL_ERR", "DC_BODY_ERR", "DC_NO_NODE", "DC_NODE_ERR"} :
          /\ Srv!Idle(c) \in Srv!TaskState /\ Srv!Idle(c).pc = "idle"
          /\ Srv!Idle(c) # Srv!Idle("DC_NO_ERR")
          /\ c # "DC_NO_NODE" => Srv!Idle(c) # Srv!Idle("DC_NO_NODE")
    BY States DEF Srv!DC_HTTP_REPLY
  <2>2. Srv!Dropped # Srv!Idle("DC_NO_ERR") /\ Srv!Dropped # Srv!Idle("DC_NO_NODE")
    BY States
  <2>3. Srv!Parsed # Srv!Idle("DC_NO_ERR") /\ Srv!Parsed # Srv!Idle("DC_NO_NODE")
    BY States
  <2>4. CASE Srv!WorkService(t)
    BY <2>1, <2>2, <2>3, <2>4, States DEF Srv!WorkService, Srv!SendReply
  <2>5. CASE Srv!CollectNoNode(t)
    BY <2>1, <2>2, <2>5, States DEF Srv!CollectNoNode, Srv!SendReply
  <2>6. CASE Srv!CollectErase(t)
    BY <2>1, <2>2, <2>6, States DEF Srv!CollectErase, Srv!SendReply
  <2> QED
    BY <2>4, <2>5, <2>6 DEF TaskLocal
<1>4. PICK ts \in Srv!TaskState :
        /\ Srv!Becomes(t, ts)
        /\ ts.pc # "rpc" /\ ts # Srv!Idle("DC_NO_ERR") /\ task[t].pc # "rpc"
        /\ ts.pc \in {"queued", "pick"} \/ ts = Srv!Idle("DC_NO_NODE") =>
             task[t].pc \in {"queued", "pick"}
  BY <1>3
<1>5. ASSUME task'[t] = ts
      PROVE  WorkMatches(t)' /\ RunsFit(t)'
  <2>1. work[t] = NoMsg /\ RunsFit(t) /\ UNCHANGED <<work, runs>>
    BY <1>1, <1>4, NoWork DEF WorkSafe, netVars
  <2> QED
    BY <1>4, <1>5, <2>1, NoMsgIsNone DEF WorkMatches, RunsFit
<1>6. pickNum' \in Nat /\ UNCHANGED <<work, runs>> /\ DOMAIN work' = Tasks /\ runs' \in [Tasks -> Nat]
  BY <1>1 DEF ServerSafe, Srv!TypeOK, WorkSafe, netVars
<1> QED
  BY <1>1, <1>2, <1>4, <1>5, <1>6, RequestStep DEF netVars

-----------------------------------------------------------------------------
(* Steps of a request's RPC *)

\* SetWork changes the message of one request.
LEMMA SetWorkDoes ==
  ASSUME NEW t \in Tasks, NEW c, DOMAIN work = Tasks, SetWork(t, c)
  PROVE  /\ DOMAIN work' = Tasks /\ work'[t] = c
         /\ \A u \in Tasks \ {t} : work'[u] = work[u]
BY DEF SetWork

\* What a request waits for in a call that no node has taken yet.
LEMMA TakesWork ==
  ASSUME WorkSafe, NEW t \in Tasks, Takes(work[t])
  PROVE  task[t].pc = "rpc" /\ work[t] = send_ClusterWork(t)
<1>1. WorkMatches(t)
  BY DEF WorkSafe
<1> QED
  BY <1>1, Kinds, Zenon DEF WorkMatches

\* The messages of an RPC are told apart.
LEMMA WorkMessages ==
  /\ \A t : /\ Broken # send_ClusterWork(t)
            /\ \A r : process_ClusterWork(r) # send_ClusterWork(t)
  /\ Broken # process_ClusterWork(Returned(TRUE))
  /\ process_ClusterWork(Threw) # process_ClusterWork(Returned(TRUE))
<1>1. Threw # Returned(TRUE)
  BY DEF Threw, Returned
<1> QED
  BY <1>1, Kinds, ResultsArrive, Zenon

\* A request picks its node and is sent there.
LEMMA TaskPicksInv ==
  ASSUME IInv, NEW t \in Tasks, TaskPicks(t)
  PROVE  IInv'
<1> USE DEF IInv
<1> DEFINE k == pickNum % Len(m_node_vec)
           n == m_node_vec[k + 1].node
<1>1. /\ Len(m_node_vec) \in Nat \ {0}
      /\ m_node_vec \in [1..Len(m_node_vec) -> Srv!dcnode_t] /\ pickNum \in Nat
  BY NotEmpty, SeqIsFunction DEF TaskPicks, Srv!CollectPick, ServerSafe, Srv!TypeOK
<1>2. k + 1 \in Nat /\ k + 1 \in 1..Len(m_node_vec)
  BY <1>1
<1>3. n \in Nodes
  BY <1>1, <1>2 DEF Srv!dcnode_t
<1>4. /\ Srv!Becomes(t, Srv!Calling(n)) /\ pickNum' = k + 1 /\ task[t].pc = "pick"
      /\ UNCHANGED <<now, m_node_vec, mpc, lCheckTime, wakeAt, nodeVars, srvUp,
                     call, stray, runs, missed, faults>>
  BY DEF TaskPicks, Srv!CollectPick, Srv!NextPick, Srv!monitorVars
<1> HIDE DEF k, n
<1>5. Srv!Calling(n) \in Srv!TaskState /\ Srv!Calling(n).pc = "rpc"
  BY <1>3, States
<1>6. /\ DOMAIN work' = Tasks /\ work'[t] = send_ClusterWork(t)
      /\ \A u \in Tasks \ {t} : work'[u] = work[u]
  BY SetWorkDoes DEF TaskPicks, WorkSafe
<1>7. runs'[t] = 0 /\ runs' \in [Tasks -> Nat]
  BY <1>4 DEF WorkSafe, RunsFit
<1>8. ASSUME task'[t] = Srv!Calling(n)
      PROVE  WorkMatches(t)' /\ RunsFit(t)'
  <2>1. WorkMatches(t)'
    BY <1>5, <1>6, <1>8 DEF WorkMatches
  <2>2. task'[t] # Srv!Idle("DC_NO_ERR") /\ task'[t].pc \notin {"queued", "pick"}
    BY <1>5, <1>8, States
  <2>3. work'[t] # process_ClusterWork(Returned(TRUE))
    BY <1>6, WorkMessages, Zenon
  <2>4. runs'[t] <= 1
    BY <1>7
  <2>5. RunsFit(t)'
    BY <1>7, <2>2, <2>3, <2>4, Zenon DEF RunsFit
  <2> QED
    BY <2>1, <2>5
<1>9. pickNum' \in Nat
  BY <1>2, <1>4, Zenon
<1> QED
  BY <1>4, <1>5, <1>6, <1>7, <1>8, <1>9, RequestStep, TableSame

\* A step of an RPC that the server does not see: t stays in its call.
LEMMA RpcStep ==
  ASSUME IInv, NEW t \in Tasks, NEW c, SetWork(t, c), task[t].pc = "rpc",
         runs' \in [Tasks -> Nat],
         \A u \in Tasks \ {t} : runs'[u] = runs[u],
         UNCHANGED <<now, serverVars, nodeVars, srvUp, call, stray, missed>>,
         faults' \in 0..MaxFaults,
         runs'[t] <= 1,
         \/ c \in {Broken, process_ClusterWork(Threw)}
         \/ c = process_ClusterWork(Returned(TRUE)) /\ runs'[t] = 1
  PROVE  IInv'
<1> USE DEF IInv
<1>1. /\ DOMAIN work' = Tasks /\ work'[t] = c
      /\ \A u \in Tasks \ {t} : work'[u] = work[u]
  BY SetWorkDoes DEF WorkSafe
<1>2. task' = task
  BY DEF serverVars
<1>3. WorkMatches(t)'
  BY <1>1, <1>2 DEF WorkMatches
<1>4. RunsFit(t)'
  <2>1. c # send_ClusterWork(t)
    BY WorkMessages, Zenon
  <2>2. c = process_ClusterWork(Returned(TRUE)) => runs'[t] = 1
    BY WorkMessages, Zenon
  <2>3. task'[t] # Srv!Idle("DC_NO_ERR") /\ task'[t] # Srv!Idle("DC_NO_NODE")
    BY <1>2, States
  <2>4. runs'[t] <= 1
    OBVIOUS
  <2> QED
    BY <1>1, <1>2, <2>1, <2>2, <2>3, <2>4 DEF RunsFit
<1>5. WorkSafe'
  BY <1>1, <1>2, <1>3, <1>4, WorkOfOthers
<1>6. ServerSafe'
  BY ServerSame
<1>7. NodesSafe'
  BY NodesSame DEF NodesSafe
<1>8. Punctual'
  <2>1. NothingNew
    BY DEF serverVars, NothingNew
  <2> QED
    BY <2>1, PunctualSame DEF serverVars, Punctual
<1> QED
  BY <1>5, <1>6, <1>7, <1>8

\* A run is counted for the request it was made for, and no other.
LEMMA RunsOne ==
  ASSUME WorkSafe, NEW t \in Tasks
  PROVE  runs \in [Tasks -> Nat] /\ runs[t] <= 1
BY DEF WorkSafe, RunsFit

\* ClusterWork runs for the request whose call it is, once.
LEMMA Ran ==
  ASSUME WorkSafe, NEW t \in Tasks, Takes(work[t]),
         runs' = [runs EXCEPT ![ClusterWork_args(work[t])] = @ + 1]
  PROVE  /\ runs' \in [Tasks -> Nat] /\ runs'[t] = 1
         /\ \A u \in Tasks \ {t} : runs'[u] = runs[u]
<1>1. work[t] = send_ClusterWork(t)
  BY TakesWork
<1>2. ClusterWork_args(work[t]) = t
  BY <1>1, ArgumentsArrive, Zenon
<1>3. runs[t] = 0 /\ runs \in [Tasks -> Nat]
  BY <1>1 DEF WorkSafe, RunsFit
<1>4. runs' = [runs EXCEPT ![t] = @ + 1]
  BY <1>2, Zenon
<1> QED
  BY <1>3, <1>4

\* A node runs a request and answers.
LEMMA ClusterWorkInv ==
  ASSUME IInv, NEW t \in Tasks, ClusterWork(t)
  PROVE  IInv'
<1> USE DEF IInv
<1>1. task[t].pc = "rpc" /\ work[t] = send_ClusterWork(t)
  BY TakesWork DEF ClusterWork, Reaches
<1>2. SetWork(t, process_ClusterWork(Returned(TRUE)))
  BY <1>1, Dispatched, Zenon DEF ClusterWork
<1>3. /\ runs' \in [Tasks -> Nat] /\ runs'[t] = 1
      /\ \A u \in Tasks \ {t} : runs'[u] = runs[u]
  BY Ran DEF ClusterWork, Reaches
<1>4. runs'[t] <= 1
  BY <1>3
<1> QED
  BY <1>1, <1>2, <1>3, <1>4, RpcStep DEF ClusterWork

\* The handler of a node throws.
LEMMA ClusterWorkThrowsInv ==
  ASSUME IInv, NEW t \in Tasks, ClusterWorkThrows(t)
  PROVE  IInv'
<1> USE DEF IInv
<1>1. task[t].pc = "rpc" /\ work[t] = send_ClusterWork(t)
  BY TakesWork DEF ClusterWorkThrows, Reaches
<1>2. SetWork(t, process_ClusterWork(Threw))
  BY <1>1, Dispatched, Zenon DEF ClusterWorkThrows
<1>3. /\ runs' \in [Tasks -> Nat] /\ runs'[t] <= 1
      /\ \A u \in Tasks \ {t} : runs'[u] = runs[u]
  <2>1. CASE UNCHANGED runs
    BY <2>1, RunsOne
  <2>2. CASE runs' = [runs EXCEPT ![ClusterWork_args(work[t])] = @ + 1]
    <3>1. /\ runs' \in [Tasks -> Nat] /\ runs'[t] = 1
          /\ \A u \in Tasks \ {t} : runs'[u] = runs[u]
      BY <2>2, Ran DEF ClusterWorkThrows, Reaches
    <3> QED
      BY <3>1
  <2> QED
    BY <2>1, <2>2 DEF ClusterWorkThrows
<1>4. faults' \in 0..MaxFaults
  BY FaultCounts DEF ClusterWorkThrows
<1> QED
  BY <1>1, <1>2, <1>3, <1>4, RpcStep DEF ClusterWorkThrows

\* The call comes to nothing: refused, misdirected or lost.
LEMMA WorkFailsInv ==
  ASSUME IInv, NEW t \in Tasks, WorkRefused(t) \/ WorkMisdirected(t) \/ WorkLost(t)
  PROVE  IInv'
<1> USE DEF IInv
<1>1. Takes(work[t]) \/ Answered(work[t])
  BY DEF WorkRefused, WorkMisdirected, WorkLost
<1>2. task[t].pc = "rpc"
  BY <1>1, NoWork, Kinds, Zenon
<1>3. PICK c \in {Broken, process_ClusterWork(Threw)} : SetWork(t, c)
  <2>1. CASE WorkRefused(t) \/ WorkLost(t)
    BY <2>1, Zenon DEF WorkRefused, WorkLost
  <2>2. CASE WorkMisdirected(t)
    <3>1. work[t] = send_ClusterWork(t)
      BY <2>2, TakesWork DEF WorkMisdirected
    <3> QED
      BY <2>2, <3>1, Dispatched, Zenon DEF WorkMisdirected
  <2> QED
    BY <2>1, <2>2
<1>4. UNCHANGED <<now, serverVars, nodeVars, srvUp, call, stray, missed, runs>>
  BY DEF WorkRefused, WorkMisdirected, WorkLost
<1>5. faults' \in 0..MaxFaults
  BY FaultCounts DEF WorkRefused, WorkMisdirected, WorkLost
<1>6. runs' \in [Tasks -> Nat] /\ runs'[t] <= 1
  BY <1>4, RunsOne
<1> QED
  BY <1>2, <1>3, <1>4, <1>5, <1>6, RpcStep

\* ClusterWorkProc says true only if a node answered true.
LEMMA TrueMeansRan ==
  ASSUME WorkSafe, NEW t \in Tasks, Answered(work[t]),
         recv_ClusterWork(work[t]) = Returned(TRUE)
  PROVE  runs[t] = 1
<1>1. task[t].pc = "rpc"
  BY NoWork, Kinds, Zenon
<1>2. WorkMatches(t) /\ RunsFit(t)
  BY DEF WorkSafe
<1>3. Threw # Returned(TRUE)
  BY DEF Threw, Returned
<1>4. work[t] = process_ClusterWork(Returned(TRUE))
  BY <1>1, <1>2, <1>3, Kinds, ResultsArrive, Zenon DEF WorkMatches
<1> QED
  BY <1>2, <1>4, Zenon DEF RunsFit

\* The pool thread of a request gets the result of its call.
LEMMA WorkReturnsInv ==
  ASSUME IInv, NEW t \in Tasks, WorkReturns(t)
  PROVE  IInv'
<1> USE DEF IInv
<1>1. PICK b \in BOOLEAN : Srv!CollectReturn(t, b) /\ (b => runs[t] = 1)
  <2>1. CASE Srv!CollectReturn(t, FALSE)
    BY <2>1
  <2>2. ASSUME Answered(work[t]),
               Srv!CollectReturn(t, recv_ClusterWork(work[t]) = Returned(TRUE))
        PROVE  \E b \in BOOLEAN : Srv!CollectReturn(t, b) /\ (b => runs[t] = 1)
    <3> DEFINE b == (recv_ClusterWork(work[t]) = Returned(TRUE))
    <3>1. b \in BOOLEAN /\ (b => runs[t] = 1)
      BY <2>2, TrueMeansRan
    <3> HIDE DEF b
    <3>2. Srv!CollectReturn(t, b)
      BY <2>2 DEF b
    <3> QED
      BY <3>1, <3>2
  <2> QED
    BY <2>1, <2>2 DEF WorkReturns
<1>2. task[t].pc = "rpc" /\ task[t].node \in Nodes \cup {NoNode}
  BY <1>1 DEF Srv!CollectReturn, ServerSafe, Srv!TypeOK, Srv!TaskState
<1>3. \E ts \in {Srv!Idle("DC_NO_ERR"), Srv!Dropped, Srv!Blaming(task[t].node)} :
         Srv!Becomes(t, ts) /\ (ts = Srv!Idle("DC_NO_ERR") => runs[t] = 1)
  <2>1. CASE b
    BY <1>1, <2>1 DEF Srv!CollectReturn, Srv!SendReply
  <2>2. CASE ~b
    <3>1. Srv!Becomes(t, Srv!Blaming(task[t].node))
      BY <1>1, <2>2, Zenon DEF Srv!CollectReturn
    <3>2. Srv!Blaming(task[t].node) # Srv!Idle("DC_NO_ERR")
      BY <1>2, States
    <3> QED
      BY <3>1, <3>2
  <2> QED
    BY <2>1, <2>2
<1>4. PICK ts \in {Srv!Idle("DC_NO_ERR"), Srv!Dropped, Srv!Blaming(task[t].node)} :
         Srv!Becomes(t, ts) /\ (ts = Srv!Idle("DC_NO_ERR") => runs[t] = 1)
  BY <1>3
<1>5. /\ ts \in Srv!TaskState /\ ts.pc \in {"idle", "dropped", "erase"}
      /\ ts # Srv!Idle("DC_NO_NODE")
  <2>1. CASE ts = Srv!Idle("DC_NO_ERR")
    BY <2>1, States DEF Srv!DC_HTTP_REPLY
  <2>2. CASE ts = Srv!Dropped
    BY <2>2, States
  <2>3. CASE ts = Srv!Blaming(task[t].node)
    BY <1>2, <2>3, States
  <2> QED
    BY <1>4, <2>1, <2>2, <2>3
<1>6. UNCHANGED <<now, m_node_vec, pickNum, mpc, lCheckTime, wakeAt, nodeVars, srvUp,
                  call, stray, runs, missed, faults>>
  BY <1>1 DEF WorkReturns, Srv!CollectReturn, Srv!tableVars, Srv!monitorVars
<1>7. /\ DOMAIN work' = Tasks /\ work'[t] = NoMsg
      /\ \A u \in Tasks \ {t} : work'[u] = work[u]
  BY SetWorkDoes DEF WorkReturns, WorkSafe
<1>8. ASSUME task'[t] = ts
      PROVE  WorkMatches(t)' /\ RunsFit(t)'
  <2>1. WorkMatches(t)'
    BY <1>5, <1>7, <1>8 DEF WorkMatches
  <2>2. work'[t] # send_ClusterWork(t) /\ work'[t] # process_ClusterWork(Returned(TRUE))
    BY <1>7, NoMsgIsNone, Zenon
  <2>3. runs'[t] <= 1 /\ ts.pc \notin {"queued", "pick"}
    BY <1>5, <1>6, RunsOne
  <2>4. RunsFit(t)'
    BY <1>4, <1>5, <1>6, <1>8, <2>2, <2>3, Zenon DEF RunsFit
  <2> QED
    BY <2>1, <2>4
<1>9. pickNum' \in Nat /\ runs' \in [Tasks -> Nat]
  BY <1>6, RunsOne DEF ServerSafe, Srv!TypeOK
<1> QED
  BY <1>4, <1>5, <1>6, <1>7, <1>8, <1>9, RequestStep, TableSame

-----------------------------------------------------------------------------
(* The server's crashes and starts, the monitor and time *)

\* The server crashes: its table, its requests and its connections go.
LEMMA ServerCrashesInv ==
  ASSUME IInv, ServerCrashes
  PROVE  IInv'
<1>0. /\ m_node_vec' = <<>> /\ pickNum' = 0 /\ mpc' = "wait" /\ lCheckTime' = 0
      /\ wakeAt' = now /\ task' = [t \in Tasks |-> Srv!Idle("none")]
      /\ stray' = {} /\ srvUp' = FALSE
      /\ UNCHANGED <<now, npc, m_bregister_ok, nwake, serving, missed>>
  BY DEF ServerCrashes, nodeVars
<1>1. ServerSafe'
  <2>1. now \in Nat
    BY DEF IInv, ServerSafe, Srv!TypeOK
  <2>2. <<>> \in Seq(Srv!dcnode_t) /\ DOMAIN m_node_vec' = {}
    BY ONLY <1>0
  <2>3. task' \in [Tasks -> Srv!TaskState]
    BY <1>0, States
  <2>4. Srv!TypeOK'
    BY <1>0, <2>1, <2>2, <2>3 DEF Srv!TypeOK
  <2>5. Srv!NoDuplicateNode'
    BY <2>2 DEF Srv!NoDuplicateNode
  <2> QED
    BY <2>4, <2>5 DEF ServerSafe
<1>2. /\ DOMAIN call' = Nodes
      /\ \A n \in Nodes : call'[n] = call[n] \/ (Takes(call[n]) /\ call'[n] = Broken)
  BY DEF ServerCrashes
<1>3. NodesSafe'
  <2>1. ASSUME NEW n \in Nodes
        PROVE  CallMatches(n)'
    <3>1. CASE call'[n] = call[n]
      <4>1. CallMatches(n)
        BY DEF IInv, NodesSafe
      <4> QED
        BY <1>0, <3>1, <4>1 DEF CallMatches
    <3>2. CASE Takes(call[n]) /\ call'[n] = Broken
      <4>1. npc[n] \in {"register", "heartbeat"}
        BY <3>2, TakesCall DEF IInv
      <4> QED
        BY <1>0, <3>2, <4>1 DEF CallMatches
    <3> QED
      BY <1>2, <3>1, <3>2
  <2> QED
    BY <1>0, <1>2, <2>1 DEF IInv, NodesSafe, Nod!NodeTypeOK
<1>4. WorkSafe'
  <2>1. /\ DOMAIN work' = Tasks /\ runs' \in [Tasks -> Nat]
        /\ \A t \in Tasks : work'[t] = NoMsg /\ runs'[t] = 0 /\ task'[t] = Srv!Idle("none")
    BY DEF ServerCrashes
  <2>2. Srv!Idle("none").pc = "idle" /\ Srv!Idle("none") # Srv!Idle("DC_NO_ERR")
    BY IdleState
  <2>3. ASSUME NEW t \in Tasks
        PROVE  WorkMatches(t)' /\ RunsFit(t)'
    <3>1. WorkMatches(t)'
      BY <2>1, <2>2 DEF WorkMatches
    <3>2. work'[t] # send_ClusterWork(t) /\ work'[t] # process_ClusterWork(Returned(TRUE))
      BY <2>1, NoMsgIsNone, Zenon
    <3>3. runs'[t] <= 1
      BY <2>1
    <3>4. RunsFit(t)'
      BY <2>1, <2>2, <3>2, <3>3, Zenon DEF RunsFit
    <3> QED
      BY <3>1, <3>4
  <2> QED
    BY <2>1, <2>3 DEF WorkSafe
<1>5. Punctual'
  <2>1. ASSUME NEW n \in Nodes
        PROVE  InTime(n)'
    <3>1. OldOrFresh(n) /\ ~HeardOf(n)'
      <4>1. DOMAIN m_node_vec' = {} /\ stray' = {}
        BY ONLY <1>0
      <4> QED
        BY <4>1 DEF OldOrFresh, HeardOf, Srv!Registered
    <3>2. Answered(call'[n]) => Answered(call[n])
      BY <1>2, Kinds, Zenon
    <3>3. InTime(n) /\ npc'[n] = npc[n] /\ nwake'[n] = nwake[n] /\ missed' = missed
      BY <1>0 DEF IInv, Punctual
    <3> QED
      BY <3>1, <3>2, <3>3, InTimeKept DEF IInv
  <2>2. 0 <= Window
    BY ClusterAssumption
  <2> QED
    BY <1>0, <2>1, <2>2 DEF IInv, Punctual
<1> QED
  BY <1>1, <1>3, <1>4, <1>5, FaultCounts DEF IInv, ServerCrashes

\* The server starts with an empty table.
LEMMA ServerStartsInv ==
  ASSUME IInv, ServerStarts
  PROVE  IInv'
<1> USE DEF IInv
<1>1. ServerSafe'
  BY DEF ServerStarts, ServerSafe, Srv!TypeOK, Srv!NoDuplicateNode
<1>2. NodesSafe'
  BY DEF ServerStarts, NodesSafe, nodeVars, netVars, Nod!NodeTypeOK, CallMatches
<1>3. WorkSafe'
  BY WorkSame DEF ServerStarts, netVars
<1>4. NothingNew
  BY DEF ServerStarts, NothingNew
<1>5. Punctual'
  BY <1>4, PunctualSame DEF ServerStarts, netVars, Punctual
<1> QED
  BY <1>1, <1>2, <1>3, <1>5 DEF ServerStarts

\* What the monitor erases is silent.
LEMMA SweepStep ==
  ASSUME IInv, Srv!MonitorSweep
  PROVE  /\ m_node_vec' \in Seq(Srv!dcnode_t) /\ Srv!NoDuplicateNode' /\ NothingNew
         /\ \A i \in DOMAIN m_node_vec :
              ~Srv!Silent(i) => m_node_vec[i].node \in Srv!Registered'
<1>1. /\ Srv!SweepKeeps \in SUBSET (DOMAIN m_node_vec)
      /\ m_node_vec' \in Srv!Keep(m_node_vec, Srv!SweepKeeps)
  BY DEF Srv!MonitorSweep, Srv!SweepKeeps
<1>2. /\ m_node_vec' \in Seq(Srv!dcnode_t) /\ Srv!NoDuplicateNode' /\ NothingNew
      /\ \A k \in Srv!SweepKeeps : m_node_vec[k].node \in Srv!Registered'
  BY <1>1, EraseStep DEF IInv, ServerSafe
<1> QED
  BY <1>2 DEF Srv!SweepKeeps

\* The monitor reads the time, or sweeps.
LEMMA MonitorInv ==
  ASSUME IInv, Monitor
  PROVE  IInv'
<1> USE ClusterAssumption DEF IInv
<1>1. UNCHANGED <<now, pickNum, task, nodeVars, srvUp, netVars, faults>>
  BY DEF Monitor, Srv!MonitorCheckTime, Srv!MonitorSweep, Srv!tableVars
<1>2. m_node_vec' \in Seq(Srv!dcnode_t) /\ Srv!NoDuplicateNode' /\ NothingNew
  <2>1. CASE Srv!MonitorCheckTime
    BY <2>1, TableSame DEF Srv!MonitorCheckTime, Srv!tableVars
  <2>2. CASE Srv!MonitorSweep
    BY <2>2, SweepStep
  <2> QED
    BY <2>1, <2>2 DEF Monitor
<1>3. /\ mpc' \in {"wait", "sweep"} /\ lCheckTime' \in Nat /\ wakeAt' \in Nat
      /\ lCheckTime' <= Window
  BY DEF Monitor, Srv!MonitorCheckTime, Srv!MonitorSweep, ServerSafe, Srv!TypeOK, Punctual
<1>4. ServerSafe'
  BY <1>1, <1>2, <1>3 DEF ServerSafe, Srv!TypeOK
<1>5. NodesSafe'
  BY <1>1, NodesSame DEF netVars, NodesSafe
<1>6. WorkSafe'
  BY <1>1, WorkSame DEF netVars
<1>7. Punctual'
  BY <1>1, <1>2, <1>3, PunctualSame DEF netVars
<1> QED
  BY <1>1, <1>4, <1>5, <1>6, <1>7

\* A tick lets every stored time fall behind by one, the due times included.
LEMMA TickInv ==
  ASSUME IInv, Tick
  PROVE  IInv'
<1> USE ClusterAssumption DEF IInv
<1>1. \A x \in Nat : Earlier(x) \in Nat /\ Earlier(x) <= x /\ Earlier(x) >= x - 1
  BY DEF Earlier
<1>2. /\ m_node_vec \in [1..Len(m_node_vec) -> Srv!dcnode_t] /\ Len(m_node_vec) \in Nat
      /\ now \in Nat /\ lCheckTime \in Nat /\ wakeAt \in Nat
  BY SeqIsFunction DEF ServerSafe, Srv!TypeOK
<1>3. /\ DOMAIN m_node_vec' = DOMAIN m_node_vec
      /\ \A i \in DOMAIN m_node_vec :
           /\ m_node_vec[i].lHeartBeatTime \in Nat
           /\ m_node_vec'[i].node = m_node_vec[i].node
           /\ m_node_vec'[i].lHeartBeatTime = Earlier(m_node_vec[i].lHeartBeatTime)
           /\ m_node_vec'[i] \in Srv!dcnode_t
  BY <1>1, <1>2 DEF Tick, Srv!dcnode_t
<1>4. ServerSafe'
  <2>1. m_node_vec' \in Seq(Srv!dcnode_t)
    <3>1. m_node_vec' \in [1..Len(m_node_vec) -> Srv!dcnode_t]
      BY <1>2, <1>3 DEF Tick
    <3> QED
      BY <1>2, <3>1, FunctionIsSeq
  <2>2. Srv!TypeOK'
    BY <1>1, <1>2, <2>1 DEF Tick, ServerSafe, Srv!TypeOK
  <2>3. Srv!NoDuplicateNode'
    BY <1>3 DEF ServerSafe, Srv!NoDuplicateNode
  <2> QED
    BY <2>2, <2>3 DEF ServerSafe
<1>5. nwake \in [Nodes -> Nat] /\ \A n \in Nodes : nwake'[n] = Earlier(nwake[n])
  BY DEF Tick, NodesSafe, Nod!NodeTypeOK
<1>6. NodesSafe'
  <2>1. nwake' \in [Nodes -> Nat]
    BY <1>1, <1>5 DEF Tick
  <2>2. Nod!NodeTypeOK'
    BY <2>1 DEF Tick, NodesSafe, Nod!NodeTypeOK
  <2> QED
    BY <2>2 DEF Tick, NodesSafe, netVars, CallMatches
<1>7. WorkSafe'
  BY WorkSame DEF Tick, netVars
<1>8. ASSUME NEW n \in Nodes
      PROVE  InTime(n)'
  <2>1. InTime(n) /\ now = Window /\ nwake[n] \in Nat
    BY <1>5 DEF Punctual
  <2>2. /\ npc'[n] = npc[n] /\ call'[n] = call[n] /\ missed' = missed /\ stray' = stray
        /\ nwake'[n] \in Nat /\ nwake'[n] <= nwake[n]
        /\ nwake[n] > 0 => nwake'[n] = nwake[n] - 1
    BY <1>5, <2>1 DEF Tick, netVars, Earlier
  <2>3. Nod!Beats(n)' <=> Nod!Beats(n)
    BY <2>2 DEF Nod!Beats
  <2>4. nwake[n] <= Window + HB_WAIT
    BY <2>1, Zenon DEF InTime
  <2>5. nwake'[n] <= Window + HB_WAIT
    BY <2>1, <2>2, <2>4
  <2>6. HeardOf(n)' <=> HeardOf(n)
    <3>1. Srv!Registered' = Srv!Registered
      BY <1>3 DEF Srv!Registered
    <3> QED
      BY <2>2, <3>1 DEF HeardOf
  <2>7. CASE ~Nod!Beats(n)
    <3>1. npc[n] # "wait"
      BY <2>7 DEF Nod!Beats, Nod!Threadless
    <3> QED
      BY <2>1, <2>2, <2>3, <2>6, <2>7, <2>5, <3>1, Zenon DEF InTime
  <2>8. CASE Nod!Beats(n)
    <3>1. npc[n] = "wait" /\ Window < nwake[n]
      BY <2>1, <2>8 DEF Tick
    <3>2. nwake'[n] = nwake[n] - 1 /\ Window <= nwake'[n]
      <4>1. \A w, old, new \in Nat :
              w < old /\ (old > 0 => new = old - 1) => new = old - 1 /\ w <= new
        OBVIOUS
      <4>2. Window \in Nat
        BY Zenon
      <4> QED
        BY <2>1, <2>2, <3>1, <4>1, <4>2, Zenon
    <3>3. ~Answered(call'[n])
      <4>1. call[n] = NoMsg
        BY <3>1 DEF NodesSafe, CallMatches
      <4> QED
        BY <2>2, <4>1, Kinds, Zenon
    <3>4. ASSUME n \notin missed, NEW i \in DOMAIN m_node_vec, m_node_vec[i].node = n
          PROVE  m_node_vec'[i].lHeartBeatTime + HB_WAIT >= nwake'[n]
      <4>1. m_node_vec[i].lHeartBeatTime + HB_WAIT >= nwake[n]
        BY <2>1, <2>8, <3>1, <3>4 DEF InTime
      <4>2. /\ m_node_vec[i].lHeartBeatTime \in Nat /\ m_node_vec'[i].lHeartBeatTime \in Nat
            /\ m_node_vec'[i].lHeartBeatTime >= m_node_vec[i].lHeartBeatTime - 1
        BY ONLY <1>1, <1>3, <3>4
      <4>3. HB_WAIT \in Nat
        BY ClusterAssumption
      <4> QED
        BY ONLY <2>1, <3>2, <4>1, <4>2, <4>3
    <3> QED
      BY <1>3, <2>2, <2>3, <2>8, <2>5, <3>1, <3>2, <3>3, <3>4 DEF InTime
  <2> QED
    BY <2>7, <2>8
<1>9. now' = Window /\ lCheckTime' <= Window
  <2>1. now' = now /\ lCheckTime' = Earlier(lCheckTime)
    BY DEF Tick
  <2>2. now = Window /\ lCheckTime <= Window
    BY DEF Punctual
  <2>3. Window \in Nat
    BY ClusterAssumption
  <2> QED
    BY ONLY <1>1, <1>2, <2>1, <2>2, <2>3
<1> QED
  BY <1>4, <1>6, <1>7, <1>8, <1>9 DEF Tick, Punctual

-----------------------------------------------------------------------------
(* The invariant holds *)

\* Nothing is registered, running or under way.
LEMMA InitInv == Init => IInv
<1> USE ClusterAssumption DEF IInv
<1> SUFFICES ASSUME Init PROVE IInv
  OBVIOUS
<1>1. ServerSafe
  <2>1. Srv!Idle("none") \in Srv!TaskState
    BY States
  <2>2. /\ now = Window /\ m_node_vec = <<>> /\ pickNum = 0
        /\ mpc = "wait" /\ lCheckTime = 0 /\ wakeAt = now
        /\ task = [t \in Tasks |-> Srv!Idle("none")]
    BY DEF Init, Srv!InitServer
  <2>3. m_node_vec \in Seq(Srv!dcnode_t) /\ DOMAIN m_node_vec = {}
    BY ONLY <2>2
  <2>4. Window \in Nat
    BY ClusterAssumption
  <2>5. Srv!TypeOK
    BY ONLY <2>1, <2>2, <2>3, <2>4 DEF Srv!TypeOK
  <2>6. Srv!NoDuplicateNode
    BY ONLY <2>3 DEF Srv!NoDuplicateNode
  <2> QED
    BY <2>5, <2>6 DEF ServerSafe
<1>2. NodesSafe
  <2>1. Nod!NodeTypeOK
    BY DEF Init, Nod!InitNodes, Nod!NodeTypeOK, Nod!Threadless
  <2>2. DOMAIN call = Nodes /\ \A n \in Nodes : CallMatches(n)
    BY DEF Init, CallMatches
  <2> QED
    BY <2>1, <2>2 DEF Init, NodesSafe
<1>3. WorkSafe
  <2>1. ASSUME NEW t \in Tasks
        PROVE  WorkMatches(t) /\ RunsFit(t)
    <3>1. work[t] = NoMsg /\ runs[t] = 0 /\ task[t] = Srv!Idle("none")
      BY DEF Init, Srv!InitServer
    <3>2. Srv!Idle("none").pc = "idle" /\ Srv!Idle("none") # Srv!Idle("DC_NO_ERR")
      BY IdleState
    <3>3. WorkMatches(t)
      BY <3>1, <3>2 DEF WorkMatches
    <3>4. work[t] # send_ClusterWork(t) /\ work[t] # process_ClusterWork(Returned(TRUE))
      BY <3>1, NoMsgIsNone, Zenon
    <3>5. runs[t] <= 1
      BY <3>1
    <3>6. RunsFit(t)
      BY <3>1, <3>2, <3>4, <3>5, Zenon DEF RunsFit
    <3> QED
      BY <3>3, <3>6
  <2> QED
    BY <2>1 DEF Init, WorkSafe
<1>4. Punctual
  <2>1. /\ now = Window /\ lCheckTime = 0 /\ m_node_vec = <<>> /\ stray = {}
        /\ \A n \in Nodes : npc[n] = "down" /\ nwake[n] = 0
    BY DEF Init, Srv!InitServer, Nod!InitNodes
  <2>2. ASSUME NEW n \in Nodes
        PROVE  InTime(n)
    <3>1. ~HeardOf(n)
      BY <2>1 DEF HeardOf, Srv!Registered
    <3>2. ~Nod!Beats(n)
      BY <2>1 DEF Nod!Beats, Nod!Threadless
    <3>3. 0 <= Window + HB_WAIT
      BY ClusterAssumption
    <3> QED
      BY <2>1, <3>1, <3>2, <3>3 DEF InTime
  <2>3. 0 <= Window
    BY ClusterAssumption
  <2> QED
    BY <2>1, <2>2, <2>3 DEF Punctual
<1> QED
  BY <1>1, <1>2, <1>3, <1>4 DEF Init

\* Every step keeps the invariant: one case for each action.
LEMMA NextInv == IInv /\ [Next]_vars => IInv'
<1> SUFFICES ASSUME IInv, [Next]_vars PROVE IInv'
  OBVIOUS
<1>1. ASSUME NEW n \in Nodes, CallOut(n) PROVE IInv'
  BY <1>1, CallOutInv
<1>2. ASSUME NEW n \in Nodes, HandleRegist(n) PROVE IInv'
  BY <1>2, HandleRegistInv
<1>3. ASSUME NEW n \in Nodes, HandleHeartBeat(n) PROVE IInv'
  BY <1>3, HandleHeartBeatInv
<1>4. ASSUME NEW n \in Nodes, HandlerThrows(n) PROVE IInv'
  BY <1>4, HandlerThrowsInv
<1>5. ASSUME NEW n \in Nodes, CallBack(n) PROVE IInv'
  BY <1>5, CallBackInv
<1>6. ASSUME NEW n \in Nodes, CallFails(n) PROVE IInv'
  <2>1. CallThrows(n) /\ faults' \in 0..MaxFaults
    BY <1>6 DEF CallFails, IInv
  <2> QED
    BY <2>1, CallThrowsInv
<1>7. ASSUME NEW n \in Nodes, CallLost(n) PROVE IInv'
  <2>1. CallThrows(n) /\ faults' \in 0..MaxFaults
    BY <1>7, FaultCounts DEF CallLost, IInv
  <2> QED
    BY <2>1, CallThrowsInv
<1>8. ASSUME NEW n \in Nodes, NodeStarts(n) \/ NodeStartFails(n) \/ NodeWakes(n)
      PROVE  IInv'
  BY <1>8, NodeStartsInv
<1>9. ASSUME NEW n \in Nodes, NodeCrashes(n) PROVE IInv'
  BY <1>9, NodeCrashesInv
<1>10. ASSUME NEW m \in stray, HandleStray(m) PROVE IInv'
  BY <1>10, HandleStrayInv
<1>11. ASSUME NEW t \in Tasks, TaskArrives(t) PROVE IInv'
  BY <1>11, TaskArrivesInv
<1>12. ASSUME NEW t \in Tasks, TaskLocal(t) PROVE IInv'
  BY <1>12, TaskLocalInv
<1>13. ASSUME NEW t \in Tasks, TaskPicks(t) PROVE IInv'
  BY <1>13, TaskPicksInv
<1>14. ASSUME NEW t \in Tasks, ClusterWork(t) PROVE IInv'
  BY <1>14, ClusterWorkInv
<1>15. ASSUME NEW t \in Tasks, ClusterWorkThrows(t) PROVE IInv'
  BY <1>15, ClusterWorkThrowsInv
<1>16. ASSUME NEW t \in Tasks, WorkRefused(t) \/ WorkMisdirected(t) \/ WorkLost(t)
       PROVE  IInv'
  BY <1>16, WorkFailsInv
<1>17. ASSUME NEW t \in Tasks, WorkReturns(t) PROVE IInv'
  BY <1>17, WorkReturnsInv
<1>18. CASE ServerCrashes
  BY <1>18, ServerCrashesInv
<1>19. CASE ServerStarts
  BY <1>19, ServerStartsInv
<1>20. CASE Monitor
  BY <1>20, MonitorInv
<1>21. CASE Tick
  BY <1>21, TickInv
<1>22. CASE UNCHANGED vars
  <2>1. UNCHANGED <<now, serverVars, nodeVars, srvUp, netVars, faults>>
    BY <1>22 DEF vars
  <2>2. ServerSafe' /\ WorkSafe' /\ NodesSafe'
    BY <2>1, ServerSame, WorkSame, NodesSame DEF IInv, serverVars, netVars, NodesSafe
  <2>3. NothingNew
    BY <2>1, TableSame DEF IInv, serverVars
  <2>4. Punctual'
    BY <2>1, <2>3, PunctualSame DEF IInv, serverVars, netVars, Punctual
  <2> QED
    BY <2>1, <2>2, <2>4 DEF IInv
<1> QED
  BY <1>1, <1>2, <1>3, <1>4, <1>5, <1>6, <1>7, <1>8, <1>9, <1>10, <1>11, <1>12, <1>13,
     <1>14, <1>15, <1>16, <1>17, <1>18, <1>19, <1>20, <1>21, <1>22, Zenon DEF Next

\* The invariant holds in every state.
LEMMA AlwaysIInv == Spec => []IInv
BY InitInv, NextInv, PTL DEF Spec

-----------------------------------------------------------------------------
(* The theorems *)

\* Every message on a connection belongs to the call its caller is in, however
\* handlers, faults, crashes and restarts interleave.
THEOREM ClusterTypeCorrect == Spec => []TypeOK
<1>1. IInv => TypeOK
  BY DEF IInv, ServerSafe, NodesSafe, WorkSafe, TypeOK
<1> QED
  BY <1>1, AlwaysIInv, PTL

\* RegisterWork finds a node that is there: one entry for each node, also when
\* a registration is repeated by a restarted node or handled late.
THEOREM ClusterOneEntry == Spec => []NoDuplicateNode
<1>1. IInv => NoDuplicateNode
  BY DEF IInv, ServerSafe, NoDuplicateNode
<1> QED
  BY <1>1, AlwaysIInv, PTL

\* No request runs twice, "200 OK" means that a node ran it, and a request
\* turned away for want of a node did not run.
THEOREM ClusterRepliesMatch == Spec => []ReplyMatchesWork
<1>1. IInv => ReplyMatchesWork
  BY DEF IInv, WorkSafe, RunsFit, ReplyMatchesWork
<1> QED
  BY <1>1, AlwaysIInv, PTL

\* No recv_* ever skips a message and waits for one that does not come.
THEOREM ClusterAnswersFit == Spec => []AnswersFit
<1>1. /\ \A v : Returned(v) # ReadsOn
      /\ Threw # ReadsOn
  <2>1. \A v : Returned(v).kind = "returned"
    BY DEF Returned
  <2>2. Threw.kind = "threw" /\ ReadsOn.kind = "readsOn"
    BY DEF Threw, ReadsOn
  <2>3. "returned" # "readsOn" /\ "threw" # "readsOn"
    OBVIOUS
  <2> QED
    BY <2>1, <2>2, <2>3, Zenon
<1>2. ASSUME IInv, NEW n \in Nodes, Answered(call[n])
      PROVE  /\ npc[n] = "register" => recv_registClient(call[n]) # ReadsOn
             /\ npc[n] = "heartbeat" => recv_heartbeat(call[n]) # ReadsOn
  <2>1. CallMatches(n)
    BY <1>2 DEF IInv, NodesSafe
  <2>2. "register" # "heartbeat"
    OBVIOUS
  <2>3. npc[n] = "register" => \E r \in {Threw, Returned("SUCCESS")} : call[n] = process_registClient(r)
    BY <1>2, <2>1, <2>2, Kinds, Zenon DEF CallMatches
  <2>4. npc[n] = "heartbeat" =>
          \/ call[n] = process_heartbeat(Threw)
          \/ \E b \in BOOLEAN : call[n] = process_heartbeat(Returned(b))
    BY <1>2, <2>1, <2>2, Kinds, Zenon DEF CallMatches
  <2> QED
    BY <1>1, <2>3, <2>4, ResultsArrive, Zenon
<1>3. ASSUME IInv, NEW t \in Tasks, Answered(work[t])
      PROVE  recv_ClusterWork(work[t]) # ReadsOn
  <2>1. WorkMatches(t)
    BY <1>3 DEF IInv, WorkSafe
  <2>2. work[t] = process_ClusterWork(Threw) \/ work[t] = process_ClusterWork(Returned(TRUE))
    BY <1>3, <2>1, Kinds, Zenon DEF WorkMatches
  <2> QED
    BY <1>1, <2>2, ResultsArrive, Zenon
<1>4. IInv => AnswersFit
  BY <1>2, <1>3, Zenon DEF AnswersFit
<1> QED
  BY <1>4, AlwaysIInv, PTL

\* A handler sees the address its caller wrote, also next to a field it does
\* not know.
THEOREM ClusterAddressSurvives == Spec => []AddressSurvives
<1>1. \A f \in ForeignFields : Foreign(f)
  BY ForeignKinds, Zenon DEF ForeignFields
<1>2. ASSUME NEW n, NEW f, Foreign(f)
      PROVE  LET body == InfoWrite(Address(n))
             IN  /\ InfoRead(body) = Address(n)
                 /\ InfoRead(<<f>> \o body) = Address(n)
                 /\ InfoRead(body \o <<f>>) = Address(n)
  <2>1. FALSE \in BOOLEAN /\ "" = ""
    OBVIOUS
  <2> QED
    BY <1>2, <2>1, InfoSurvives, Zenon DEF Address
<1>3. ASSUME NEW n, NEW m, IsCallOf(m, n)
      PROVE  ReadField(m.body, 1, "T_STRUCT", <<>>) = InfoWrite(Address(n))
  <2>1. m.body = One(1, "T_STRUCT", InfoWrite(Address(n)))
    BY <1>3 DEF IsCallOf, send_registClient, send_heartbeat, Message, One,
                ClientInfoWrite, HeartBeatInfoWrite
  <2>2. \A v : ReadField(One(1, "T_STRUCT", v), 1, "T_STRUCT", <<>>) = v
    <3>1. \A v : ReadsAs(One(1, "T_STRUCT", v), 1, "T_STRUCT", v)
      BY ReadOnly, Zenon
    <3> QED
      BY <3>1, Zenon DEF ReadsAs
  <2> QED
    BY <2>1, <2>2, Zenon
<1>4. ASSUME IInv, NEW n \in Nodes, Takes(call[n]),
             NEW body, body = ReadField(call[n].body, 1, "T_STRUCT", <<>>)
      PROVE  /\ InfoRead(body) = Address(n)
             /\ \A f \in ForeignFields :
                  InfoRead(<<f>> \o body) = Address(n) /\ InfoRead(body \o <<f>>) = Address(n)
  <2>1. body = InfoWrite(Address(n))
    BY <1>3, <1>4, TakesCall, Zenon DEF IInv
  <2>2. ForeignFields # {}
    BY DEF ForeignFields
  <2> QED
    BY <1>1, <1>2, <2>1, <2>2, Zenon
<1>5. IInv => AddressSurvives
  BY <1>4, Zenon DEF AddressSurvives
<1> QED
  BY <1>5, AlwaysIInv, PTL

\* The monitor never drops a running node whose last attempt to reach the
\* server got through, for any times with HB_WAIT <= HB_TIMEOUT.
THEOREM ClusterNoFalseDrop == Spec => NoFalseDrop
<1> USE ClusterAssumption
<1>1. ASSUME IInv, Monitor, NEW n \in Srv!Registered \ Srv!Registered',
             Nod!Beats(n), n \notin missed
      PROVE  FALSE
  <2>1. PICK i \in DOMAIN m_node_vec : m_node_vec[i].node = n
    BY <1>1 DEF Srv!Registered
  <2>2. n \in Nodes /\ m_node_vec[i].lHeartBeatTime \in Nat /\ lCheckTime \in Nat
    <3>1. m_node_vec \in Seq(Srv!dcnode_t) /\ lCheckTime \in Nat
      BY <1>1 DEF IInv, ServerSafe, Srv!TypeOK
    <3>2. m_node_vec[i] \in Srv!dcnode_t
      BY <2>1, <3>1
    <3> QED
      BY <2>1, <3>1, <3>2 DEF Srv!dcnode_t
  <2>3. InTime(n) /\ lCheckTime <= Window /\ nwake[n] \in Nat
    BY <1>1, <2>2 DEF IInv, Punctual, NodesSafe, Nod!NodeTypeOK
  <2>4. m_node_vec[i].lHeartBeatTime + HB_WAIT >= Window
    <3>1. /\ npc[n] = "wait" =>
               m_node_vec[i].lHeartBeatTime + HB_WAIT >= nwake[n] /\ Window <= nwake[n]
          /\ npc[n] # "wait" => m_node_vec[i].lHeartBeatTime + HB_WAIT >= Window
      BY <1>1, <2>1, <2>2, <2>3 DEF InTime
    <3> QED
      BY ONLY <2>2, <2>3, <3>1, ClusterAssumption
  <2>5. ~Srv!Silent(i)
    <3>1. HB_WAIT <= HB_TIMEOUT /\ HB_WAIT \in Nat /\ HB_TIMEOUT \in Nat /\ Window \in Nat
      BY ClusterAssumption
    <3>2. lCheckTime - m_node_vec[i].lHeartBeatTime <= HB_TIMEOUT
      BY ONLY <2>2, <2>3, <2>4, <3>1
    <3> QED
      BY ONLY <2>2, <3>1, <3>2 DEF Srv!Silent
  <2>6. CASE Srv!MonitorCheckTime
    BY <1>1, <2>6 DEF Srv!MonitorCheckTime, Srv!tableVars, Srv!Registered
  <2>7. CASE Srv!MonitorSweep
    BY <1>1, <2>1, <2>5, <2>7, SweepStep
  <2> QED
    BY <1>1, <2>6, <2>7 DEF Monitor
<1>2. IInv => (Monitor => \A n \in Srv!Registered \ Srv!Registered' :
                            ~Nod!Beats(n) \/ n \in missed)
  BY <1>1, Zenon
<1> QED
  BY <1>2, AlwaysIInv, PTL DEF NoFalseDrop
-----------------------------------------------------------------------------
(* Why a node leaves the table *)

\* Without a fault the server runs, every attempt to reach it got through and
\* no connection broke.
Unharmed ==
  faults = 0 => srvUp /\ missed = {} /\ \A n \in Nodes : call[n] # Broken

\* No message of a call or an answer is the broken connection.
LEMMA NotBroken ==
  /\ NoMsg # Broken
  /\ \A x : send_registClient(x) # Broken /\ send_heartbeat(x) # Broken
  /\ \A r : process_registClient(r) # Broken /\ process_heartbeat(r) # Broken
BY Kinds, Zenon

\* The processor's answer to a call of a node is not either.
LEMMA AnswerNotBroken ==
  ASSUME IInv, NEW n \in Nodes, Takes(call[n]), NEW r
  PROVE  RegistDispatch(call[n], r) # Broken
<1>1. call[n] = send_registClient(Address(n)) \/ call[n] = send_heartbeat(Address(n))
  BY TakesCall DEF IInv
<1> QED
  BY <1>1, Dispatched, NotBroken, Zenon

\* A step that takes no fault, adds no failed attempt and puts no broken
\* connection in place of the call of n.
LEMMA UnharmedStays ==
  ASSUME IInv, Unharmed, NEW n \in Nodes, NEW c, c # Broken, SetCall(n, c),
         srvUp' = srvUp, missed' \subseteq missed, faults' = faults
  PROVE  Unharmed'
<1>1. call'[n] = c /\ \A k \in Nodes \ {n} : call'[k] = call[k]
  BY SetCallDoes DEF IInv, NodesSafe
<1> QED
  BY <1>1 DEF Unharmed

\* After a fault there is nothing to show.
LEMMA UnharmedFault ==
  ASSUME IInv, Fault
  PROVE  Unharmed'
BY DEF IInv, Fault, Unharmed

\* Every step keeps it.
LEMMA UnharmedNext == IInv /\ Unharmed /\ [Next]_vars => Unharmed'
<1> SUFFICES ASSUME IInv, Unharmed, [Next]_vars PROVE Unharmed'
  OBVIOUS
<1>1. ASSUME NEW n \in Nodes, CallOut(n) PROVE Unharmed'
  <2>1. PICK c \in {send_registClient(Address(n)), send_heartbeat(Address(n))} :
          SetCall(n, c)
    BY <1>1, Zenon DEF CallOut
  <2>2. c # Broken
    BY <2>1, NotBroken
  <2> QED
    BY <1>1, <2>1, <2>2, UnharmedStays DEF CallOut
<1>2. ASSUME NEW n \in Nodes, HandleRegist(n) \/ HandleHeartBeat(n) PROVE Unharmed'
  <2>1. PICK r : SetCall(n, RegistDispatch(call[n], r))
    BY <1>2, Zenon DEF HandleRegist, HandleHeartBeat
  <2>2. RegistDispatch(call[n], r) # Broken
    BY <1>2, AnswerNotBroken DEF HandleRegist, HandleHeartBeat
  <2>3. srvUp' = srvUp /\ missed' \subseteq missed /\ faults' = faults
    BY <1>2 DEF HandleRegist, HandleHeartBeat
  <2> QED
    BY <2>1, <2>2, <2>3, UnharmedStays
<1>3. ASSUME NEW n \in Nodes, CallBack(n) PROVE Unharmed'
  <2>1. SetCall(n, NoMsg) /\ srvUp' = srvUp /\ missed' = missed /\ faults' = faults
    BY <1>3 DEF CallBack
  <2> QED
    BY <2>1, NotBroken, UnharmedStays
<1>4. ASSUME NEW n \in Nodes, CallFails(n) PROVE Unharmed'
  BY <1>4 DEF CallFails, Unreachable, Unharmed
<1>5. ASSUME NEW n \in Nodes,
             HandlerThrows(n) \/ CallLost(n) \/ NodeStartFails(n) \/ NodeCrashes(n)
      PROVE  Unharmed'
  BY <1>5, UnharmedFault DEF HandlerThrows, CallLost, NodeStartFails, NodeCrashes
<1>6. ASSUME NEW t \in Tasks, ClusterWorkThrows(t) \/ WorkMisdirected(t) \/ WorkLost(t)
      PROVE  Unharmed'
  BY <1>6, UnharmedFault DEF ClusterWorkThrows, WorkMisdirected, WorkLost
<1>7. CASE ServerCrashes
  BY <1>7, UnharmedFault DEF ServerCrashes
<1>8. CASE ServerStarts
  BY <1>8 DEF ServerStarts, Unharmed, netVars
<1>9. CASE UNCHANGED <<srvUp, call, missed, faults>>
  BY <1>9 DEF Unharmed
<1>10. ASSUME NEW n \in Nodes, NodeStarts(n) \/ NodeWakes(n)
       PROVE  UNCHANGED <<srvUp, call, missed, faults>>
  BY <1>10 DEF NodeStarts, NodeWakes, netVars
<1>11. ASSUME NEW m \in stray, HandleStray(m) PROVE UNCHANGED <<srvUp, call, missed, faults>>
  BY <1>11 DEF HandleStray
<1>12. ASSUME NEW t \in Tasks,
              TaskArrives(t) \/ TaskLocal(t) \/ TaskPicks(t) \/ ClusterWork(t)
                \/ WorkRefused(t) \/ WorkReturns(t)
       PROVE  UNCHANGED <<srvUp, call, missed, faults>>
  BY <1>12 DEF TaskArrives, TaskLocal, TaskPicks, ClusterWork, WorkRefused, WorkReturns, netVars
<1>13. Monitor \/ Tick \/ UNCHANGED vars => UNCHANGED <<srvUp, call, missed, faults>>
  BY DEF Monitor, Tick, vars, netVars
<1> QED
  BY <1>1, <1>2, <1>3, <1>4, <1>5, <1>6, <1>7, <1>8, <1>9, <1>10, <1>11, <1>12, <1>13, Zenon
     DEF Next

\* A handler of the server adds to the table and takes nothing from it.
LEMMA HandlerKeeps ==
  ASSUME IInv, NEW n \in Nodes,
         Srv!RegisterWork(n) \/ \E b \in BOOLEAN : Srv!HeartBeatWork(n, b)
  PROVE  Srv!Registered \subseteq Srv!Registered'
<1>1. m_node_vec \in Seq(Srv!dcnode_t)
  BY DEF IInv, ServerSafe, Srv!TypeOK
<1>2. CASE Srv!Refresh(n)
  <2>1. PICK i \in DOMAIN m_node_vec :
          m_node_vec' = [m_node_vec EXCEPT ![i].lHeartBeatTime = now]
    BY <1>2 DEF Srv!Refresh, Srv!IsFirst
  <2>2. \A j \in DOMAIN m_node_vec : m_node_vec[j] \in Srv!dcnode_t
    BY <1>1
  <2>3. /\ DOMAIN m_node_vec' = DOMAIN m_node_vec
        /\ \A j \in DOMAIN m_node_vec : m_node_vec'[j].node = m_node_vec[j].node
    BY <2>1, <2>2 DEF Srv!dcnode_t
  <2> QED
    BY <2>3 DEF Srv!Registered
<1>3. CASE Srv!PushBack(n)
  <2> DEFINE e == [node |-> n, lHeartBeatTime |-> now]
  <2>1. m_node_vec' = Append(m_node_vec, e) /\ e \in Srv!dcnode_t
    BY <1>3 DEF Srv!PushBack, IInv, ServerSafe, Srv!TypeOK, Srv!dcnode_t
  <2>2. /\ DOMAIN m_node_vec \subseteq DOMAIN m_node_vec'
        /\ \A j \in DOMAIN m_node_vec : m_node_vec'[j] = m_node_vec[j]
    BY <1>1, <2>1, SeqIsFunction, AppendAdds
  <2> QED
    BY <2>2 DEF Srv!Registered
<1>4. CASE UNCHANGED m_node_vec
  BY <1>4 DEF Srv!Registered
<1> QED
  BY <1>2, <1>3, <1>4 DEF Srv!RegisterWork, Srv!HeartBeatWork

\* CollectWorkProc erases the node its request failed at, and no other.
LEMMA LocalKeeps ==
  ASSUME IInv, NEW t \in Tasks, TaskLocal(t), NEW n \in Srv!Registered \ Srv!Registered'
  PROVE  task[t].pc = "erase" /\ task[t].node = n
<1>1. CASE Srv!WorkService(t) \/ Srv!CollectNoNode(t)
  BY <1>1 DEF Srv!WorkService, Srv!CollectNoNode, Srv!tableVars, Srv!Registered
<1>2. CASE Srv!CollectErase(t)
  <2>1. PICK i \in DOMAIN m_node_vec : m_node_vec[i].node = n
    BY DEF Srv!Registered
  <2>2. /\ Srv!EraseKeeps(t) \subseteq DOMAIN m_node_vec
        /\ m_node_vec' \in Srv!Keep(m_node_vec, Srv!EraseKeeps(t))
        /\ task[t].pc = "erase"
    BY <1>2 DEF Srv!CollectErase, Srv!EraseKeeps
  <2>3. \A k \in Srv!EraseKeeps(t) : m_node_vec[k].node \in Srv!Registered'
    BY <2>2, EraseStep DEF IInv, ServerSafe
  <2>4. i \notin Srv!EraseKeeps(t)
    BY <2>1, <2>3
  <2>5. m_node_vec[i].node = task[t].node
    BY <2>4 DEF Srv!EraseKeeps, Srv!IsFirst, Srv!IndexesOf
  <2> QED
    BY <2>1, <2>2, <2>5
<1> QED
  BY <1>1, <1>2 DEF TaskLocal

\* The sweep drops a node for its failed beat only, and so after a fault.
LEMMA SweepHasCause ==
  ASSUME IInv, Unharmed, Monitor, NEW n \in Srv!Registered \ Srv!Registered',
         ~Nod!Beats(n) \/ n \in missed
  PROVE  faults > 0
<1>1. n \in Nodes
  <2>1. PICK i \in DOMAIN m_node_vec : m_node_vec[i].node = n
    BY DEF Srv!Registered
  <2>2. m_node_vec[i] \in Srv!dcnode_t
    BY <2>1 DEF IInv, ServerSafe, Srv!TypeOK
  <2> QED
    BY <2>1, <2>2 DEF Srv!dcnode_t
<1>2. n \in missed
  BY <1>1 DEF IInv, Punctual, InTime, HeardOf
<1> QED
  BY <1>2 DEF IInv, Unharmed

\* A node leaves the table for a cause, whatever the constants and however the
\* handlers, the requests, the monitor and the faults interleave; as long as no
\* fault happens the monitor drops nobody.
THEOREM ClusterLeavesForCause == Spec => LeavesForCause
<1> DEFINE NoFalse ==
             Monitor => \A n \in Srv!Registered \ Srv!Registered' :
                          ~Nod!Beats(n) \/ n \in missed
<1>1. ASSUME IInv, Unharmed, [NoFalse]_vars, Next PROVE Caused \/ UNCHANGED vars
  <2>1. CASE Srv!Registered \subseteq Srv!Registered'
    BY <2>1 DEF Caused
  <2>2. CASE UNCHANGED m_node_vec
    BY <2>2 DEF Srv!Registered, Caused
  <2>3. ASSUME NEW n \in Nodes, HandleRegist(n) \/ HandleHeartBeat(n)
        PROVE  Srv!Registered \subseteq Srv!Registered'
    BY <1>1, <2>3, HandlerKeeps
       DEF HandleRegist, HandleHeartBeat, RegistHandler, HeartBeatHandler
  <2>4. ASSUME NEW m \in stray, HandleStray(m)
        PROVE  Srv!Registered \subseteq Srv!Registered'
    BY <1>1, <2>4, HandlerKeeps DEF HandleStray, RegistHandler, HeartBeatHandler
  <2>5. ASSUME NEW n \in Nodes,
               CallOut(n) \/ HandlerThrows(n) \/ CallBack(n) \/ CallFails(n) \/ CallLost(n)
        PROVE  UNCHANGED m_node_vec
    BY <2>5 DEF CallOut, HandlerThrows, CallBack, CallFails, CallLost, CallThrows, serverVars
  <2>6. ASSUME NEW n \in Nodes,
               NodeStarts(n) \/ NodeStartFails(n) \/ NodeCrashes(n) \/ NodeWakes(n)
        PROVE  UNCHANGED m_node_vec
    BY <2>6 DEF NodeStarts, NodeStartFails, NodeCrashes, NodeWakes, serverVars
  <2>7. ASSUME NEW t \in Tasks, TaskArrives(t) \/ TaskPicks(t) \/ WorkReturns(t)
        PROVE  UNCHANGED m_node_vec
    BY <2>7 DEF TaskArrives, TaskPicks, WorkReturns, Srv!HttpCallback, Srv!CollectPick,
                Srv!CollectReturn, Srv!tableVars
  <2>8. ASSUME NEW t \in Tasks,
               ClusterWork(t) \/ ClusterWorkThrows(t) \/ WorkRefused(t)
                 \/ WorkMisdirected(t) \/ WorkLost(t)
        PROVE  UNCHANGED m_node_vec
    BY <2>8 DEF ClusterWork, ClusterWorkThrows, WorkRefused, WorkMisdirected, WorkLost,
                serverVars
  <2>9. ASSUME NEW t \in Tasks, TaskLocal(t) PROVE Caused
    BY <1>1, <2>9, LocalKeeps DEF Caused, Blames
  <2>10. CASE ServerStarts
    BY <2>2, <2>10 DEF ServerStarts
  <2>11. CASE Monitor
    <3>1. CASE UNCHANGED vars
      BY <3>1
    <3>2. CASE NoFalse
      BY <1>1, <2>11, <3>2, SweepHasCause DEF Caused
    <3> QED
      BY <1>1, <3>1, <3>2
  <2>12. CASE Tick
    <3>1. m_node_vec \in Seq(Srv!dcnode_t)
      BY <1>1 DEF IInv, ServerSafe, Srv!TypeOK
    <3>2. \A i \in DOMAIN m_node_vec : m_node_vec[i] \in Srv!dcnode_t
      BY <3>1
    <3>3. /\ DOMAIN m_node_vec' = DOMAIN m_node_vec
          /\ \A i \in DOMAIN m_node_vec : m_node_vec'[i].node = m_node_vec[i].node
      BY <2>12, <3>2 DEF Tick, Srv!dcnode_t
    <3> QED
      BY <2>1, <3>3 DEF Srv!Registered
  <2>13. ServerCrashes => Caused
    BY DEF Caused
  <2> QED
    BY <1>1, <2>1, <2>2, <2>3, <2>4, <2>5, <2>6, <2>7, <2>8, <2>9, <2>10, <2>11, <2>12,
       <2>13, Zenon DEF Next
<1>2. IInv /\ Unharmed /\ [NoFalse]_vars /\ [Next]_vars => [Caused]_vars
  BY <1>1
<1>3. Init => Unharmed
  BY NotBroken DEF Init, Unharmed
<1>4. Spec => []Unharmed
  BY <1>3, AlwaysIInv, UnharmedNext, PTL DEF Spec
<1> QED
  BY <1>2, <1>4, AlwaysIInv, ClusterNoFalseDrop, PTL DEF Spec, NoFalseDrop, LeavesForCause
=============================================================================
