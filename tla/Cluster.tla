------------------------------- MODULE Cluster ------------------------------
(***************************************************************************)
(* DcServer and the DcNode processes joined by their Thrift calls: nodes   *)
(* register and beat, the server forwards work.  Processes crash and       *)
(* restart, and a call may fail before or after the other side handled it. *)
(*                                                                         *)
(* A call is one request on a connection of its own, made, handled and     *)
(* answered by the stubs of module Thrift.  The transport (external) may   *)
(* lose the request or the reply: the caller's exception says nothing of   *)
(* whether the handler ran, and a request whose caller is gone may still   *)
(* be handled later.                                                       *)
(***************************************************************************)
EXTENDS Integers, FiniteSets, Sequences, Thrift

CONSTANTS
  Nodes, NoNode, Tasks, HB_TIMEOUT, SWEEP_WAIT, MaxLag, HB_WAIT,
  Window,     \* how far back stored times are told apart; see Tick
  MaxFaults   \* bound on crashes, failed starts and failed calls

\* A node beats at least as often as the monitor asks for (30 s and 60 s).
ASSUME ClusterAssumption ==
  /\ NoNode \notin Nodes
  /\ {HB_TIMEOUT, SWEEP_WAIT, MaxLag, HB_WAIT, Window} \subseteq Nat
  /\ SWEEP_WAIT > 0 /\ HB_WAIT > 0 /\ HB_WAIT <= HB_TIMEOUT
  /\ Window > HB_TIMEOUT + MaxLag
  /\ MaxFaults \in Nat

VARIABLES
  now, m_node_vec, pickNum, mpc, lCheckTime, wakeAt, task,  \* DcServer
  npc, m_bregister_ok, nwake, serving,                      \* NodeServer
  srvUp,    \* the DcServer process runs
  call,     \* the message of each node's RPC: the call, later its answer
  stray,    \* calls whose caller is gone
  work,     \* the message of each task's RPC
  runs,     \* how often ClusterWork ran for each task's request
  missed,   \* nodes whose last attempt to reach the server failed
  faults    \* faults so far

Srv == INSTANCE DcServer WITH MaxTime <- Window
Nod == INSTANCE NodeServer

serverVars == <<m_node_vec, pickNum, mpc, lCheckTime, wakeAt, task>>
nodeVars == <<npc, m_bregister_ok, nwake, serving>>
netVars == <<call, stray, work, runs, missed>>
vars == <<now, serverVars, nodeVars, srvUp, netVars, faults>>

\* No message, and a connection that broke.
NoMsg == Message("", "none", <<>>)
Broken == Message("", "broken", <<>>)

\* A node's NodeIp and NodePort are abstracted to the node that has them, and
\* the index code a request forwards to the request.
Address(n) == Info(n, n, "", FALSE)
Names(info, n) == info.Ip = n /\ info.Port = n

Answered(m) == m.mtype \in {"T_REPLY", "T_EXCEPTION"}

SetCall(n, c) == call' = [call EXCEPT ![n] = c]
SetWork(t, c) == work' = [work EXCEPT ![t] = c]

Init ==
  /\ now = Window /\ Srv!InitServer /\ Nod!InitNodes
  /\ srvUp = TRUE
  /\ call = [n \in Nodes |-> NoMsg] /\ stray = {}
  /\ work = [t \in Tasks |-> NoMsg] /\ runs = [t \in Tasks |-> 0]
  /\ missed = {} /\ faults = 0

Fault == faults < MaxFaults /\ faults' = faults + 1

-----------------------------------------------------------------------------
(* Registration and heartbeat calls *)

CallOut(n) ==
  /\ \/ Nod!RegisterCall(n) /\ SetCall(n, send_registClient(Address(n)))
     \/ Nod!HeartBeatCall(n) /\ SetCall(n, send_heartbeat(Address(n)))
  /\ UNCHANGED <<serverVars, srvUp, stray, work, runs, missed, faults>>

\* RegistHandler in the server: registClient always returns SUCCESS.
RegistHandler(m) ==
  \E info \in registClient_args(m), n \in Nodes :
    Names(info, n) /\ Srv!RegisterWork(n)
HeartBeatHandler(m, b) ==
  \E info \in heartbeat_args(m), n \in Nodes :
    Names(info, n) /\ Srv!HeartBeatWork(n, b)

HandleRegist(n) ==
  /\ srvUp /\ Takes(call[n]) /\ call[n].fname = "registClient"
  /\ RegistHandler(call[n])
  /\ SetCall(n, RegistDispatch(call[n], Returned("SUCCESS")))
  /\ missed' = missed \ {n}
  /\ UNCHANGED <<nodeVars, srvUp, stray, work, runs, faults>>

HandleHeartBeat(n) ==
  /\ srvUp /\ Takes(call[n]) /\ call[n].fname = "heartbeat"
  /\ \E b \in BOOLEAN :
       /\ HeartBeatHandler(call[n], b)
       /\ SetCall(n, RegistDispatch(call[n], Returned(b)))
  /\ missed' = missed \ {n}
  /\ UNCHANGED <<nodeVars, srvUp, stray, work, runs, faults>>

\* A handler of the server throws, before it changed the table.
HandlerThrows(n) ==
  /\ srvUp /\ Takes(call[n]) /\ Fault
  /\ SetCall(n, RegistDispatch(call[n], Threw))
  /\ missed' = missed \cup {n}
  /\ UNCHANGED <<now, serverVars, nodeVars, srvUp, stray, work, runs>>

HandleStray(m) ==
  /\ srvUp /\ m \in stray
  /\ \/ m.fname = "registClient" /\ RegistHandler(m)
     \/ m.fname = "heartbeat" /\ \E b \in BOOLEAN : HeartBeatHandler(m, b)
  /\ stray' = stray \ {m}
  /\ UNCHANGED <<nodeVars, srvUp, call, work, runs, missed, faults>>

NodeReturn(n, ok) == Nod!RegisterReturn(n, ok) \/ Nod!HeartBeatReturn(n, ok)

\* RegisterClient and HeartBeatWork turn the answer into true or false.
CallBack(n) ==
  /\ Answered(call[n])
  /\ \/ /\ npc[n] = "register" /\ recv_registClient(call[n]) # ReadsOn
        /\ NodeReturn(n, recv_registClient(call[n]) = Returned("SUCCESS"))
     \/ /\ npc[n] = "heartbeat" /\ recv_heartbeat(call[n]) # ReadsOn
        /\ NodeReturn(n, recv_heartbeat(call[n]) = Returned(TRUE))
  /\ SetCall(n, NoMsg)
  /\ UNCHANGED <<serverVars, srvUp, stray, work, runs, missed, faults>>

\* What becomes of a request not handled yet when its caller goes away.
Abandon(n) ==
  \/ UNCHANGED stray
  \/ Takes(call[n]) /\ srvUp /\ stray' = stray \cup {call[n]}

\* The server died with the request, or refuses the connection.
Unreachable(n) == call[n] = Broken \/ (Takes(call[n]) /\ ~srvUp)

\* The caller gets an exception ...
CallThrows(n) ==
  /\ Abandon(n)
  /\ NodeReturn(n, FALSE)
  /\ SetCall(n, NoMsg)
  /\ missed' = missed \cup {n}
  /\ UNCHANGED <<serverVars, srvUp, work, runs>>

\* ... because the server is not there, or by a fault.
CallFails(n) == Unreachable(n) /\ CallThrows(n) /\ UNCHANGED faults

CallLost(n) == call[n] # NoMsg /\ ~Unreachable(n) /\ Fault /\ CallThrows(n)

-----------------------------------------------------------------------------
(* Work requests *)

TaskArrives(t) ==
  /\ srvUp /\ Srv!HttpCallback(t, "work")
  /\ runs' = [runs EXCEPT ![t] = 0]
  /\ UNCHANGED <<nodeVars, srvUp, call, stray, work, missed, faults>>

TaskLocal(t) ==
  /\ srvUp /\ (Srv!WorkService(t) \/ Srv!CollectNoNode(t) \/ Srv!CollectErase(t))
  /\ UNCHANGED <<nodeVars, srvUp, netVars, faults>>

TaskPicks(t) ==
  /\ srvUp /\ Srv!CollectPick(t)
  /\ SetWork(t, send_ClusterWork(t))
  /\ UNCHANGED <<nodeVars, srvUp, call, stray, runs, missed, faults>>

Reaches(t) == Takes(work[t]) /\ task[t].node \in serving

\* RequestHandler::ClusterWork in the node passes the text of the message on
\* and ignores the result of send_message.
ClusterWork(t) ==
  /\ Reaches(t)
  /\ runs' = [runs EXCEPT ![ClusterWork_args(work[t])] = @ + 1]
  /\ SetWork(t, RequestDispatch(work[t], Returned(TRUE)))
  /\ UNCHANGED <<now, serverVars, nodeVars, srvUp, call, stray, missed, faults>>

\* The handler throws, in send_message or after it.
ClusterWorkThrows(t) ==
  /\ Reaches(t) /\ Fault
  /\ \/ runs' = [runs EXCEPT ![ClusterWork_args(work[t])] = @ + 1]
     \/ UNCHANGED runs
  /\ SetWork(t, RequestDispatch(work[t], Threw))
  /\ UNCHANGED <<now, serverVars, nodeVars, srvUp, call, stray, missed>>

\* The connection is refused ...
WorkRefused(t) ==
  /\ Takes(work[t]) /\ ~Reaches(t)
  /\ SetWork(t, Broken)
  /\ UNCHANGED <<now, serverVars, nodeVars, srvUp, call, stray, runs, missed, faults>>

\* ... or taken by a server of the other service, at an address it now has ...
WorkMisdirected(t) ==
  /\ Takes(work[t]) /\ ~Reaches(t) /\ Fault
  /\ SetWork(t, RegistDispatch(work[t], Threw))
  /\ UNCHANGED <<now, serverVars, nodeVars, srvUp, call, stray, runs, missed>>

\* ... or the request or its reply is lost.  (A node that handles the request only
\* after that works for a request that has its answer.)
WorkLost(t) ==
  /\ Takes(work[t]) \/ Answered(work[t])
  /\ Fault
  /\ SetWork(t, Broken)
  /\ UNCHANGED <<now, serverVars, nodeVars, srvUp, call, stray, runs, missed>>

\* ClusterWorkProc: bsuccess stays false when the call throws.
WorkReturns(t) ==
  /\ \/ work[t] = Broken /\ Srv!CollectReturn(t, FALSE)
     \/ /\ Answered(work[t]) /\ recv_ClusterWork(work[t]) # ReadsOn
        /\ Srv!CollectReturn(t, recv_ClusterWork(work[t]) = Returned(TRUE))
  /\ SetWork(t, NoMsg)
  /\ UNCHANGED <<nodeVars, srvUp, call, stray, runs, missed, faults>>

-----------------------------------------------------------------------------
(* Crashes and restarts; the monitor; time *)

NodeStartFails(n) ==
  /\ Fault /\ Nod!StartFails(n)
  /\ UNCHANGED <<serverVars, srvUp, netVars>>

NodeStarts(n) ==
  /\ Nod!StartServer(n) \/ Nod!StartService(n)
  /\ UNCHANGED <<serverVars, srvUp, netVars, faults>>

\* Its connections break: calls it made, and work it was given.
NodeCrashes(n) ==
  /\ Fault /\ Nod!Crash(n)
  /\ Abandon(n)
  /\ SetCall(n, NoMsg)
  /\ work' = [t \in Tasks |-> IF task[t].node = n /\ work[t] # NoMsg
                              THEN Broken ELSE work[t]]
  /\ missed' = missed \cup {n}
  /\ UNCHANGED <<serverVars, srvUp, runs>>

NodeWakes(n) ==
  /\ Nod!Wake(n)
  /\ UNCHANGED <<serverVars, srvUp, netVars, faults>>

\* The server keeps nothing on disk: it comes back with an empty table.
ServerCrashes ==
  /\ srvUp /\ Fault
  /\ srvUp' = FALSE
  /\ m_node_vec' = <<>> /\ pickNum' = 0
  /\ mpc' = "wait" /\ lCheckTime' = 0 /\ wakeAt' = now
  /\ task' = [t \in Tasks |-> Srv!Idle("none")]
  /\ work' = [t \in Tasks |-> NoMsg] /\ runs' = [t \in Tasks |-> 0]
  /\ stray' = {}
  /\ call' = [n \in Nodes |-> IF Takes(call[n]) THEN Broken ELSE call[n]]
  /\ UNCHANGED <<now, nodeVars, missed>>

ServerStarts ==
  /\ ~srvUp
  /\ srvUp' = TRUE /\ wakeAt' = now
  /\ UNCHANGED <<now, m_node_vec, pickNum, mpc, lCheckTime, task, nodeVars, netVars, faults>>

Monitor ==
  /\ srvUp /\ (Srv!MonitorCheckTime \/ Srv!MonitorSweep)
  /\ UNCHANGED <<nodeVars, srvUp, netVars, faults>>

Earlier(x) == IF x = 0 THEN 0 ELSE x - 1

\* One tick.  Only differences of times matter, so the tick count keeps reading
\* Window and every stored time moves into the past, down to 0, which is more
\* than HB_TIMEOUT ago.  Waits that are over end before the next tick,
\* and calls between node and server take less than a tick.
Tick ==
  /\ srvUp => Srv!OnTime
  /\ \A n \in Nodes : Nod!Beats(n) => npc[n] = "wait" /\ now < nwake[n]
  /\ m_node_vec' = [i \in DOMAIN m_node_vec |->
                      [m_node_vec[i] EXCEPT !.lHeartBeatTime = Earlier(@)]]
  /\ lCheckTime' = Earlier(lCheckTime) /\ wakeAt' = Earlier(wakeAt)
  /\ nwake' = [n \in Nodes |-> Earlier(nwake[n])]
  /\ UNCHANGED <<now, pickNum, mpc, task, npc, m_bregister_ok, serving, srvUp,
                 netVars, faults>>

NodeRuns(n) == CallOut(n) \/ CallBack(n) \/ NodeWakes(n) \/ CallFails(n)

Serves(n) == Nod!StartService(n) /\ NodeStarts(n)

TaskRuns(t) ==
  \/ TaskLocal(t) \/ TaskPicks(t) \/ ClusterWork(t) \/ WorkRefused(t)
  \/ WorkReturns(t)

Next ==
  \/ \E n \in Nodes :
       \/ CallOut(n) \/ HandleRegist(n) \/ HandleHeartBeat(n) \/ HandlerThrows(n)
       \/ CallBack(n) \/ CallFails(n) \/ CallLost(n) \/ NodeStarts(n)
       \/ NodeStartFails(n) \/ NodeCrashes(n) \/ NodeWakes(n)
  \/ \E m \in stray : HandleStray(m)
  \/ \E t \in Tasks :
       \/ TaskArrives(t) \/ TaskLocal(t) \/ TaskPicks(t) \/ ClusterWork(t)
       \/ ClusterWorkThrows(t) \/ WorkRefused(t) \/ WorkMisdirected(t)
       \/ WorkLost(t) \/ WorkReturns(t)
  \/ ServerCrashes \/ ServerStarts \/ Monitor \/ Tick

Spec == Init /\ [][Next]_vars

\* Threads of a running process run, the server handles the calls it gets, and
\* time passes.  No process need ever be started again.
Fairness ==
  /\ \A n \in Nodes :
       /\ WF_vars(NodeRuns(n)) /\ WF_vars(Serves(n))
       /\ WF_vars(HandleRegist(n) \/ HandleHeartBeat(n))
  /\ WF_vars(\E m \in stray : HandleStray(m))
  /\ \A t \in Tasks : WF_vars(TaskRuns(t))
  /\ WF_vars(Monitor) /\ WF_vars(Tick)

FairSpec == Spec /\ Fairness

-----------------------------------------------------------------------------
(* Properties *)

IsCallOf(m, n) == m = send_registClient(Address(n)) \/ m = send_heartbeat(Address(n))

\* The message of a node's RPC belongs to the call the node is in.
CallMatches(n) ==
  \/ call[n] = NoMsg
  \/ call[n] = Broken /\ npc[n] \in {"register", "heartbeat"}
  \/ /\ npc[n] = "register"
     /\ \/ call[n] = send_registClient(Address(n))
        \/ call[n] = process_registClient(Threw)
        \/ call[n] = process_registClient(Returned("SUCCESS"))
  \/ /\ npc[n] = "heartbeat"
     /\ \/ call[n] = send_heartbeat(Address(n))
        \/ call[n] = process_heartbeat(Threw)
        \/ \E b \in BOOLEAN : call[n] = process_heartbeat(Returned(b))

\* So does the message of a request's RPC.
WorkMatches(t) ==
  IF task[t].pc # "rpc" THEN work[t] = NoMsg
  ELSE \/ work[t] = Broken \/ work[t] = send_ClusterWork(t)
       \/ work[t] = process_ClusterWork(Threw)
       \/ work[t] = process_ClusterWork(Returned(TRUE))

\* Type invariant of the composed system, the messages in it included.
TypeOK ==
  /\ Srv!TypeOK /\ Nod!NodeTypeOK
  /\ srvUp \in BOOLEAN
  /\ DOMAIN call = Nodes /\ DOMAIN work = Tasks
  /\ \A n \in Nodes : CallMatches(n)
  /\ \A m \in stray : \E n \in Nodes : IsCallOf(m, n)
  /\ \A t \in Tasks : WorkMatches(t)
  /\ runs \in [Tasks -> Nat] /\ missed \subseteq Nodes
  /\ faults \in 0..MaxFaults

\* Whatever calls are lost, repeated by a restarted node or handled late, a
\* node has one entry in the server's table.
NoDuplicateNode == Srv!NoDuplicateNode

\* The reply and the work agree: no request runs twice, "200 OK" is sent only
\* when a node ran it, and a request turned away did not run.  DC_NODE_ERR says
\* nothing: the node may have run the work and its reply was lost.
ReplyMatchesWork ==
  \A t \in Tasks :
    /\ runs[t] <= 1
    /\ task[t] = Srv!Idle("DC_NO_ERR") => runs[t] = 1
    /\ task[t] = Srv!Idle("DC_NO_NODE") => runs[t] = 0

\* The monitor drops a running node only if the node's last attempt to reach
\* the server failed: the 30 s beat, the 45 s sweep and the 60 s limit leave no
\* way to drop a node that beats on time.
NoFalseDrop ==
  [][Monitor => \A n \in Srv!Registered \ Srv!Registered' :
                  ~Nod!Beats(n) \/ n \in missed]_vars

\* Why a node may leave the table in a step.
Blames(t, n) == TaskLocal(t) /\ task[t].pc = "erase" /\ task[t].node = n
Caused ==
  \A n \in Srv!Registered \ Srv!Registered' :
    \/ ServerCrashes
    \/ Monitor /\ faults > 0 /\ (~Nod!Beats(n) \/ n \in missed)
    \/ \E t \in Tasks : Blames(t, n)

\* A node leaves the table when the server loses it in a crash, when a request
\* that failed at the node erases it, or when the monitor drops it: then some
\* fault has happened, and the node does not beat or its last beat failed.
LeavesForCause == [][Caused]_vars

\* No caller ever skips a message and waits for another one, which recv_* does
\* when the answer is not a reply to the call it made: then the heartbeat
\* thread, or the pool thread of a request, would wait for good.
AnswersFit ==
  /\ \A n \in Nodes : Answered(call[n]) =>
       /\ npc[n] = "register" => recv_registClient(call[n]) # ReadsOn
       /\ npc[n] = "heartbeat" => recv_heartbeat(call[n]) # ReadsOn
  /\ \A t \in Tasks : Answered(work[t]) => recv_ClusterWork(work[t]) # ReadsOn

\* Fields that are not of this version of the structs.
ForeignFields ==
  {Field(1, "T_I32", 0), Field(2, "T_STRING", ""), Field(3, "T_BOOL", ""),
   Field(4, "T_STRING", "")}

\* A handler sees the address its caller wrote, also when a peer of another
\* version adds a field of its own before or after the known ones: the reading
\* loop skips a new id, and a known id with another type.
AddressSurvives ==
  \A n \in Nodes : Takes(call[n]) =>
    \A body \in {ReadField(call[n].body, 1, "T_STRUCT", <<>>)} :
      /\ InfoRead(body) = Address(n)
      /\ \A f \in ForeignFields :
           InfoRead(<<f>> \o body) = Address(n) /\ InfoRead(body \o <<f>>) = Address(n)

\* Membership heals.  If the server stays up, a node's heartbeat thread goes on
\* running and faults are over, the node is in the table for good, also after a
\* late failure of a request erased its new entry; if a node stays down, or has
\* started only in part, it is out of the table for good.
MembershipConverges ==
  \A n \in Nodes :
    /\ <>[]srvUp /\ <>[]Nod!Beats(n) => <>[](n \in Srv!Registered)
    /\ <>[]~Nod!Beats(n) => <>[](n \notin Srv!Registered)
=============================================================================
