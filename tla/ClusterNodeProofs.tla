-------------------------- MODULE ClusterNodeProofs -------------------------
(***************************************************************************)
(* The invariant of the composed cluster, and that the steps of a node and *)
(* of the server's handlers keep it.  ClusterProofs has the other steps    *)
(* and the theorems.                                                       *)
(***************************************************************************)
EXTENDS Cluster, DataProofs

-----------------------------------------------------------------------------
(* The window of the clock *)

\* What module Cluster has in place of a time x when the tick count is t.
Read(t, x) == IF t - x >= Window THEN 0 ELSE Window - (t - x)

\* The window is as good as a tick count that goes on for ever.  For any real
\* tick count t and stored time x: a new time and a wait's end are read as Tick
\* assumes, one tick makes x one earlier, a wait is over on the same tick, the
\* monitor is late on the same tick, and its sweep drops the same nodes.  These
\* are all the comparisons of times in DcServer.cpp and NodeServer.cpp.
THEOREM WindowIsExact ==
  ASSUME NEW t \in Nat, NEW x \in Nat
  PROVE  /\ Read(t, t) = Window /\ \A d \in Nat : Read(t, t + d) = Window + d
         /\ Read(t + 1, x) = Earlier(Read(t, x))
         /\ t >= x <=> Window >= Read(t, x)
         /\ \A check \in Nat : check <= t /\ t <= check + MaxLag =>
              /\ t < check + MaxLag <=> Window < Read(t, check) + MaxLag
              /\ x <= t => (check - x > HB_TIMEOUT <=>
                              Read(t, check) - Read(t, x) > HB_TIMEOUT)
<1>1. /\ Window \in Nat /\ HB_TIMEOUT \in Nat /\ MaxLag \in Nat
      /\ Window > HB_TIMEOUT + MaxLag
  BY ClusterAssumption DEF ClusterAssumption
<1>2. Read(t, t) = Window /\ \A d \in Nat : Read(t, t + d) = Window + d
  BY <1>1 DEF Read
<1>3. Read(t + 1, x) = Earlier(Read(t, x))
  BY <1>1 DEF Read, Earlier
<1>4. t >= x <=> Window >= Read(t, x)
  BY <1>1 DEF Read
<1>5. ASSUME NEW check \in Nat, check <= t, t <= check + MaxLag
      PROVE  /\ t < check + MaxLag <=> Window < Read(t, check) + MaxLag
             /\ x <= t => (check - x > HB_TIMEOUT <=>
                             Read(t, check) - Read(t, x) > HB_TIMEOUT)
  <2>1. Read(t, check) = Window - (t - check)
    BY <1>1, <1>5 DEF Read
  <2>2. CASE t - x >= Window
    BY <1>1, <1>5, <2>1, <2>2 DEF Read
  <2>3. CASE ~(t - x >= Window)
    BY <1>1, <1>5, <2>1, <2>3 DEF Read
  <2> QED
    BY <2>2, <2>3
<1> QED
  BY <1>2, <1>3, <1>4, <1>5

-----------------------------------------------------------------------------
(* Messages *)

\* Calls, answers and their absence are told apart by their type.
LEMMA Kinds ==
  /\ ~Takes(NoMsg) /\ ~Answered(NoMsg) /\ ~Takes(Broken) /\ ~Answered(Broken)
  /\ NoMsg # Broken
  /\ \A x : /\ Takes(send_registClient(x)) /\ ~Answered(send_registClient(x))
            /\ Takes(send_heartbeat(x)) /\ ~Answered(send_heartbeat(x))
            /\ Takes(send_ClusterWork(x)) /\ ~Answered(send_ClusterWork(x))
  /\ \A r : /\ Answered(process_registClient(r)) /\ ~Takes(process_registClient(r))
            /\ Answered(process_heartbeat(r)) /\ ~Takes(process_heartbeat(r))
            /\ Answered(process_ClusterWork(r)) /\ ~Takes(process_ClusterWork(r))
<1>1. /\ ~Takes(NoMsg) /\ ~Answered(NoMsg) /\ ~Takes(Broken) /\ ~Answered(Broken)
      /\ NoMsg # Broken
  BY DEF Takes, Answered, NoMsg, Broken, Message
<1>2. \A f, b : LET m == Message(f, "T_CALL", b) IN Takes(m) /\ ~Answered(m)
  BY DEF Takes, Answered, Message
<1>3. \A f, k, b : k \in {"T_REPLY", "T_EXCEPTION"} =>
        LET m == Message(f, k, b) IN ~Takes(m) /\ Answered(m)
  BY DEF Takes, Answered, Message
<1>4. \A f, ty, r : LET m == Answer(f, ty, r) IN ~Takes(m) /\ Answered(m)
  BY <1>3 DEF Answer
<1> QED
  BY <1>1, <1>2, <1>4, Zenon
     DEF send_registClient, send_heartbeat, send_ClusterWork,
         process_registClient, process_heartbeat, process_ClusterWork

\* The method a message is of.
LEMMA Methods ==
  /\ \A x : /\ send_registClient(x).fname = "registClient"
            /\ send_heartbeat(x).fname = "heartbeat"
            /\ send_ClusterWork(x).fname = "ClusterWork"
  /\ "registClient" # "heartbeat"
BY DEF send_registClient, send_heartbeat, send_ClusterWork, Message

\* The processors answer a call to one of their methods as that method.
LEMMA Dispatched ==
  /\ \A x, r : /\ RegistDispatch(send_registClient(x), r) = process_registClient(r)
               /\ RegistDispatch(send_heartbeat(x), r) = process_heartbeat(r)
               /\ RequestDispatch(send_ClusterWork(x), r) = process_ClusterWork(r)
  /\ \A x : RegistDispatch(send_ClusterWork(x), Threw) = process_ClusterWork(Threw)
<1>1. /\ "registClient" \in RegistMethods /\ "heartbeat" \in RegistMethods
      /\ "ClusterWork" \in RequestMethods /\ "ClusterWork" \notin RegistMethods
  BY DEF RegistMethods, RequestMethods
<1>2. Threw.kind = "threw"
  BY DEF Threw
<1> QED
  BY <1>1, <1>2, Methods, Zenon
     DEF RegistDispatch, RequestDispatch, process_ClusterWork, Answer

\* An address names its node, and no other.
LEMMA AddressNames ==
  ASSUME NEW n, NEW k
  PROVE  Names(Address(n), k) <=> k = n
BY DEF Names, Address, Info

\* A handler works on the node that made the call.
LEMMA RegistNamesCaller ==
  ASSUME NEW n \in Nodes, NEW m, m = send_registClient(Address(n)), RegistHandler(m)
  PROVE  Srv!RegisterWork(n)
<1>1. registClient_args(m) = {Address(n)}
  BY ArgumentsArrive, Zenon DEF Address
<1> QED
  BY <1>1, AddressNames, Zenon DEF RegistHandler

\* So is the heartbeat handler.
LEMMA HeartBeatNamesCaller ==
  ASSUME NEW n \in Nodes, NEW m, m = send_heartbeat(Address(n)), NEW b,
         HeartBeatHandler(m, b)
  PROVE  Srv!HeartBeatWork(n, b)
<1>1. heartbeat_args(m) = {Address(n)}
  BY ArgumentsArrive, Zenon DEF Address
<1> QED
  BY <1>1, AddressNames, Zenon DEF HeartBeatHandler
-----------------------------------------------------------------------------
(* Steps of the server *)

\* What a registration or a heartbeat of n leaves in the table: n's entry is of
\* this moment, the other entries are old.
Heard(n) ==
  \A i \in DOMAIN m_node_vec' :
    \/ m_node_vec'[i].node = n /\ m_node_vec'[i].lHeartBeatTime = now
    \/ /\ m_node_vec'[i].node # n
       /\ \E k \in DOMAIN m_node_vec : m_node_vec'[i] = m_node_vec[k]

\* When a handler finds the caller, the caller is heard of now and the others stay.
LEMMA RefreshHeard ==
  ASSUME Srv!TypeOK, Srv!NoDuplicateNode, NEW n \in Nodes, Srv!Refresh(n)
  PROVE  Srv!NoDuplicateNode' /\ m_node_vec' \in Seq(Srv!dcnode_t) /\ Heard(n)
<1>1. PICK i \in DOMAIN m_node_vec :
        /\ m_node_vec[i].node = n
        /\ m_node_vec' = [m_node_vec EXCEPT ![i].lHeartBeatTime = now]
  BY Zenon DEF Srv!Refresh, Srv!IsFirst, Srv!IndexesOf
<1>2. /\ m_node_vec \in [1..Len(m_node_vec) -> Srv!dcnode_t]
      /\ Len(m_node_vec) \in Nat
  BY SeqIsFunction DEF Srv!TypeOK
<1>3. m_node_vec' \in [1..Len(m_node_vec) -> Srv!dcnode_t]
  BY <1>1, <1>2 DEF Srv!TypeOK, Srv!dcnode_t
<1>4. m_node_vec' \in Seq(Srv!dcnode_t)
  BY <1>2, <1>3, FunctionIsSeq
<1>5. /\ DOMAIN m_node_vec' = DOMAIN m_node_vec
      /\ \A j \in DOMAIN m_node_vec :
           IF j = i THEN m_node_vec'[j].node = n /\ m_node_vec'[j].lHeartBeatTime = now
           ELSE m_node_vec'[j] = m_node_vec[j] /\ m_node_vec[j].node # n
  BY <1>1, <1>2 DEF Srv!dcnode_t, Srv!NoDuplicateNode
<1>6. Heard(n)
  BY <1>5 DEF Heard
<1>7. Srv!NoDuplicateNode'
  BY <1>5 DEF Srv!NoDuplicateNode
<1> QED
  BY <1>4, <1>6, <1>7

\* When it does not, push_back adds the caller behind the others.
LEMMA PushBackHeard ==
  ASSUME Srv!TypeOK, Srv!NoDuplicateNode, NEW n \in Nodes, n \notin Srv!Registered,
         Srv!PushBack(n)
  PROVE  Srv!NoDuplicateNode' /\ m_node_vec' \in Seq(Srv!dcnode_t) /\ Heard(n)
<1> DEFINE e == [node |-> n, lHeartBeatTime |-> now]
           L == Len(m_node_vec)
<1>1. e \in Srv!dcnode_t /\ e.node = n /\ e.lHeartBeatTime = now
  BY DEF Srv!TypeOK, Srv!dcnode_t
<1>2. m_node_vec \in Seq(Srv!dcnode_t) /\ L \in Nat /\ DOMAIN m_node_vec = 1..L
  BY SeqIsFunction DEF Srv!TypeOK
<1>3. m_node_vec' = Append(m_node_vec, e)
  BY DEF Srv!PushBack
<1>4. /\ m_node_vec' \in Seq(Srv!dcnode_t)
      /\ DOMAIN m_node_vec' = 1..(L + 1)
      /\ \A i \in 1..L : m_node_vec'[i] = m_node_vec[i]
      /\ m_node_vec'[L + 1] = e
  BY <1>1, <1>2, <1>3, AppendAdds
<1>5. \A i \in DOMAIN m_node_vec : m_node_vec[i].node # n
  BY DEF Srv!Registered
<1>6. \A i \in DOMAIN m_node_vec' : i = L + 1 \/ i \in DOMAIN m_node_vec
  BY <1>2, <1>4
<1>7. Heard(n)
  BY <1>1, <1>2, <1>4, <1>5 DEF Heard
<1>8. Srv!NoDuplicateNode'
  BY <1>1, <1>2, <1>4, <1>5, <1>6 DEF Srv!NoDuplicateNode
<1> QED
  BY <1>4, <1>7, <1>8

\* RegisterWork and HeartBeatWork.
LEMMA HandlerStep ==
  ASSUME Srv!TypeOK, Srv!NoDuplicateNode, NEW n \in Nodes,
         Srv!RegisterWork(n) \/ \E b \in BOOLEAN : Srv!HeartBeatWork(n, b)
  PROVE  /\ Srv!TypeOK' /\ Srv!NoDuplicateNode' /\ Heard(n)
         /\ UNCHANGED <<now, pickNum, mpc, lCheckTime, wakeAt, task>>
<1>1. UNCHANGED <<now, pickNum, mpc, lCheckTime, wakeAt, task>>
  BY DEF Srv!RegisterWork, Srv!HeartBeatWork, Srv!monitorVars
<1>2. Srv!NoDuplicateNode' /\ m_node_vec' \in Seq(Srv!dcnode_t) /\ Heard(n)
  <2>1. CASE Srv!Refresh(n)
    BY <2>1, RefreshHeard
  <2>2. CASE n \notin Srv!Registered /\ Srv!PushBack(n)
    BY <2>2, PushBackHeard
  <2>3. CASE n \notin Srv!Registered /\ UNCHANGED m_node_vec
    BY <2>3 DEF Heard, Srv!Registered, Srv!TypeOK, Srv!NoDuplicateNode
  <2> QED
    BY <2>1, <2>2, <2>3 DEF Srv!RegisterWork, Srv!HeartBeatWork
<1>3. Srv!TypeOK'
  BY <1>1, <1>2 DEF Srv!TypeOK
<1> QED
  BY <1>1, <1>2, <1>3

\* Every entry was there before the step.
NothingNew ==
  \A i \in DOMAIN m_node_vec' :
    \E k \in DOMAIN m_node_vec : m_node_vec'[i] = m_node_vec[k]

\* What vector::erase does to the table.
LEMMA EraseStep ==
  ASSUME Srv!TypeOK, Srv!NoDuplicateNode, NEW K \in SUBSET (DOMAIN m_node_vec),
         m_node_vec' \in Srv!Keep(m_node_vec, K)
  PROVE  /\ m_node_vec' \in Seq(Srv!dcnode_t)
         /\ Srv!NoDuplicateNode'
         /\ NothingNew
         /\ \A k \in K : m_node_vec[k].node \in Srv!Registered'
<1>1. m_node_vec' \in Keep(m_node_vec, K)
  BY Zenon DEF Srv!Keep, Srv!Listings, Keep, Listings
<1>2. m_node_vec' \in Seq(Srv!dcnode_t) /\ Restricts(m_node_vec', m_node_vec, K)
  BY <1>1, KeepProperties DEF Srv!TypeOK
<1>3. PICK f \in [DOMAIN m_node_vec' -> K] :
        /\ \A i \in DOMAIN m_node_vec' : m_node_vec'[i] = m_node_vec[f[i]]
        /\ \A i, j \in DOMAIN m_node_vec' : f[i] = f[j] => i = j
        /\ \A k \in K : \E i \in DOMAIN m_node_vec' : f[i] = k
  BY <1>2 DEF Restricts
<1>4. Srv!NoDuplicateNode'
  BY <1>3 DEF Srv!NoDuplicateNode
<1>5. NothingNew
  BY <1>3 DEF NothingNew
<1>6. \A k \in K : m_node_vec[k].node \in Srv!Registered'
  BY <1>3 DEF Srv!Registered
<1> QED
  BY <1>2, <1>4, <1>5, <1>6
\* The states a request can be put into.
LEMMA States ==
  /\ \A r \in Srv!Requests : Srv!Queued(r) \in Srv!TaskState /\ Srv!Queued(r).pc = "queued"
  /\ \A c \in Srv!DC_HTTP_REPLY : Srv!Idle(c) \in Srv!TaskState
  /\ \A c : Srv!Idle(c).pc = "idle" /\ Srv!Idle(c).reply = c
  /\ Srv!Idle("none") \in Srv!TaskState
  /\ \A n \in Nodes \cup {NoNode} :
       /\ Srv!Calling(n) \in Srv!TaskState /\ Srv!Calling(n).pc = "rpc"
       /\ Srv!Blaming(n) \in Srv!TaskState /\ Srv!Blaming(n).pc = "erase"
  /\ Srv!Dropped \in Srv!TaskState /\ Srv!Dropped.pc = "dropped"
  /\ Srv!Parsed \in Srv!TaskState /\ Srv!Parsed.pc = "pick"
BY DEF Srv!TaskState, Srv!TaskPc, Srv!At, Srv!Queued, Srv!Idle, Srv!Calling, Srv!Blaming,
       Srv!Dropped, Srv!Parsed

\* The state of a request that was never made.
LEMMA IdleState ==
  Srv!Idle("none").pc = "idle" /\ Srv!Idle("none") # Srv!Idle("DC_NO_ERR")
BY DEF Srv!Idle, Srv!At

\* A request's step that leaves the table alone.
LEMMA TaskStep ==
  ASSUME Srv!TypeOK, NEW t \in Tasks, NEW ts \in Srv!TaskState, Srv!Becomes(t, ts),
         m_node_vec' \in Seq(Srv!dcnode_t),
         UNCHANGED <<now, mpc, lCheckTime, wakeAt>>, pickNum' \in Nat
  PROVE  /\ Srv!TypeOK'
         /\ task'[t] = ts /\ \A u \in Tasks \ {t} : task'[u] = task[u]
BY DEF Srv!TypeOK, Srv!Becomes

-----------------------------------------------------------------------------
(* The inductive invariant *)

ServerSafe == Srv!TypeOK /\ Srv!NoDuplicateNode

\* The part of the type invariant that is about nodes and their calls.
NodesSafe ==
  /\ Nod!NodeTypeOK /\ srvUp \in BOOLEAN
  /\ DOMAIN call = Nodes /\ \A n \in Nodes : CallMatches(n)
  /\ \A m \in stray : \E n \in Nodes : IsCallOf(m, n)
  /\ missed \subseteq Nodes

\* How often a request has run, from where it and its message are.
RunsFit(t) ==
  /\ runs[t] <= 1
  /\ task[t].pc \in {"queued", "pick"} => runs[t] = 0
  /\ work[t] = send_ClusterWork(t) => runs[t] = 0
  /\ work[t] = process_ClusterWork(Returned(TRUE)) => runs[t] = 1
  /\ task[t] = Srv!Idle("DC_NO_ERR") => runs[t] = 1
  /\ task[t] = Srv!Idle("DC_NO_NODE") => runs[t] = 0

WorkSafe ==
  /\ DOMAIN work = Tasks /\ runs \in [Tasks -> Nat]
  /\ \A t \in Tasks : WorkMatches(t) /\ RunsFit(t)

HeardOf(n) == n \in Srv!Registered \/ \E m \in stray : IsCallOf(m, n)

\* A node that beats and whose last attempt got through is due for its next
\* beat before the monitor can find it silent; one that does not beat, but may
\* be in the table or get into it, is known to have failed.
InTime(n) ==
  /\ nwake[n] <= Window + HB_WAIT
  /\ npc[n] = "wait" => Window <= nwake[n]
  /\ ~Nod!Beats(n) /\ HeardOf(n) => n \in missed
  /\ Nod!Beats(n) /\ n \notin missed =>
       \A i \in DOMAIN m_node_vec : m_node_vec[i].node = n =>
         /\ npc[n] = "wait" => m_node_vec[i].lHeartBeatTime + HB_WAIT >= nwake[n]
         /\ npc[n] # "wait" => m_node_vec[i].lHeartBeatTime + HB_WAIT >= Window
         /\ Answered(call[n]) => m_node_vec[i].lHeartBeatTime = Window

Punctual == now = Window /\ lCheckTime <= Window /\ \A n \in Nodes : InTime(n)

IInv == ServerSafe /\ NodesSafe /\ WorkSafe /\ Punctual /\ faults \in 0..MaxFaults

\* A step that leaves the server alone keeps its part of the invariant ...
LEMMA ServerSame ==
  ASSUME ServerSafe, UNCHANGED <<now, serverVars>>
  PROVE  ServerSafe'
BY DEF ServerSafe, serverVars, Srv!TypeOK, Srv!NoDuplicateNode

\* ... so does one that leaves the nodes and their calls alone ...
LEMMA NodesSame ==
  ASSUME NodesSafe, UNCHANGED <<nodeVars, srvUp, call>>, missed' \subseteq Nodes,
         stray' \subseteq stray
  PROVE  NodesSafe'
BY DEF NodesSafe, nodeVars, Nod!NodeTypeOK, CallMatches

\* ... and one that leaves the requests and their calls alone.
LEMMA WorkSame ==
  ASSUME WorkSafe, UNCHANGED <<task, work, runs>>
  PROVE  WorkSafe'
BY DEF WorkSafe, WorkMatches, RunsFit

\* A step of one request.
LEMMA WorkOfOthers ==
  ASSUME WorkSafe, NEW t \in Tasks, DOMAIN work' = Tasks, runs' \in [Tasks -> Nat],
         \A u \in Tasks \ {t} : task'[u] = task[u] /\ work'[u] = work[u] /\ runs'[u] = runs[u],
         WorkMatches(t)', RunsFit(t)'
  PROVE  WorkSafe'
<1>1. ASSUME NEW u \in Tasks \ {t}
      PROVE  WorkMatches(u)' /\ RunsFit(u)'
  <2>1. WorkMatches(u)'
    BY DEF WorkSafe, WorkMatches
  <2>2. RunsFit(u)'
    BY DEF WorkSafe, RunsFit
  <2> QED
    BY <2>1, <2>2
<1> QED
  BY <1>1 DEF WorkSafe

\* Every entry of n is one that was there or is of this moment.
OldOrFresh(n) ==
  \A i \in DOMAIN m_node_vec' : m_node_vec'[i].node = n =>
    \/ m_node_vec'[i].lHeartBeatTime = Window
    \/ \E k \in DOMAIN m_node_vec : m_node_vec'[i] = m_node_vec[k]

\* Steps that leave a node alone leave it in time.
LEMMA InTimeKept ==
  ASSUME ServerSafe, NodesSafe, NEW n \in Nodes, InTime(n),
         npc'[n] = npc[n], nwake'[n] = nwake[n],
         Answered(call'[n]) => Answered(call[n]),
         n \in missed => n \in missed',
         HeardOf(n)' => HeardOf(n) \/ n \in missed' \/ Nod!Beats(n),
         OldOrFresh(n)
  PROVE  InTime(n)'
<1> USE ClusterAssumption
<1>1. nwake[n] \in Nat
  BY DEF NodesSafe, Nod!NodeTypeOK
<1>2. Nod!Beats(n)' <=> Nod!Beats(n)
  BY DEF Nod!Beats
<1>3. /\ nwake'[n] <= Window + HB_WAIT
      /\ npc'[n] = "wait" => Window <= nwake'[n]
  BY DEF InTime
<1>4. Nod!Beats(n)' \/ ~HeardOf(n)' \/ n \in missed'
  BY <1>2, Zenon DEF InTime
<1>5. ASSUME Nod!Beats(n), n \notin missed', NEW i \in DOMAIN m_node_vec',
             m_node_vec'[i].node = n
      PROVE  /\ npc'[n] = "wait" => m_node_vec'[i].lHeartBeatTime + HB_WAIT >= nwake'[n]
             /\ npc'[n] # "wait" => m_node_vec'[i].lHeartBeatTime + HB_WAIT >= Window
             /\ Answered(call'[n]) => m_node_vec'[i].lHeartBeatTime = Window
  <2>1. CASE m_node_vec'[i].lHeartBeatTime = Window
    BY <1>1, <1>3, <2>1
  <2>2. CASE \E k \in DOMAIN m_node_vec : m_node_vec'[i] = m_node_vec[k]
    BY <1>5, <2>2 DEF InTime
  <2> QED
    BY <1>5, <2>1, <2>2 DEF OldOrFresh
<1> QED
  BY <1>2, <1>3, <1>4, <1>5, Zenon DEF InTime
-----------------------------------------------------------------------------
(* Steps of one node *)

\* SetCall changes the message of one node.
LEMMA SetCallDoes ==
  ASSUME NEW n \in Nodes, NEW c, DOMAIN call = Nodes, SetCall(n, c)
  PROVE  /\ DOMAIN call' = Nodes /\ call'[n] = c
         /\ \A k \in Nodes \ {n} : call'[k] = call[k]
BY DEF SetCall

\* A call is of one node only.
LEMMA CallOfOne ==
  ASSUME NEW m, NEW n, NEW k, IsCallOf(m, n), IsCallOf(m, k)
  PROVE  n = k
<1>1. send_registClient(Address(n)) # send_heartbeat(Address(k))
  BY Methods, Zenon
<1>2. send_registClient(Address(k)) # send_heartbeat(Address(n))
  BY Methods, Zenon
<1>3. \A x : /\ registClient_args(send_registClient(Address(x))) = {Address(x)}
             /\ heartbeat_args(send_heartbeat(Address(x))) = {Address(x)}
  BY ArgumentsArrive, Zenon DEF Address
<1>4. {Address(n)} = {Address(k)}
  BY <1>1, <1>2, <1>3, Zenon DEF IsCallOf
<1>5. Address(n) = Address(k)
  BY <1>4, Zenon
<1> QED
  BY <1>5 DEF Address, Info

\* What a node waits for in a call that is not answered yet is its own call.
LEMMA TakesCall ==
  ASSUME NodesSafe, NEW n \in Nodes, Takes(call[n])
  PROVE  /\ IsCallOf(call[n], n)
         /\ \/ npc[n] = "register" /\ call[n] = send_registClient(Address(n))
            \/ npc[n] = "heartbeat" /\ call[n] = send_heartbeat(Address(n))
<1>1. CallMatches(n)
  BY DEF NodesSafe
<1>2. /\ call[n] # NoMsg /\ call[n] # Broken
      /\ \A r : call[n] # process_registClient(r) /\ call[n] # process_heartbeat(r)
  BY Kinds
<1> QED
  BY ONLY <1>1, <1>2, Zenon DEF CallMatches, IsCallOf

\* A node in a call beats.
LEMMA CallerBeats ==
  ASSUME NEW n, npc[n] \in {"top", "register", "heartbeat", "wait"}
  PROVE  Nod!Beats(n)
BY DEF Nod!Beats, Nod!Threadless

\* A step of node n and nothing else that matters to the others.
OnlyNode(n) ==
  /\ \A k \in Nodes \ {n} :
       /\ npc'[k] = npc[k] /\ nwake'[k] = nwake[k] /\ call'[k] = call[k]
       /\ k \in missed <=> k \in missed'
  /\ DOMAIN call' = Nodes
  /\ UNCHANGED <<now, m_node_vec, lCheckTime>>
  /\ stray' \subseteq stray \/ (Takes(call[n]) /\ stray' = stray \cup {call[n]})

\* A step of one node keeps the others in time.
LEMMA OthersInTime ==
  ASSUME IInv, NEW n \in Nodes, OnlyNode(n), InTime(n)'
  PROVE  Punctual'
<1> USE DEF IInv
<1>1. now' = Window /\ lCheckTime' <= Window
  BY DEF Punctual, OnlyNode
<1>2. ASSUME NEW k \in Nodes \ {n}
      PROVE  InTime(k)'
  <2>1. OldOrFresh(k)
    BY DEF OldOrFresh, OnlyNode
  <2>2. HeardOf(k)' => HeardOf(k)
    <3>1. Srv!Registered' = Srv!Registered
      BY DEF OnlyNode, Srv!Registered
    <3>2. \A m \in stray' : IsCallOf(m, k) => m \in stray
      <4>1. Takes(call[n]) => IsCallOf(call[n], n)
        BY TakesCall
      <4>2. Takes(call[n]) => ~IsCallOf(call[n], k)
        BY <4>1, CallOfOne
      <4> QED
        BY <4>2, Zenon DEF OnlyNode
    <3> QED
      BY <3>1, <3>2, Zenon DEF HeardOf
  <2>3. /\ npc'[k] = npc[k] /\ nwake'[k] = nwake[k] /\ call'[k] = call[k]
        /\ k \in missed <=> k \in missed'
    BY Zenon DEF OnlyNode
  <2>4. InTime(k)
    BY DEF Punctual
  <2> QED
    BY <2>1, <2>2, <2>3, <2>4, InTimeKept
<1> QED
  BY <1>1, <1>2 DEF Punctual

\* The calls of the other nodes, and the stray ones, are as they were.
LEMMA OthersMatch ==
  ASSUME NodesSafe, NEW n \in Nodes, OnlyNode(n), CallMatches(n)'
  PROVE  /\ \A k \in Nodes : CallMatches(k)'
         /\ \A m \in stray' : \E k \in Nodes : IsCallOf(m, k)
<1>1. \A k \in Nodes \ {n} : CallMatches(k)'
  BY DEF NodesSafe, OnlyNode, CallMatches
<1>2. \A m \in stray' : \E k \in Nodes : IsCallOf(m, k)
  BY TakesCall, Zenon DEF NodesSafe, OnlyNode
<1> QED
  BY <1>1, <1>2

\* So a step of one node keeps the invariant if it keeps the node's part.
LEMMA NodeStep ==
  ASSUME IInv, NEW n \in Nodes, OnlyNode(n), CallMatches(n)', InTime(n)',
         Nod!NodeTypeOK', missed' \subseteq Nodes, srvUp' \in BOOLEAN,
         UNCHANGED serverVars, WorkSafe', faults' \in 0..MaxFaults
  PROVE  IInv'
<1>1. ServerSafe'
  BY ServerSame DEF IInv, OnlyNode
<1>2. NodesSafe'
  BY OthersMatch DEF IInv, NodesSafe, OnlyNode, IsCallOf
<1>3. Punctual'
  BY OthersInTime
<1> QED
  BY <1>1, <1>2, <1>3 DEF IInv

\* Faults stay within their bound.
LEMMA FaultCounts ==
  ASSUME faults \in 0..MaxFaults, Fault
  PROVE  faults' \in 0..MaxFaults
BY ClusterAssumption DEF Fault

\* A node makes a call.
LEMMA CallOutInv ==
  ASSUME IInv, NEW n \in Nodes, CallOut(n)
  PROVE  IInv'
<1> USE DEF IInv
<1>1. PICK c \in {send_registClient(Address(n)), send_heartbeat(Address(n))} :
        SetCall(n, c)
  BY Zenon DEF CallOut
<1>2. /\ DOMAIN call' = Nodes /\ call'[n] = c
      /\ \A k \in Nodes \ {n} : call'[k] = call[k]
  BY <1>1, SetCallDoes DEF NodesSafe
<1>3. /\ npc[n] = "top" /\ npc'[n] \in {"register", "heartbeat"}
      /\ \A k \in Nodes \ {n} : npc'[k] = npc[k]
      /\ UNCHANGED <<now, nwake, m_bregister_ok, serving>>
      /\ npc'[n] = "register" => SetCall(n, send_registClient(Address(n)))
      /\ npc'[n] = "heartbeat" => SetCall(n, send_heartbeat(Address(n)))
  BY DEF CallOut, Nod!RegisterCall, Nod!HeartBeatCall, NodesSafe, Nod!NodeTypeOK
<1>4. OnlyNode(n)
  BY <1>2, <1>3 DEF OnlyNode, CallOut, serverVars
<1>5. CallMatches(n)'
  BY <1>3, SetCallDoes DEF CallMatches, NodesSafe
<1>6. Nod!NodeTypeOK'
  BY DEF CallOut, Nod!RegisterCall, Nod!HeartBeatCall, NodesSafe, Nod!NodeTypeOK
<1>7. InTime(n)'
  <2>1. InTime(n) /\ Nod!Beats(n) /\ Nod!Beats(n)'
    BY <1>3, CallerBeats DEF Punctual, Nod!Beats, Nod!Threadless
  <2>2. ~Answered(call'[n])
    BY <1>1, <1>2, Kinds, Zenon
  <2> QED
    BY <1>3, <2>1, <2>2 DEF InTime, CallOut, serverVars
<1>8. WorkSafe'
  BY WorkSame DEF CallOut, serverVars
<1> QED
  BY <1>4, <1>5, <1>6, <1>7, <1>8, NodeStep DEF CallOut, NodesSafe
-----------------------------------------------------------------------------
(* Steps of the server's handlers *)

\* A registration or heartbeat of n, from its call or from a stray one.
Handles(n) ==
  /\ Srv!RegisterWork(n) \/ \E b \in BOOLEAN : Srv!HeartBeatWork(n, b)
  /\ UNCHANGED nodeVars
  /\ stray' \subseteq stray
  /\ \A k \in Nodes \ {n} : call'[k] = call[k] /\ (k \in missed <=> k \in missed')

\* What a handler does to the table keeps all others in time.
LEMMA HandlesStep ==
  ASSUME IInv, NEW n \in Nodes, Handles(n)
  PROVE  /\ ServerSafe' /\ Heard(n) /\ OldOrFresh(n)
         /\ now' = Window /\ lCheckTime' <= Window /\ task' = task
         /\ \A k \in Nodes \ {n} : InTime(k)'
<1> USE DEF IInv
<1>1. ServerSafe' /\ Heard(n) /\ UNCHANGED <<now, lCheckTime, task>>
  BY HandlerStep DEF Handles, ServerSafe
<1>2. now = Window /\ lCheckTime <= Window
  BY DEF Punctual
<1>3. \A k \in Nodes : OldOrFresh(k)
  BY <1>1, <1>2 DEF Heard, OldOrFresh
<1>4. ASSUME NEW k \in Nodes \ {n}
      PROVE  InTime(k)'
  <2>1. k \in Srv!Registered' => k \in Srv!Registered
    BY <1>1 DEF Heard, Srv!Registered
  <2>2. HeardOf(k)' => HeardOf(k)
    BY <2>1, Zenon DEF HeardOf, Handles
  <2>3. /\ npc'[k] = npc[k] /\ nwake'[k] = nwake[k] /\ call'[k] = call[k]
        /\ k \in missed <=> k \in missed'
    BY DEF Handles, nodeVars
  <2>4. InTime(k) /\ k \in Nodes
    BY DEF Punctual
  <2> QED
    BY <1>3, <2>2, <2>3, <2>4, InTimeKept
<1> QED
  BY <1>1, <1>2, <1>3, <1>4

\* The node whose call was handled: its entry, if any, is of this moment.
LEMMA HandledInv ==
  ASSUME IInv, NEW n \in Nodes, Handles(n), npc[n] \in {"register", "heartbeat"},
         CallMatches(n)', DOMAIN call' = Nodes, missed' \subseteq Nodes,
         UNCHANGED <<srvUp, work, runs, faults>>
  PROVE  IInv'
<1> USE ClusterAssumption DEF IInv
<1>1. /\ ServerSafe' /\ Heard(n)
      /\ now' = Window /\ lCheckTime' <= Window /\ task' = task
      /\ \A k \in Nodes \ {n} : InTime(k)'
  BY HandlesStep
<1>2. now = Window /\ InTime(n) /\ nwake[n] \in Nat
  BY DEF Punctual, NodesSafe, Nod!NodeTypeOK
<1>3. Nod!Beats(n) /\ Nod!Beats(n)' /\ npc'[n] # "wait" /\ nwake'[n] = nwake[n]
  BY DEF Handles, nodeVars, Nod!Beats, Nod!Threadless
<1>4. InTime(n)'
  <2>1. nwake[n] <= Window + HB_WAIT
    BY <1>2 DEF InTime
  <2>2. Window <= Window + HB_WAIT
    OBVIOUS
  <2>3. \A i \in DOMAIN m_node_vec' :
          m_node_vec'[i].node = n => m_node_vec'[i].lHeartBeatTime = Window
    BY <1>1, <1>2 DEF Heard
  <2> QED
    BY <1>3, <2>1, <2>2, <2>3 DEF InTime
<1>5. NodesSafe'
  <2>1. Nod!NodeTypeOK'
    BY DEF NodesSafe, Handles, nodeVars, Nod!NodeTypeOK
  <2>2. \A k \in Nodes \ {n} : CallMatches(k)'
    BY DEF NodesSafe, Handles, nodeVars, CallMatches
  <2>3. \A m \in stray' : \E k \in Nodes : IsCallOf(m, k)
    BY DEF NodesSafe, Handles
  <2> QED
    BY <2>1, <2>2, <2>3 DEF NodesSafe, IsCallOf
<1>6. WorkSafe'
  BY <1>1, WorkSame
<1> QED
  BY <1>1, <1>4, <1>5, <1>6 DEF Punctual

\* The server handles a registration.
LEMMA HandleRegistInv ==
  ASSUME IInv, NEW n \in Nodes, HandleRegist(n)
  PROVE  IInv'
<1> USE DEF IInv
<1>1. npc[n] = "register" /\ call[n] = send_registClient(Address(n))
  BY TakesCall, Methods, Zenon DEF HandleRegist
<1>2. Srv!RegisterWork(n)
  BY <1>1, RegistNamesCaller, Zenon DEF HandleRegist
<1>3. SetCall(n, process_registClient(Returned("SUCCESS")))
  BY <1>1, Dispatched, Zenon DEF HandleRegist
<1>4. /\ DOMAIN call' = Nodes /\ call'[n] = process_registClient(Returned("SUCCESS"))
      /\ \A k \in Nodes \ {n} : call'[k] = call[k]
  BY <1>3, SetCallDoes DEF NodesSafe
<1>5. Handles(n)
  BY <1>2, <1>4 DEF Handles, HandleRegist
<1>6. CallMatches(n)'
  BY <1>1, <1>4 DEF CallMatches, HandleRegist, nodeVars
<1> QED
  BY <1>1, <1>4, <1>5, <1>6, HandledInv DEF HandleRegist, NodesSafe

\* The server handles a heartbeat.
LEMMA HandleHeartBeatInv ==
  ASSUME IInv, NEW n \in Nodes, HandleHeartBeat(n)
  PROVE  IInv'
<1> USE DEF IInv
<1>1. npc[n] = "heartbeat" /\ call[n] = send_heartbeat(Address(n))
  BY TakesCall, Methods, Zenon DEF HandleHeartBeat
<1>2. PICK b \in BOOLEAN :
        /\ HeartBeatHandler(call[n], b)
        /\ SetCall(n, RegistDispatch(call[n], Returned(b)))
  BY DEF HandleHeartBeat
<1>3. Srv!HeartBeatWork(n, b)
  BY <1>1, <1>2, HeartBeatNamesCaller, Zenon
<1>4. SetCall(n, process_heartbeat(Returned(b)))
  BY <1>1, <1>2, Dispatched, Zenon
<1>5. /\ DOMAIN call' = Nodes /\ call'[n] = process_heartbeat(Returned(b))
      /\ \A k \in Nodes \ {n} : call'[k] = call[k]
  BY <1>4, SetCallDoes DEF NodesSafe
<1>6. Handles(n)
  BY <1>3, <1>5 DEF Handles, HandleHeartBeat
<1>7. CallMatches(n)'
  BY <1>1, <1>5 DEF CallMatches, HandleHeartBeat, nodeVars
<1> QED
  BY <1>1, <1>5, <1>6, <1>7, HandledInv DEF HandleHeartBeat, NodesSafe

\* A handler of the server throws.
LEMMA HandlerThrowsInv ==
  ASSUME IInv, NEW n \in Nodes, HandlerThrows(n)
  PROVE  IInv'
<1> USE DEF IInv
<1>1. \/ npc[n] = "register" /\ SetCall(n, process_registClient(Threw))
      \/ npc[n] = "heartbeat" /\ SetCall(n, process_heartbeat(Threw))
  BY TakesCall, Dispatched, Zenon DEF HandlerThrows
<1>2. /\ DOMAIN call' = Nodes
      /\ \A k \in Nodes \ {n} : call'[k] = call[k]
      /\ \/ npc[n] = "register" /\ call'[n] = process_registClient(Threw)
         \/ npc[n] = "heartbeat" /\ call'[n] = process_heartbeat(Threw)
  BY <1>1, SetCallDoes DEF NodesSafe
<1>3. OnlyNode(n)
  BY <1>2 DEF OnlyNode, HandlerThrows, nodeVars, serverVars
<1>4. CallMatches(n)'
  BY <1>2 DEF CallMatches, HandlerThrows, nodeVars
<1>5. Nod!NodeTypeOK'
  BY DEF NodesSafe, HandlerThrows, nodeVars, Nod!NodeTypeOK
<1>6. InTime(n)'
  <2>1. n \in missed'
    BY DEF HandlerThrows
  <2>2. InTime(n)
    BY DEF Punctual
  <2> QED
    BY <2>1, <2>2 DEF InTime, HandlerThrows, nodeVars
<1>7. WorkSafe' /\ faults' \in 0..MaxFaults
  BY WorkSame, FaultCounts DEF HandlerThrows, serverVars
<1> QED
  BY <1>3, <1>4, <1>5, <1>6, <1>7, NodeStep DEF HandlerThrows, NodesSafe

\* The server handles a call whose caller is gone.
LEMMA HandleStrayInv ==
  ASSUME IInv, NEW m \in stray, HandleStray(m)
  PROVE  IInv'
<1> USE DEF IInv
<1>1. PICK n \in Nodes : IsCallOf(m, n)
  BY DEF NodesSafe
<1>2. Srv!RegisterWork(n) \/ \E b \in BOOLEAN : Srv!HeartBeatWork(n, b)
  <2>1. CASE m = send_registClient(Address(n))
    <3>1. RegistHandler(m)
      BY <2>1, Methods, Zenon DEF HandleStray
    <3> QED
      BY <2>1, <3>1, RegistNamesCaller
  <2>2. CASE m = send_heartbeat(Address(n))
    <3>1. PICK b \in BOOLEAN : HeartBeatHandler(m, b)
      BY <2>2, Methods, Zenon DEF HandleStray
    <3> QED
      BY <2>2, <3>1, HeartBeatNamesCaller
  <2> QED
    BY <1>1, <2>1, <2>2 DEF IsCallOf
<1>3. Handles(n)
  BY <1>2 DEF Handles, HandleStray
<1>4. /\ ServerSafe' /\ OldOrFresh(n)
      /\ now' = Window /\ lCheckTime' <= Window /\ task' = task
      /\ \A k \in Nodes \ {n} : InTime(k)'
  BY <1>3, HandlesStep
<1>5. InTime(n)'
  <2>1. HeardOf(n) /\ InTime(n)
    BY <1>1, Zenon DEF HeardOf, Punctual
  <2>2. npc'[n] = npc[n] /\ nwake'[n] = nwake[n] /\ call'[n] = call[n] /\ missed' = missed
    BY DEF HandleStray, nodeVars
  <2> QED
    BY <1>4, <2>1, <2>2, InTimeKept
<1>6. NodesSafe'
  BY NodesSame DEF HandleStray, NodesSafe
<1>7. WorkSafe'
  BY <1>4, WorkSame DEF HandleStray
<1> QED
  BY <1>4, <1>5, <1>6, <1>7 DEF HandleStray, Punctual

-----------------------------------------------------------------------------
(* The other steps of a node *)

\* A node whose attempt failed, or that is known to have failed, is in time
\* whatever its entry says.
LEMMA MissedInTime ==
  ASSUME NEW n \in Nodes, n \in missed', nwake'[n] <= Window + HB_WAIT,
         npc'[n] = "wait" => Window <= nwake'[n]
  PROVE  InTime(n)'
BY DEF InTime

\* After an answer the node's entry is of this moment.
LEMMA AnsweredInTime ==
  ASSUME IInv, NEW n \in Nodes, Answered(call[n]), Nod!Beats(n), Nod!Beats(n)',
         ~Answered(call'[n]), missed' = missed, m_node_vec' = m_node_vec,
         nwake'[n] <= Window + HB_WAIT, nwake'[n] \in Nat,
         npc'[n] = "wait" => Window <= nwake'[n]
  PROVE  InTime(n)'
<1> USE ClusterAssumption
<1>1. InTime(n)
  BY DEF IInv, Punctual
<1>2. ASSUME n \notin missed, NEW i \in DOMAIN m_node_vec, m_node_vec[i].node = n
      PROVE  m_node_vec[i].lHeartBeatTime = Window
  BY <1>1, <1>2 DEF InTime
<1> QED
  BY <1>2 DEF InTime

\* What the return of a call does to the node's thread.
LEMMA Returns ==
  ASSUME IInv, NEW n \in Nodes, NEW ok \in BOOLEAN, NodeReturn(n, ok)
  PROVE  /\ npc[n] \in {"register", "heartbeat"}
         /\ \/ npc'[n] = "wait" /\ nwake'[n] = Window + HB_WAIT
            \/ npc'[n] = "top" /\ nwake'[n] = nwake[n]
         /\ \A k \in Nodes \ {n} : npc'[k] = npc[k] /\ nwake'[k] = nwake[k]
         /\ Nod!NodeTypeOK' /\ UNCHANGED <<now, serving>>
<1>1. now = Window
  BY DEF IInv, Punctual
<1>2. /\ npc \in [Nodes -> Nod!Threadless \cup {"top", "register", "heartbeat", "wait"}]
      /\ m_bregister_ok \in [Nodes -> BOOLEAN] /\ nwake \in [Nodes -> Nat]
      /\ serving \subseteq Nodes
  BY DEF IInv, NodesSafe, Nod!NodeTypeOK
<1>3. now + HB_WAIT \in Nat
  BY <1>1, ClusterAssumption
<1>4. /\ npc[n] \in {"register", "heartbeat"}
      /\ \/ npc' = [npc EXCEPT ![n] = "top"] /\ UNCHANGED nwake
         \/ /\ npc' = [npc EXCEPT ![n] = "wait"]
            /\ nwake' = [nwake EXCEPT ![n] = now + HB_WAIT]
      /\ m_bregister_ok' \in [Nodes -> BOOLEAN] /\ UNCHANGED <<now, serving>>
  <2>1. CASE Nod!RegisterReturn(n, ok)
    BY <1>2, <2>1 DEF Nod!RegisterReturn, Nod!Sleep
  <2>2. CASE Nod!HeartBeatReturn(n, ok)
    BY <1>2, <2>2 DEF Nod!HeartBeatReturn, Nod!Sleep
  <2> QED
    BY <2>1, <2>2 DEF NodeReturn
<1>5. Nod!NodeTypeOK'
  BY <1>2, <1>3, <1>4 DEF Nod!NodeTypeOK
<1> QED
  BY <1>1, <1>2, <1>4, <1>5

\* A node gets its answer.
LEMMA CallBackInv ==
  ASSUME IInv, NEW n \in Nodes, CallBack(n)
  PROVE  IInv'
<1> USE DEF IInv
<1>1. PICK ok \in BOOLEAN : NodeReturn(n, ok)
  BY Zenon DEF CallBack
<1>2. /\ npc[n] \in {"register", "heartbeat"}
      /\ \/ npc'[n] = "wait" /\ nwake'[n] = Window + HB_WAIT
         \/ npc'[n] = "top" /\ nwake'[n] = nwake[n]
      /\ \A k \in Nodes \ {n} : npc'[k] = npc[k] /\ nwake'[k] = nwake[k]
      /\ Nod!NodeTypeOK' /\ UNCHANGED <<now, serving>>
  BY <1>1, Returns
<1>3. /\ DOMAIN call' = Nodes /\ call'[n] = NoMsg
      /\ \A k \in Nodes \ {n} : call'[k] = call[k]
  BY SetCallDoes DEF NodesSafe, CallBack
<1>4. OnlyNode(n)
  <2>1. UNCHANGED <<m_node_vec, lCheckTime, missed, stray>>
    BY DEF CallBack, serverVars
  <2> QED
    BY ONLY <1>2, <1>3, <2>1 DEF OnlyNode
<1>5. CallMatches(n)'
  BY <1>3 DEF CallMatches
<1>6. InTime(n)'
  <2>1. Nod!Beats(n) /\ Nod!Beats(n)'
    BY <1>2 DEF Nod!Beats, Nod!Threadless
  <2>2. Answered(call[n]) /\ ~Answered(call'[n])
    BY <1>3, Kinds, Zenon DEF CallBack
  <2>3. InTime(n) /\ nwake[n] \in Nat
    BY DEF Punctual, NodesSafe, Nod!NodeTypeOK
  <2>4. /\ nwake'[n] <= Window + HB_WAIT /\ nwake'[n] \in Nat
        /\ npc'[n] = "wait" => Window <= nwake'[n]
    <3>1. nwake[n] <= Window + HB_WAIT /\ Window \in Nat /\ HB_WAIT \in Nat
      BY <2>3, ClusterAssumption DEF InTime
    <3> QED
      BY ONLY <1>2, <2>3, <3>1
  <2> QED
    BY <2>1, <2>2, <2>4, AnsweredInTime DEF CallBack, serverVars
<1>7. WorkSafe'
  BY WorkSame DEF CallBack, serverVars
<1> QED
  BY <1>2, <1>4, <1>5, <1>6, <1>7, NodeStep DEF CallBack, NodesSafe

\* A node gets an exception instead.
LEMMA CallThrowsInv ==
  ASSUME IInv, NEW n \in Nodes, CallThrows(n), faults' \in 0..MaxFaults
  PROVE  IInv'
<1> USE DEF IInv
<1>1. /\ npc[n] \in {"register", "heartbeat"}
      /\ \/ npc'[n] = "wait" /\ nwake'[n] = Window + HB_WAIT
         \/ npc'[n] = "top" /\ nwake'[n] = nwake[n]
      /\ \A k \in Nodes \ {n} : npc'[k] = npc[k] /\ nwake'[k] = nwake[k]
      /\ Nod!NodeTypeOK' /\ UNCHANGED <<now, serving>>
  BY Returns DEF CallThrows
<1>2. /\ DOMAIN call' = Nodes /\ call'[n] = NoMsg
      /\ \A k \in Nodes \ {n} : call'[k] = call[k]
  BY SetCallDoes DEF NodesSafe, CallThrows
<1>3. OnlyNode(n)
  <2>1. /\ UNCHANGED <<m_node_vec, lCheckTime>> /\ missed' = missed \cup {n}
        /\ stray' = stray \/ (Takes(call[n]) /\ stray' = stray \cup {call[n]})
    BY DEF CallThrows, Abandon, serverVars
  <2> QED
    BY ONLY <1>1, <1>2, <2>1 DEF OnlyNode
<1>4. CallMatches(n)'
  BY <1>2 DEF CallMatches
<1>5. InTime(n)'
  <2>1. InTime(n) /\ nwake[n] \in Nat
    BY DEF Punctual, NodesSafe, Nod!NodeTypeOK
  <2>2. /\ nwake'[n] <= Window + HB_WAIT
        /\ npc'[n] = "wait" => Window <= nwake'[n]
    <3>1. nwake[n] <= Window + HB_WAIT /\ Window \in Nat /\ HB_WAIT \in Nat
      BY <2>1, ClusterAssumption DEF InTime
    <3> QED
      BY ONLY <1>1, <2>1, <3>1
  <2> QED
    BY <2>2, MissedInTime DEF CallThrows
<1>6. WorkSafe'
  BY WorkSame DEF CallThrows, serverVars
<1> QED
  BY <1>1, <1>3, <1>4, <1>5, <1>6, NodeStep DEF CallThrows, NodesSafe

\* Starting, failing to start and waking up.
LEMMA NodeStartsInv ==
  ASSUME IInv, NEW n \in Nodes,
         NodeStarts(n) \/ NodeStartFails(n) \/ NodeWakes(n)
  PROVE  IInv'
<1> USE DEF IInv
<1>1. UNCHANGED <<now, nwake, serverVars, srvUp, netVars>>
  BY DEF NodeStarts, NodeStartFails, NodeWakes, Nod!StartServer, Nod!StartService,
         Nod!StartFails, Nod!Wake
<1>2. /\ \/ npc' = npc
         \/ npc[n] = "down" /\ npc' = [npc EXCEPT ![n] = "top"]
         \/ \E stop \in {"failed", "joining"} :
              npc[n] = "down" /\ npc' = [npc EXCEPT ![n] = stop]
         \/ npc[n] = "wait" /\ now >= nwake[n] /\ npc' = [npc EXCEPT ![n] = "top"]
      /\ m_bregister_ok' \in [Nodes -> BOOLEAN]
      /\ serving' \subseteq Nodes
  BY DEF NodeStarts, NodeStartFails, NodeWakes, Nod!StartServer, Nod!StartService,
         Nod!StartFails, Nod!Wake, NodesSafe, Nod!NodeTypeOK
<1>3. /\ \A k \in Nodes \ {n} : npc'[k] = npc[k]
      /\ \/ npc'[n] = npc[n]
         \/ npc[n] = "down" /\ npc'[n] \in {"top", "failed", "joining"}
         \/ npc[n] = "wait" /\ now >= nwake[n] /\ npc'[n] = "top"
  BY <1>2 DEF NodesSafe, Nod!NodeTypeOK
<1>4. OnlyNode(n)
  BY <1>1, <1>3 DEF OnlyNode, NodesSafe, serverVars, netVars
<1>5. Nod!NodeTypeOK'
  BY <1>1, <1>2 DEF NodesSafe, Nod!NodeTypeOK, Nod!Threadless
<1>6. CallMatches(n)'
  <2>1. CallMatches(n) /\ call' = call
    BY <1>1 DEF NodesSafe, netVars
  <2>2. npc'[n] # npc[n] => npc[n] \notin {"register", "heartbeat"}
    BY <1>3
  <2> QED
    BY <2>1, <2>2 DEF CallMatches
<1>7. InTime(n)'
  <2>1. InTime(n) /\ now = Window /\ nwake[n] \in Nat
    BY DEF Punctual, NodesSafe, Nod!NodeTypeOK
  <2>2. HeardOf(n)' <=> HeardOf(n)
    BY <1>1 DEF HeardOf, Srv!Registered, serverVars, netVars
  <2>3. CASE npc'[n] = npc[n]
    <3>1. OldOrFresh(n)
      BY <1>1 DEF OldOrFresh, serverVars
    <3> QED
      BY <1>1, <2>1, <2>2, <2>3, <3>1, InTimeKept DEF netVars
  <2>4. CASE npc[n] = "down" /\ npc'[n] \in {"top", "failed", "joining"}
    <3>1. ~Nod!Beats(n) /\ npc'[n] # "wait"
      BY <2>4 DEF Nod!Beats, Nod!Threadless
    <3>2. HeardOf(n)' => n \in missed'
      BY <1>1, <2>1, <2>2, <3>1 DEF InTime, netVars
    <3>3. nwake'[n] <= Window + HB_WAIT
      BY <1>1, <2>1 DEF InTime
    <3>4. \A i \in DOMAIN m_node_vec' : m_node_vec'[i].node = n => HeardOf(n)'
      BY DEF HeardOf, Srv!Registered
    <3> QED
      BY <3>1, <3>2, <3>3, <3>4, Zenon DEF InTime
  <2>5. CASE npc[n] = "wait" /\ now >= nwake[n] /\ npc'[n] = "top"
    <3>1. Nod!Beats(n) /\ Nod!Beats(n)' /\ npc'[n] # "wait" /\ nwake[n] = Window
      <4>1. Nod!Beats(n) /\ Nod!Beats(n)' /\ npc'[n] # "wait"
        BY <2>5 DEF Nod!Beats, Nod!Threadless
      <4>2. Window <= nwake[n] /\ Window \in Nat
        BY <2>1, <2>5, ClusterAssumption DEF InTime
      <4> QED
        BY ONLY <2>1, <2>5, <4>1, <4>2
    <3>2. UNCHANGED <<nwake, call, missed, m_node_vec>>
      BY <1>1 DEF serverVars, netVars
    <3>3. Window <= Window + HB_WAIT
      BY ClusterAssumption
    <3> QED
      BY ONLY <2>1, <2>5, <3>1, <3>2, <3>3 DEF InTime
  <2> QED
    BY <1>3, <2>3, <2>4, <2>5
<1>8. WorkSafe'
  BY <1>1, WorkSame DEF serverVars, netVars
<1>9. faults' \in 0..MaxFaults
  BY FaultCounts DEF NodeStarts, NodeStartFails, NodeWakes
<1> QED
  BY <1>1, <1>4, <1>5, <1>6, <1>7, <1>8, <1>9, NodeStep DEF NodesSafe, netVars

\* A node crashes; a request it made may be handled later.
LEMMA NodeCrashesInv ==
  ASSUME IInv, NEW n \in Nodes, NodeCrashes(n)
  PROVE  IInv'
<1> USE DEF IInv
<1>1. /\ DOMAIN call' = Nodes /\ call'[n] = NoMsg
      /\ \A k \in Nodes \ {n} : call'[k] = call[k]
  BY SetCallDoes DEF NodesSafe, NodeCrashes
<1>2. /\ npc'[n] = "down" /\ nwake'[n] = 0
      /\ \A k \in Nodes \ {n} : npc'[k] = npc[k] /\ nwake'[k] = nwake[k]
      /\ UNCHANGED now
  BY DEF NodeCrashes, Nod!Crash, NodesSafe, Nod!NodeTypeOK
<1>3. Nod!NodeTypeOK'
  BY DEF NodeCrashes, Nod!Crash, NodesSafe, Nod!NodeTypeOK, Nod!Threadless
<1>4. OnlyNode(n)
  BY <1>1, <1>2 DEF OnlyNode, NodeCrashes, Abandon, serverVars
<1>5. CallMatches(n)'
  BY <1>1 DEF CallMatches
<1>6. InTime(n)'
  BY <1>2, MissedInTime, ClusterAssumption DEF NodeCrashes
<1>7. WorkSafe'
  <2>1. /\ DOMAIN work' = Tasks /\ UNCHANGED <<task, runs>>
        /\ \A t \in Tasks : work'[t] = work[t] \/ (work[t] # NoMsg /\ work'[t] = Broken)
    BY DEF NodeCrashes, serverVars
  <2>2. /\ \A t \in Tasks : Broken # send_ClusterWork(t)
        /\ Broken # process_ClusterWork(Returned(TRUE))
    BY Kinds, Zenon
  <2>3. ASSUME NEW t \in Tasks
        PROVE  WorkMatches(t)' /\ RunsFit(t)'
    BY <2>1, <2>2 DEF WorkSafe, WorkMatches, RunsFit
  <2> QED
    BY <2>1, <2>3 DEF WorkSafe
<1> QED
  BY <1>3, <1>4, <1>5, <1>6, <1>7, NodeStep, FaultCounts DEF NodeCrashes, NodesSafe
=============================================================================
