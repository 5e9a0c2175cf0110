---------------------------- MODULE MqMgrProofs -----------------------------
(***************************************************************************)
(* Proofs about a broker connection and its registry, for any endpoints,   *)
(* sessions and threads.                                                   *)
(***************************************************************************)
EXTENDS MqMgr, TLAPS

-----------------------------------------------------------------------------
(* The inductive invariant *)

\* Labels of the threads, by what they do there.
Dials == {"connect", "session", "store", "failed", "reconn", "join", "spawn"}
Listed == {"read", "queue", "handle", "cache"}
Destroys == {"delSession", "clearSession", "delConnection", "clearConnection"}
Quits == {"quit", "quitJoin", "quitClear", "destroy", "clear", "delete"} \cup Destroys
Locked == {"join", "spawn"} \cup Destroys
Rebuilds == {"start", "destroy", "connect", "session", "store", "failed", "wait",
             "rebuild"} \cup Destroys

CallerLabels ==
  {"idle", "new", "push", "send", "message", "post", "erase"}
    \cup Dials \cup Listed \cup Quits
ListenerLabels == {"idle", "reconn", "join", "spawn"}
ThreadLabels == {"none", "finish", "done"} \cup Rebuilds

Active(t) == pc[t] \notin {"none", "done"}

\* Threads and the lock.  A reconnect thread never gets to ReConn itself, since
\* the flag is set while it works.
ThreadsSafe ==
  /\ pc \in [Actors -> Labels] /\ joining \in [Actors -> Threads \cup {NULL}]
  /\ m_lockReConn \in Actors \cup {NULL} /\ m_bReConn \in BOOLEAN
  /\ pc[Caller] \in CallerLabels /\ pc[Listener] \in ListenerLabels
  /\ \A t \in Threads : pc[t] \in ThreadLabels
  /\ \A a \in Actors : pc[a] \in Locked <=> m_lockReConn = a
  /\ \A a \in Actors : pc[a] \in {"join", "quitJoin"} => joining[a] \in Threads
  /\ \A a \in Actors : pc[a] \in {"join", "spawn"} => ~m_bReConn
  /\ m_bReConn => \E t \in Threads : Active(t)
  /\ \A t \in Threads : Active(t) => m_bReConn
  /\ \A t, u \in Threads : Active(t) /\ Active(u) => t = u

\* The types of the connection and of the endpoints' fields.
ObjectsSafe ==
  /\ m_pConnection \in {NULL, "up", "failed", "deleted"}
  /\ m_pSession \in Sessions \cup {NULL} /\ arg \in [Actors -> Sessions \cup {NULL}]
  /\ m_sem \in BOOLEAN /\ raised \in BOOLEAN
  /\ m_thrdReConn \in Threads \cup {NULL}
  /\ ep \in [Endpoints -> [m_pSession : Sessions \cup {NULL}, handle : BOOLEAN]]
  /\ sess \in [Sessions -> {"free", "open", "closed"}]
  /\ fault \in {"none", "conn", "join", "reconn", "add", "send", "freed"}

\* A session on its way from createSession to the member is nobody else's: what
\* DestroyConn deletes meanwhile is another one.
SessionsSafe ==
  /\ \A a \in Actors : pc[a] = "store" => Allocated(arg[a]) /\ arg[a] # m_pSession
  /\ \A a, b \in Actors :
       pc[a] = "store" /\ pc[b] = "store" /\ arg[a] = arg[b] => a = b
  /\ DanglesOnlyInDestroy

\* Where the call in progress has left the registry.
Fresh(cached) == m_mapProcucer \ cached = (m_list \cap Producers) \ cached
                 /\ (m_list # {} => m_mapConn)
RegistrySafe ==
  /\ m_list \subseteq Endpoints /\ m_mapConn \in BOOLEAN
  /\ m_mapProcucer \subseteq Producers
  /\ cur \in Endpoints \cup {NULL} /\ task \in {"none", "add", "send", "del", "fini"}
  /\ pc[Caller] \in Dials \cup Listed \cup {"new", "push", "send", "message", "post"} =>
       cur \in Endpoints
  /\ pc[Caller] \in Dials => m_list = {}
  /\ pc[Caller] \in Dials \cup {"idle", "new", "push", "send", "message", "post"} =>
       Fresh({})
  /\ pc[Caller] = "push" => m_mapConn
  /\ pc[Caller] \in Listed => Fresh({cur}) /\ cur \in m_list
  /\ pc[Caller] \in Quits \cup {"erase"} => task \in {"del", "fini"}
  /\ pc[Caller] \in Quits /\ task = "del" => m_list = {} /\ m_mapProcucer \subseteq {cur}
  /\ pc[Caller] = "delete" => m_list = {}
  /\ pc[Caller] = "erase" /\ task = "fini" => m_list = {}
  /\ pc[Caller] = "erase" /\ task = "del" => Fresh({cur}) /\ cur \notin m_list

\* Once no reconnect thread has its rebuilding before it, every listed endpoint
\* has a session, but for the one whose Create is still to come.
Settled == \A t \in Threads : pc[t] \notin Rebuilds
EndpointsSafe ==
  fault = "none" /\ pc[Caller] \notin Quits =>
    /\ \A t \in Threads : pc[t] \in {"rebuild", "finish"} => m_pSession # NULL
    /\ Settled /\ m_pSession # NULL =>
         \A e \in m_list : \/ Allocated(ep[e].m_pSession)
                           \/ e = cur /\ pc[Caller] \in {"read", "queue"}

IInv == ThreadsSafe /\ ObjectsSafe /\ SessionsSafe /\ RegistrySafe /\ EndpointsSafe

-----------------------------------------------------------------------------
(* Threads and the lock *)

\* The caller, the callback's thread and the reconnect threads are different.
LEMMA ActorFacts ==
  /\ Caller \in Actors /\ Listener \in Actors /\ Threads \subseteq Actors
  /\ Caller # Listener /\ Caller \notin Threads /\ Listener \notin Threads
  /\ NULL \notin Actors
  /\ \A a \in Actors : a = Caller \/ a = Listener \/ a \in Threads
BY MqAssumption DEF Actors, Caller, Listener

\* Goto moves one thread.
LEMMA GotoDoes ==
  ASSUME pc \in [Actors -> Labels], NEW a \in Actors, NEW l \in Labels, Goto(a, l)
  PROVE  /\ pc' \in [Actors -> Labels] /\ pc'[a] = l
         /\ \A b \in Actors \ {a} : pc'[b] = pc[b]
BY DEF Goto

\* A move of one thread that has to do neither with the lock nor with the flag.
LEMMA PlainMove ==
  ASSUME ThreadsSafe, NEW a \in Actors, NEW l \in Labels \ Locked, Goto(a, l),
         pc[a] \notin Locked, UNCHANGED <<m_lockReConn, m_bReConn>>,
         joining' \in [Actors -> Threads \cup {NULL}],
         \A b \in Actors \ {a} : joining'[b] = joining[b],
         l = "quitJoin" => joining'[a] \in Threads,
         a = Caller => l \in CallerLabels,
         a = Listener => l \in ListenerLabels,
         a \in Threads => Active(a) /\ l \in ThreadLabels \ {"none", "done"}
  PROVE  ThreadsSafe'
<1> USE ActorFacts
<1>1. /\ pc' \in [Actors -> Labels] /\ pc'[a] = l
      /\ \A b \in Actors \ {a} : pc'[b] = pc[b]
  BY GotoDoes DEF ThreadsSafe
<1>2. \A t \in Threads : Active(t)' <=> Active(t)
  BY <1>1 DEF Active
<1>3. l \notin {"join", "spawn"}
  BY DEF Locked
<1> QED
  BY <1>1, <1>2, <1>3 DEF ThreadsSafe

\* No step of the threads, the lock and the flag.
LEMMA ThreadsSame ==
  ASSUME ThreadsSafe, UNCHANGED <<pc, joining, m_lockReConn, m_bReConn>>
  PROVE  ThreadsSafe'
BY DEF ThreadsSafe, Active

\* The holder of the lock is the only one at a label that needs it.
LEMMA LockMove ==
  ASSUME ThreadsSafe, NEW a \in Actors, NEW l \in Labels, Goto(a, l),
         \/ LockFree /\ l \in Locked /\ m_lockReConn' = a
         \/ pc[a] \in Locked /\ l \in Locked /\ m_lockReConn' = m_lockReConn
         \/ pc[a] \in Locked /\ l \notin Locked /\ m_lockReConn' = NULL,
         UNCHANGED m_bReConn,
         joining' \in [Actors -> Threads \cup {NULL}],
         \A b \in Actors \ {a} : joining'[b] = joining[b],
         l \in {"join", "quitJoin"} => joining'[a] \in Threads,
         l \in {"join", "spawn"} => ~m_bReConn,
         a = Caller => l \in CallerLabels,
         a = Listener => l \in ListenerLabels,
         a \in Threads => Active(a) /\ l \in ThreadLabels \ {"none", "done"}
  PROVE  ThreadsSafe'
<1> USE ActorFacts
<1>1. /\ pc' \in [Actors -> Labels] /\ pc'[a] = l
      /\ \A b \in Actors \ {a} : pc'[b] = pc[b]
  BY GotoDoes DEF ThreadsSafe
<1>2. \A t \in Threads : Active(t)' <=> Active(t)
  BY <1>1 DEF Active
<1>3. m_lockReConn' \in Actors \cup {NULL}
  BY DEF ThreadsSafe
<1>4. \A b \in Actors : pc'[b] \in Locked <=> m_lockReConn' = b
  BY <1>1 DEF ThreadsSafe, LockFree
<1> QED
  BY <1>1, <1>2, <1>3, <1>4 DEF ThreadsSafe

\* Conn: connecting, and what follows a failure, by the caller or by a thread.
LEMMA ConnThreads ==
  ASSUME ThreadsSafe, NEW a \in Actors, Conn(a)
  PROVE  ThreadsSafe'
<1> USE ActorFacts
<1> USE DEF Labels, Locked, CallerLabels, ListenerLabels, ThreadLabels, Dials, Quits,
            Listed, Rebuilds, Destroys
<1>1. CASE ConnDead(a)
  BY <1>1, ThreadsSame DEF ConnDead, reconn
<1>2. CASE ~ConnDead(a)
  <2>1. pc[a] \in {"connect", "session", "store", "failed"}
    BY <1>2 DEF Conn, ConnCreate, ConnSession, ConnStore, ConnThrows, ConnFailed
  <2>2. UNCHANGED <<joining, m_lockReConn, m_bReConn>>
    BY <1>2 DEF Conn, ConnCreate, ConnSession, ConnStore, ConnThrows, ConnFailed, reconn
  <2>3. a # Listener /\ (a \in Threads => Active(a) /\ m_bReConn)
    BY <2>1 DEF ThreadsSafe, Active
  <2>4. \E l \in Labels \ Locked :
          /\ Goto(a, l) /\ l # "quitJoin"
          /\ a = Caller => l \in CallerLabels
          /\ a \in Threads => l \in ThreadLabels \ {"none", "done"}
    <3>1. CASE ConnCreate(a)
      BY <3>1 DEF ConnCreate
    <3>2. CASE ConnSession(a) \/ ConnStore(a)
      BY <3>2 DEF ConnSession, ConnStore, AfterConn
    <3>3. CASE ConnThrows(a)
      BY <3>3 DEF ConnThrows
    <3>4. CASE ConnFailed(a)
      BY <2>3, <3>4 DEF ConnFailed, AfterReConn
    <3> QED
      BY <1>2, <3>1, <3>2, <3>3, <3>4 DEF Conn
  <2> HIDE DEF Labels, Locked, CallerLabels, ListenerLabels, ThreadLabels
  <2>5. pc[a] \notin Locked
    BY <2>1 DEF Locked
  <2>6. joining \in [Actors -> Threads \cup {NULL}]
    BY DEF ThreadsSafe
  <2>7. PICK l \in Labels \ Locked :
          /\ Goto(a, l) /\ l # "quitJoin"
          /\ a = Caller => l \in CallerLabels
          /\ a \in Threads => l \in ThreadLabels \ {"none", "done"}
    BY <2>4
  <2> QED
    BY <2>2, <2>3, <2>5, <2>6, <2>7, PlainMove
<1> QED
  BY <1>1, <1>2

\* A handle waited for is freed: its thread was done and is none.
LEMMA JoinedThreads ==
  ASSUME ThreadsSafe, NEW a \in {Caller, Listener}, NEW l \in Labels, Joined(a, l),
         \/ pc[a] = "join" /\ l = "spawn"
         \/ pc[a] = "quitJoin" /\ l = "quitClear",
         UNCHANGED <<m_lockReConn, m_bReConn>>
  PROVE  ThreadsSafe'
<1> USE ActorFacts
<1> USE DEF Labels, Locked, CallerLabels, ListenerLabels, ThreadLabels, Dials, Quits,
            Listed, Rebuilds, Destroys
<1> DEFINE t == joining[a]
<1>1. t \in Threads /\ pc[t] = "done" /\ t # a
  BY DEF ThreadsSafe, Joined
<1>2. /\ pc' \in [Actors -> Labels] /\ pc'[a] = l /\ pc'[t] = "none"
      /\ \A b \in Actors \ {a, t} : pc'[b] = pc[b]
  BY <1>1 DEF ThreadsSafe, Joined
<1>3. /\ joining' \in [Actors -> Threads \cup {NULL}]
      /\ \A b \in Actors \ {a} : joining'[b] = joining[b]
  BY DEF ThreadsSafe, Joined
<1> HIDE DEF t
<1>4. \A u \in Threads : Active(u)' <=> Active(u)
  BY <1>1, <1>2 DEF Active
<1>5. /\ pc'[Caller] \in CallerLabels /\ pc'[Listener] \in ListenerLabels
      /\ \A u \in Threads : pc'[u] \in ThreadLabels
  BY <1>1, <1>2 DEF ThreadsSafe
<1>6. \A b \in Actors : pc'[b] \in Locked <=> pc[b] \in Locked
  BY <1>1, <1>2
<1>7. \A b \in Actors : pc'[b] \in {"join", "quitJoin"} => b # a /\ pc'[b] = pc[b]
  BY <1>1, <1>2
<1>8. \A b \in Actors : pc'[b] \in {"join", "spawn"} => pc[b] \in {"join", "spawn"}
  BY <1>1, <1>2
<1> HIDE DEF Labels, Locked, CallerLabels, ListenerLabels, ThreadLabels
<1> QED
  BY <1>1, <1>2, <1>3, <1>4, <1>5, <1>6, <1>7, <1>8 DEF ThreadsSafe

\* ReConn: under the lock no thread works, so the one it starts is the only one.
LEMMA ReConnThreads ==
  ASSUME ThreadsSafe, ObjectsSafe, NEW a \in Actors, ReConn(a)
  PROVE  ThreadsSafe'
<1> USE ActorFacts
<1> USE DEF Labels, Locked, CallerLabels, ListenerLabels, ThreadLabels, Dials, Quits,
            Listed, Rebuilds, Destroys
<1>1. CASE JoinsFreed(a)
  BY <1>1, ThreadsSame DEF JoinsFreed, reconn
<1>2. CASE ~JoinsFreed(a)
  <2>1. pc[a] \in {"reconn", "join", "spawn"} /\ a \in {Caller, Listener}
    BY <1>2 DEF ReConn, ReConnAlready, ReConnEnter, ReConnJoin, ReConnSpawn,
                ReConnSpawnFail, ThreadsSafe
  <2>2. /\ AfterReConn(a) \in Labels \ Locked /\ AfterReConn(a) # "quitJoin"
        /\ a = Caller => AfterReConn(a) \in CallerLabels
        /\ a = Listener => AfterReConn(a) \in ListenerLabels
    BY <2>1 DEF AfterReConn
  <2>3. joining \in [Actors -> Threads \cup {NULL}]
    BY DEF ThreadsSafe
  <2>4. CASE ReConnAlready(a)
    <3>1. pc[a] \notin Locked /\ UNCHANGED <<joining, m_lockReConn, m_bReConn>>
      BY <2>4 DEF ReConnAlready, reconn
    <3> QED
      BY <2>1, <2>2, <2>3, <2>4, <3>1, PlainMove DEF ReConnAlready
  <2>5. CASE ReConnEnter(a)
    <3>1. PICK l \in {"join", "spawn"} :
            /\ Goto(a, l)
            /\ joining' \in [Actors -> Threads \cup {NULL}]
            /\ \A b \in Actors \ {a} : joining'[b] = joining[b]
            /\ l = "join" => joining'[a] \in Threads
      BY <2>3, <2>5 DEF ReConnEnter, ObjectsSafe
    <3>2. l \in Labels /\ l \in Locked /\ l \in CallerLabels /\ l \in ListenerLabels
      OBVIOUS
    <3> HIDE DEF Labels, Locked, CallerLabels, ListenerLabels, ThreadLabels
    <3> QED
      BY <2>1, <2>5, <3>1, <3>2, LockMove DEF ReConnEnter
  <2>6. CASE ReConnJoin(a)
    <3>1. "spawn" \in Labels
      OBVIOUS
    <3> QED
      BY <2>1, <2>6, <3>1, JoinedThreads DEF ReConnJoin
  <2>7. CASE ReConnSpawnFail(a)
    <3>1. Goto(a, AfterReConn(a)) /\ UNCHANGED <<joining, m_bReConn>>
      BY <2>7 DEF ReConnSpawnFail, FlagOnSpawnFail
    <3>2. pc[a] \in Locked /\ m_lockReConn' = NULL /\ AfterReConn(a) \notin {"join", "spawn"}
      BY <2>2, <2>7 DEF ReConnSpawnFail
    <3> HIDE DEF Labels, Locked, CallerLabels, ListenerLabels, ThreadLabels
    <3> QED
      BY <2>1, <2>2, <2>3, <3>1, <3>2, LockMove
  <2>8. CASE ReConnSpawn(a)
    <3> DEFINE t == NewThread
    <3>1. t \in Threads /\ pc[t] = "none" /\ t # a
      BY <2>1, <2>8 DEF ReConnSpawn, NewThread, FreeThreads
    <3> HIDE DEF t
    <3>2. /\ pc' \in [Actors -> Labels] /\ pc'[a] = AfterReConn(a) /\ pc'[t] = "start"
          /\ \A b \in Actors \ {a, t} : pc'[b] = pc[b]
      BY <2>2, <2>8, <3>1 DEF ReConnSpawn, ThreadsSafe, t
    <3>3. pc[a] \in {"join", "spawn"} /\ pc[a] \in Locked
      BY <2>8 DEF ReConnSpawn
    <3>4. m_lockReConn = a /\ ~m_bReConn
      BY <3>3 DEF ThreadsSafe
    <3>5. \A u \in Threads : Active(u)' <=> u = t
      BY <3>1, <3>2, <3>4, <2>1 DEF ThreadsSafe, Active
    <3>6. \A b \in Actors : pc'[b] \notin Locked
      BY <2>2, <3>1, <3>2, <3>4 DEF ThreadsSafe
    <3>7. /\ pc'[Caller] \in CallerLabels /\ pc'[Listener] \in ListenerLabels
          /\ \A u \in Threads : pc'[u] \in ThreadLabels
      BY <2>1, <2>2, <3>1, <3>2 DEF ThreadsSafe
    <3>8. m_lockReConn' = NULL /\ m_bReConn' = TRUE /\ joining' = joining
      BY <2>8 DEF ReConnSpawn, FlagOnSpawn
    <3>9. \A b \in Actors : pc'[b] \in {"join", "quitJoin"} => pc'[b] = pc[b]
      BY <2>2, <3>1, <3>2
    <3>10. \A b \in Actors : pc'[b] \notin {"join", "spawn"}
      BY <3>6
    <3> HIDE DEF Labels, Locked, CallerLabels, ListenerLabels, ThreadLabels
    <3> QED
      BY <2>3, <3>1, <3>2, <3>5, <3>6, <3>7, <3>8, <3>9, <3>10 DEF ThreadsSafe
  <2> QED
    BY <1>2, <2>4, <2>5, <2>6, <2>7, <2>8 DEF ReConn
<1> QED
  BY <1>1, <1>2

\* DestroyConn: takes the lock, keeps it, and lets it go.
LEMMA DestroyThreads ==
  ASSUME ThreadsSafe, NEW a \in Actors, DestroyConn(a)
  PROVE  ThreadsSafe'
<1> USE ActorFacts
<1> USE DEF Labels, Locked, CallerLabels, ListenerLabels, ThreadLabels, Dials, Quits,
            Listed, Rebuilds, Destroys
<1>1. pc[a] \in {"destroy"} \cup Destroys
  BY DEF DestroyConn, DestroyEndpoints, DestroySession, ClearSession, DestroyConnection,
         ClearConnection
<1>2. a # Listener /\ (a \in Threads => Active(a))
  BY <1>1 DEF ThreadsSafe, Active
<1>3. UNCHANGED <<joining, m_bReConn>> /\ joining \in [Actors -> Threads \cup {NULL}]
  BY DEF DestroyConn, DestroyEndpoints, DestroySession, ClearSession, DestroyConnection,
         ClearConnection, reconn, ThreadsSafe
<1>4. PICK l \in Destroys \cup {"connect", "clear"} :
        /\ Goto(a, l)
        /\ \/ LockFree /\ l \in Locked /\ m_lockReConn' = a
           \/ pc[a] \in Locked /\ l \in Locked /\ m_lockReConn' = m_lockReConn
           \/ pc[a] \in Locked /\ l \notin Locked /\ m_lockReConn' = NULL
        /\ l = "connect" => a \in Threads
        /\ l = "clear" => a \notin Threads
  <2>1. CASE DestroyEndpoints(a)
    BY <2>1 DEF DestroyEndpoints
  <2>2. CASE DestroySession(a) \/ ClearSession(a) \/ DestroyConnection(a)
    BY <2>2 DEF DestroySession, ClearSession, DestroyConnection, reconn
  <2>3. CASE ClearConnection(a)
    BY <2>3 DEF ClearConnection, AfterDestroy
  <2> QED
    BY <2>1, <2>2, <2>3 DEF DestroyConn
<1>5. /\ l \in Labels /\ l \notin {"join", "spawn", "quitJoin", "none", "done"}
      /\ a = Caller => l \in CallerLabels
      /\ a \in Threads => l \in ThreadLabels
  BY <1>4
<1> HIDE DEF Labels, Locked, CallerLabels, ListenerLabels, ThreadLabels
<1> QED
  BY <1>2, <1>3, <1>4, <1>5, LockMove

\* DoReconnWork: the working thread sets the flag, which is set, and clears it.
LEMMA WorkThreads ==
  ASSUME ThreadsSafe, NEW t \in Threads, DoReconnWork(t)
  PROVE  ThreadsSafe'
<1> USE ActorFacts
<1> USE DEF Labels, Locked, CallerLabels, ListenerLabels, ThreadLabels, Dials, Quits,
            Listed, Rebuilds, Destroys
<1>1. /\ pc[t] \in {"start", "rebuild", "wait", "finish"} /\ pc[t] \notin Locked
      /\ Active(t) /\ m_bReConn
  <2>1. pc[t] \in {"start", "rebuild", "wait", "finish"}
    BY DEF DoReconnWork, ThreadStart, ReBuildConn, ThreadWait, ThreadFinish
  <2> QED
    BY <2>1 DEF ThreadsSafe, Active
<1>2. UNCHANGED <<joining, m_lockReConn>> /\ joining \in [Actors -> Threads \cup {NULL}]
  BY DEF DoReconnWork, ThreadStart, ReBuildConn, ThreadWait, ThreadFinish, reconn, ThreadsSafe
<1>3. CASE ThreadFinish(t)
  <2>1. /\ pc' \in [Actors -> Labels] /\ pc'[t] = "done"
        /\ \A b \in Actors \ {t} : pc'[b] = pc[b]
    BY <1>3, GotoDoes DEF ThreadFinish, ThreadsSafe
  <2>2. \A u \in Threads : ~Active(u)'
    BY <1>1, <2>1 DEF Active, ThreadsSafe
  <2>3. LockFree /\ m_bReConn' = FALSE
    BY <1>3 DEF ThreadFinish
  <2>4. \A b \in Actors : pc'[b] \notin Locked
    BY <2>1, <2>3 DEF ThreadsSafe, LockFree
  <2>5. /\ pc'[Caller] \in CallerLabels /\ pc'[Listener] \in ListenerLabels
        /\ \A u \in Threads : pc'[u] \in ThreadLabels
    BY <2>1 DEF ThreadsSafe
  <2>6. \A b \in Actors : /\ pc'[b] \in {"join", "quitJoin"} => pc'[b] = pc[b]
                          /\ pc'[b] \notin {"join", "spawn"}
    BY <2>1, <2>4
  <2> HIDE DEF Labels, Locked, CallerLabels, ListenerLabels, ThreadLabels
  <2> QED
    BY <1>2, <2>1, <2>2, <2>3, <2>4, <2>5, <2>6 DEF ThreadsSafe, LockFree
<1>4. CASE ReBuildConn(t) /\ UNCHANGED pc
  BY <1>4, ThreadsSame DEF ReBuildConn, reconn
<1>5. CASE ~ThreadFinish(t) /\ ~(ReBuildConn(t) /\ UNCHANGED pc)
  <2>1. m_bReConn' = m_bReConn
    BY <1>1, <1>5 DEF DoReconnWork, ThreadStart, ReBuildConn, ThreadWait, reconn
  <2>2. PICK l \in {"destroy", "finish"} : Goto(t, l)
    BY <1>5 DEF DoReconnWork, ThreadStart, ReBuildConn, ThreadWait, AfterRebuild
  <2>3. l \in Labels \ Locked /\ l \in ThreadLabels \ {"none", "done"} /\ l # "quitJoin"
    OBVIOUS
  <2> HIDE DEF Labels, Locked, CallerLabels, ListenerLabels, ThreadLabels
  <2> QED
    BY <1>1, <1>2, <2>1, <2>2, <2>3, PlainMove
<1> QED
  BY <1>3, <1>4, <1>5

\* The client library fails, or calls onException.
LEMMA LibraryThreads ==
  ASSUME ThreadsSafe, Breaks \/ onException
  PROVE  ThreadsSafe'
<1> USE ActorFacts
<1>1. CASE Breaks
  BY <1>1, ThreadsSame DEF Breaks, reconn
<1>2. CASE onException
  <2>1. /\ Goto(Listener, "reconn") /\ UNCHANGED <<joining, m_lockReConn, m_bReConn>>
        /\ pc[Listener] \notin Locked /\ joining \in [Actors -> Threads \cup {NULL}]
    BY <1>2 DEF onException, Locked, Destroys, reconn, ThreadsSafe
  <2>2. "reconn" \in Labels \ Locked /\ "reconn" \in ListenerLabels /\ "reconn" # "quitJoin"
    BY DEF Labels, Locked, Destroys, ListenerLabels
  <2> QED
    BY <2>1, <2>2, PlainMove
<1> QED
  BY <1>1, <1>2

\* The caller's labels outside Conn and DestroyConn.
Plain == {"idle", "connect", "new", "push", "read", "queue", "handle", "cache", "send", "message",
          "post", "quit", "quitClear", "destroy", "clear", "delete", "erase"}

\* The steps of the registry, apart from the three that DisConn and the delete
\* after it do to threads, move the caller and nobody else.
LEMMA MgrMoves ==
  ASSUME MgrNext, ~DisConn, ~DisConnJoin, ~DeleteConn
  PROVE  /\ UNCHANGED <<joining, m_lockReConn, m_bReConn>>
         /\ UNCHANGED pc \/ \E l \in Plain : Goto(Caller, l) /\ pc[Caller] \in Plain
<1> USE DEF Plain, reconn, Idle, CallGoes
<1>1. ASSUME NEW e \in Endpoints, NEW t, Idle, CallAdd(e, t)
      PROVE  /\ UNCHANGED <<joining, m_lockReConn, m_bReConn>>
             /\ \E l \in Plain : Goto(Caller, l) /\ pc[Caller] \in Plain
  BY <1>1 DEF CallAdd
<1>2. CASE \E e \in Endpoints : MqMgr_AddProducer(e) \/ MqMgr_AddConsumer(e)
  BY <1>1, <1>2 DEF MqMgr_AddProducer, MqMgr_AddConsumer
<1>3. CASE \E e \in Endpoints : MqMgr_SendMsg(e)
  <2>1. PICK e \in Endpoints : MqMgr_SendMsg(e)
    BY <1>3
  <2>2. CASE CallAdd(e, "send")
    BY <1>1, <2>1, <2>2 DEF MqMgr_SendMsg
  <2>3. CASE ~CallAdd(e, "send")
    BY <2>1, <2>3 DEF MqMgr_SendMsg
  <2> QED
    BY <2>2, <2>3
<1>4. CASE \E e \in Endpoints : MqMgr_Del(e)
  BY <1>4 DEF MqMgr_Del
<1>5. CASE MqMgr_Fini \/ NewEndpoint \/ PushBack \/ ReadSession \/ CacheProducer
  BY <1>5 DEF MqMgr_Fini, NewEndpoint, PushBack, ReadSession, CacheProducer
<1>6. CASE CreateQueue \/ CreateHandle
  BY <1>6 DEF CreateQueue, CreateHandle, Uses
<1>7. CASE SendCheck \/ SendMessage \/ SendPost
  BY <1>7 DEF SendCheck, SendMessage, SendPost, Uses
<1>8. CASE DisConnClear \/ DisConnLists \/ EraseCached
  BY <1>8 DEF DisConnClear, DisConnLists, EraseCached
<1> QED
  BY <1>2, <1>3, <1>4, <1>5, <1>6, <1>7, <1>8 DEF MgrNext

\* The caller's steps, the wait of DisConn and the delete included.
LEMMA MgrThreads ==
  ASSUME ThreadsSafe, ObjectsSafe, MgrNext
  PROVE  ThreadsSafe'
<1> USE ActorFacts
<1>1. joining \in [Actors -> Threads \cup {NULL}]
  BY DEF ThreadsSafe
<1>2. Plain \subseteq Labels \ Locked /\ Plain \subseteq CallerLabels /\ "quitJoin" \notin Plain
  BY DEF Plain, Labels, Locked, CallerLabels, Dials, Quits, Listed, Destroys
<1>3. CASE ~DisConn /\ ~DisConnJoin /\ ~DeleteConn
  <2>1. /\ UNCHANGED <<joining, m_lockReConn, m_bReConn>>
        /\ UNCHANGED pc \/ \E l \in Plain : Goto(Caller, l) /\ pc[Caller] \in Plain
    BY <1>3, MgrMoves
  <2> QED
    BY <1>1, <1>2, <2>1, PlainMove, ThreadsSame
<1>4. CASE DisConn
  <2>1. PICK l \in {"destroy", "quitJoin"} :
          /\ Goto(Caller, l)
          /\ l = "quitJoin" => joining'[Caller] \in Threads
    BY <1>1, <1>4 DEF DisConn, ObjectsSafe
  <2>2. /\ l \in Labels \ Locked /\ l \in CallerLabels /\ pc[Caller] \notin Locked
    BY <1>4 DEF DisConn, Labels, Locked, Destroys, CallerLabels, Quits
  <2>3. /\ joining' \in [Actors -> Threads \cup {NULL}]
        /\ \A b \in Actors \ {Caller} : joining'[b] = joining[b]
        /\ UNCHANGED <<m_lockReConn, m_bReConn>>
    BY <1>1, <1>4 DEF DisConn, ObjectsSafe, reconn
  <2> QED
    BY <2>1, <2>2, <2>3, PlainMove
<1>5. CASE DisConnJoin
  <2>1. "quitClear" \in Labels
    BY DEF Labels
  <2> QED
    BY <1>5, <2>1, JoinedThreads DEF DisConnJoin, reconn
<1>6. CASE DeleteConn
  <2>1. CASE UNCHANGED <<pc, m_lockReConn, m_bReConn>>
    BY <1>6, <2>1, ThreadsSame DEF DeleteConn
  <2>2. CASE ~UNCHANGED <<pc, m_lockReConn, m_bReConn>>
    <3>1. /\ \A b \in Actors : pc'[b] = IF b = Caller THEN "erase"
                                        ELSE IF b = Listener THEN "idle" ELSE "none"
          /\ DOMAIN pc' = Actors /\ pc' = [b \in Actors |-> pc'[b]]
          /\ m_lockReConn' = NULL /\ m_bReConn' = FALSE /\ UNCHANGED joining
      BY <1>6, <2>2 DEF DeleteConn, reconn
    <3>2. \A t \in Threads : ~Active(t)'
      BY <3>1 DEF Active
    <3>3. \A b \in Actors : /\ pc'[b] \in Labels \ Locked
                            /\ pc'[b] \notin {"join", "spawn", "quitJoin"}
      BY <3>1 DEF Labels, Locked, Destroys
    <3>4. /\ pc'[Caller] \in CallerLabels /\ pc'[Listener] \in ListenerLabels
          /\ \A t \in Threads : pc'[t] \in ThreadLabels
      BY <3>1 DEF CallerLabels, ListenerLabels, ThreadLabels
    <3>5. pc' \in [Actors -> Labels]
      BY <3>1, <3>3
    <3> QED
      BY <1>1, <3>1, <3>2, <3>3, <3>4, <3>5 DEF ThreadsSafe
  <2> QED
    BY <2>1, <2>2
<1> QED
  BY <1>3, <1>4, <1>5, <1>6

-----------------------------------------------------------------------------
(* Sessions and the endpoints' fields *)

\* A step that leaves them alone.
LEMMA ObjectsSame ==
  ASSUME ObjectsSafe, UNCHANGED <<objects, lists, m_sem, m_thrdReConn>>,
         fault' = fault \/ fault' \in {"conn", "join", "reconn", "add", "send", "freed"}
  PROVE  ObjectsSafe'
BY DEF ObjectsSafe, objects, lists

\* NULL is no session, and a new session is one that was free.
LEMMA NewSessionFree ==
  /\ NULL \notin Sessions
  /\ FreeSessions # {} => NewSession \in Sessions /\ sess[NewSession] = "free"
BY MqAssumption DEF NewSession, FreeSessions

\* The steps of MqConnection.
LEMMA ConnObjects ==
  ASSUME ObjectsSafe, ConnNext
  PROVE  ObjectsSafe'
<1> USE NewSessionFree
<1>1. ASSUME NEW a \in Actors, Conn(a) PROVE ObjectsSafe'
  <2>1. CASE ConnCreate(a)
    BY <2>1 DEF ConnCreate, ObjectsSafe, reconn, lists
  <2>2. CASE ConnSession(a) \/ ConnStore(a)
    <3>1. arg[a] \in Sessions \cup {NULL}
      BY DEF ObjectsSafe
    <3> QED
      BY <2>2, <3>1 DEF ConnSession, ConnStore, ObjectsSafe, reconn
  <2>3. CASE ConnDead(a) \/ ConnThrows(a) \/ ConnFailed(a)
    BY <2>3, ObjectsSame DEF ConnDead, ConnThrows, ConnFailed, reconn
  <2> QED
    BY <1>1, <2>1, <2>2, <2>3 DEF Conn
<1>2. ASSUME NEW a \in Actors, ReConn(a) PROVE ObjectsSafe'
  <2>1. CASE ReConnAlready(a) \/ JoinsFreed(a)
    BY <2>1, ObjectsSame DEF ReConnAlready, JoinsFreed, reconn
  <2>2. CASE ReConnEnter(a)
    <3>1. m_sem' \in BOOLEAN
      BY <2>2 DEF ReConnEnter, ObjectsSafe
    <3> QED
      BY <2>2, <3>1 DEF ReConnEnter, ObjectsSafe, objects, lists
  <2>3. CASE ReConnJoin(a) \/ ReConnSpawnFail(a)
    BY <2>3 DEF ReConnJoin, ReConnSpawnFail, ObjectsSafe, objects, lists
  <2>4. CASE ReConnSpawn(a)
    <3>1. NewThread \in Threads
      BY <2>4 DEF ReConnSpawn, NewThread, FreeThreads
    <3> QED
      BY <2>4, <3>1 DEF ReConnSpawn, ObjectsSafe, objects, lists
  <2> QED
    BY <1>2, <2>1, <2>2, <2>3, <2>4 DEF ReConn
<1>3. ASSUME NEW a \in Actors, DestroyConn(a) PROVE ObjectsSafe'
  <2>1. CASE DestroyEndpoints(a)
    BY <2>1 DEF DestroyEndpoints, ObjectsSafe, objects, Unbound
  <2>2. CASE DestroySession(a) \/ ClearSession(a)
    BY <2>2 DEF DestroySession, ClearSession, SessionAfterDelete, ObjectsSafe, reconn, lists
  <2>3. CASE DestroyConnection(a) \/ ClearConnection(a)
    BY <2>3 DEF DestroyConnection, ClearConnection, ObjectsSafe, reconn, lists
  <2> QED
    BY <1>3, <2>1, <2>2, <2>3 DEF DestroyConn
<1>4. ASSUME NEW t \in Threads, DoReconnWork(t) PROVE ObjectsSafe'
  <2>1. CASE ReBuildConn(t)
    <3>1. ASSUME NEW e \in Endpoints
          PROVE  Created(e, m_pSession) \in [m_pSession : Sessions \cup {NULL}, handle : BOOLEAN]
      <4>1. ep[e] \in [m_pSession : Sessions \cup {NULL}, handle : BOOLEAN]
        BY DEF ObjectsSafe
      <4>2. (ep[e].handle \/ (sess[m_pSession] = "open" /\ m_pConnection = "up")) \in BOOLEAN
        OBVIOUS
      <4> QED
        BY <4>1, <4>2 DEF Created, ObjectsSafe
    <3>2. ep' \in [Endpoints -> [m_pSession : Sessions \cup {NULL}, handle : BOOLEAN]]
      BY <2>1, <3>1 DEF ReBuildConn, ObjectsSafe
    <3> QED
      BY <2>1, <3>2 DEF ReBuildConn, ObjectsSafe, objects, reconn
  <2>2. CASE ThreadStart(t) \/ ThreadWait(t) \/ ThreadFinish(t)
    BY <2>2, ObjectsSame DEF ThreadStart, ThreadWait, ThreadFinish, reconn
  <2> QED
    BY <1>4, <2>1, <2>2 DEF DoReconnWork
<1>5. CASE Breaks \/ onException
  BY <1>5 DEF Breaks, onException, ObjectsSafe, reconn, lists
<1> QED
  BY <1>1, <1>2, <1>3, <1>4, <1>5 DEF ConnNext

\* The steps of the registry.
LEMMA MgrObjects ==
  ASSUME ObjectsSafe, MgrNext
  PROVE  ObjectsSafe'
<1> USE NewSessionFree
<1>1. ASSUME NEW e \in Endpoints, MqMgr_Del(e) PROVE ObjectsSafe'
  <2>1. ep' \in [Endpoints -> [m_pSession : Sessions \cup {NULL}, handle : BOOLEAN]]
    <3>1. CASE m_mapConn
      <4>1. ep' = [ep EXCEPT ![e] = Unbound]
        BY <1>1, <3>1 DEF MqMgr_Del
      <4>2. Unbound \in [m_pSession : Sessions \cup {NULL}, handle : BOOLEAN]
        BY DEF Unbound
      <4> QED
        BY <4>1, <4>2 DEF ObjectsSafe
    <3>2. CASE ~m_mapConn
      BY <1>1, <3>2 DEF MqMgr_Del, ObjectsSafe
    <3> QED
      BY <3>1, <3>2
  <2> QED
    BY <1>1, <2>1 DEF MqMgr_Del, ObjectsSafe, objects, reconn
<1>2. ASSUME NEW e \in Endpoints,
             MqMgr_AddProducer(e) \/ MqMgr_AddConsumer(e) \/ MqMgr_SendMsg(e)
      PROVE  ObjectsSafe'
  BY <1>2, ObjectsSame
     DEF MqMgr_AddProducer, MqMgr_AddConsumer, MqMgr_SendMsg, CallAdd, reconn
<1>3. CASE MqMgr_Fini \/ SendCheck \/ DisConn \/ DisConnJoin \/ EraseCached
  BY <1>3, ObjectsSame DEF MqMgr_Fini, SendCheck, DisConn, DisConnJoin, EraseCached, reconn
<1>4. CASE SendMessage \/ SendPost
  BY <1>4, ObjectsSame DEF SendMessage, SendPost, Uses, reconn
<1>5. CASE NewEndpoint \/ PushBack \/ ReadSession \/ CacheProducer \/ DisConnClear
  <2>1. /\ UNCHANGED <<m_pConnection, m_pSession, sess, raised, m_sem, ep, fault>>
        /\ \/ UNCHANGED arg
           \/ arg' = [arg EXCEPT ![Caller] = m_pSession]
           \/ arg' = [arg EXCEPT ![Caller] = NULL]
        /\ m_thrdReConn' \in {m_thrdReConn, NULL}
    BY <1>5 DEF NewEndpoint, PushBack, ReadSession, CacheProducer, DisConnClear, objects,
                reconn, lists
  <2> QED
    BY <2>1 DEF ObjectsSafe
<1>6. CASE CreateQueue
  <2>1. /\ ep' \in [Endpoints -> [m_pSession : Sessions \cup {NULL}, handle : BOOLEAN]]
        /\ fault' \in {fault, "add"}
    <3>1. arg[Caller] \in Sessions \cup {NULL}
      BY ActorFacts DEF ObjectsSafe
    <3> QED
      BY <1>6, <3>1 DEF CreateQueue, Uses, ObjectsSafe
  <2> QED
    BY <1>6, <2>1 DEF CreateQueue, ObjectsSafe, objects, reconn
<1>7. CASE CreateHandle
  <2>1. ASSUME cur \in Endpoints, Allocated(ep[cur].m_pSession)
        PROVE  Created(cur, ep[cur].m_pSession)
                 \in [m_pSession : Sessions \cup {NULL}, handle : BOOLEAN]
    <3> DEFINE s == ep[cur].m_pSession
    <3>1. ep[cur] \in [m_pSession : Sessions \cup {NULL}, handle : BOOLEAN]
      BY <2>1 DEF ObjectsSafe
    <3>2. (ep[cur].handle \/ (sess[s] = "open" /\ m_pConnection = "up")) \in BOOLEAN
      OBVIOUS
    <3> QED
      BY <3>1, <3>2 DEF Created
  <2>2. /\ ep' \in [Endpoints -> [m_pSession : Sessions \cup {NULL}, handle : BOOLEAN]]
        /\ fault' \in {fault, "add"}
    BY <1>7, <2>1 DEF CreateHandle, Uses, ObjectsSafe
  <2> QED
    BY <1>7, <2>2 DEF CreateHandle, ObjectsSafe, objects, reconn
<1>8. CASE DisConnLists
  BY <1>8 DEF DisConnLists, ObjectsSafe, objects, reconn, Unbound
<1>9. CASE DeleteConn
  <2>1. CASE InUse
    BY <1>9, <2>1, ObjectsSame DEF DeleteConn, reconn
  <2>2. CASE ~InUse
    BY <1>9, <2>2 DEF DeleteConn, ObjectsSafe, lists
  <2> QED
    BY <2>1, <2>2
<1> QED
  BY <1>1, <1>2, <1>3, <1>4, <1>5, <1>6, <1>7, <1>8, <1>9 DEF MgrNext

-----------------------------------------------------------------------------
(* Who deletes which session *)

\* A move of one thread neither into the store nor out of the clearing.
LEMMA QuietMove ==
  ASSUME pc \in [Actors -> Labels], NEW a \in Actors, NEW l, Goto(a, l), l # "store",
         pc[a] # "clearSession", NEW b \in Actors
  PROVE  /\ pc'[b] = "store" => pc[b] = "store"
         /\ pc[b] = "clearSession" => pc'[b] = "clearSession"
BY DEF Goto

\* A step that deletes no session and moves nobody as the lemma before excludes.
LEMMA SessionsKept ==
  ASSUME ObjectsSafe, SessionsSafe, m_pSession' = m_pSession,
         \A s \in Sessions : sess'[s] = "free" <=> sess[s] = "free",
         \A b \in Actors : /\ pc'[b] = "store" => pc[b] = "store" /\ arg'[b] = arg[b]
                           /\ pc[b] = "clearSession" => pc'[b] = "clearSession"
  PROVE  SessionsSafe'
<1> USE NewSessionFree
<1>1. \A s \in Sessions \cup {NULL} : /\ Allocated(s)' <=> Allocated(s)
                                     /\ Dangling(s)' <=> Dangling(s)
  BY DEF Allocated, Dangling
<1>2. /\ m_pSession \in Sessions \cup {NULL}
      /\ \A b \in Actors : arg[b] \in Sessions \cup {NULL}
  BY DEF ObjectsSafe
<1>3. Dangling(m_pSession)' => Dangling(m_pSession)
  BY <1>1, <1>2 DEF Dangling
<1>4. DanglesOnlyInDestroy'
  BY <1>3 DEF SessionsSafe, DanglesOnlyInDestroy
<1>5. \A a \in Actors : pc'[a] = "store" => Allocated(arg[a])' /\ arg'[a] # m_pSession'
  BY <1>1, <1>2 DEF SessionsSafe, Allocated
<1>6. \A a, b \in Actors :
        pc'[a] = "store" /\ pc'[b] = "store" /\ arg'[a] = arg'[b] => a = b
  BY DEF SessionsSafe
<1> QED
  BY <1>4, <1>5, <1>6 DEF SessionsSafe, Allocated

\* createSession makes a session nobody refers to, and the store is of it.
LEMMA StoreSessions ==
  ASSUME ThreadsSafe, ObjectsSafe, SessionsSafe, NEW a \in Actors,
         ConnSession(a) \/ ConnStore(a)
  PROVE  SessionsSafe'
<1> USE NewSessionFree
<1>1. pc \in [Actors -> Labels] /\ arg \in [Actors -> Sessions \cup {NULL}]
  BY DEF ThreadsSafe, ObjectsSafe
<1>2. CASE ConnSession(a)
  <2> DEFINE n == NewSession
  <2>1. n \in Sessions /\ sess[n] = "free" /\ n # m_pSession
    BY <1>2 DEF ConnSession, NewSession, FreeSessions
  <2>2. /\ pc'[a] = "store" /\ arg'[a] = n /\ pc[a] = "session"
        /\ \A b \in Actors \ {a} : pc'[b] = pc[b] /\ arg'[b] = arg[b]
    BY <1>1, <1>2 DEF ConnSession, Goto
  <2>3. /\ m_pSession' = m_pSession /\ sess'[n] = "open"
        /\ \A s \in Sessions \ {n} : sess'[s] = sess[s]
    BY <1>2, <2>1 DEF ConnSession, ObjectsSafe
  <2> HIDE DEF n
  <2>4. \A b \in Actors \ {a} :
          pc[b] = "store" => arg[b] # n /\ arg[b] \in Sessions /\ sess[arg[b]] # "free"
    BY <1>1, <2>1 DEF SessionsSafe, Allocated
  <2>5. \A b \in Actors : pc'[b] = "store" => Allocated(arg[b])' /\ arg'[b] # m_pSession'
    BY <2>1, <2>2, <2>3, <2>4 DEF Allocated, SessionsSafe
  <2>6. \A b, c \in Actors :
          pc'[b] = "store" /\ pc'[c] = "store" /\ arg'[b] = arg'[c] => b = c
    BY <2>2, <2>4 DEF SessionsSafe
  <2>7. DanglesOnlyInDestroy'
    <3>1. Dangling(m_pSession)' => Dangling(m_pSession)
      BY <2>1, <2>3 DEF Dangling, ObjectsSafe
    <3> QED
      BY <2>2, <3>1 DEF SessionsSafe, DanglesOnlyInDestroy
  <2> QED
    BY <2>5, <2>6, <2>7 DEF SessionsSafe, Allocated
<1>3. CASE ConnStore(a)
  <2>1. /\ pc[a] = "store" /\ pc'[a] \in {"rebuild", "new"} /\ m_pSession' = arg[a]
        /\ UNCHANGED sess /\ \A b \in Actors \ {a} : pc'[b] = pc[b] /\ arg'[b] = arg[b]
    BY <1>1, <1>3 DEF ConnStore, Goto, AfterConn
  <2>2. ~Dangling(m_pSession)'
    BY <2>1 DEF SessionsSafe, Allocated, Dangling
  <2>3. \A b \in Actors : pc'[b] = "store" => b # a
    BY <2>1
  <2> QED
    BY <2>1, <2>2, <2>3 DEF SessionsSafe, DanglesOnlyInDestroy, Allocated
<1> QED
  BY <1>2, <1>3

\* What DestroyConn deletes is in nobody's hands, and it clears the member.
LEMMA DeleteSessions ==
  ASSUME ThreadsSafe, ObjectsSafe, SessionsSafe, NEW a \in Actors,
         DestroySession(a) \/ ClearSession(a)
  PROVE  SessionsSafe'
<1> USE NewSessionFree
<1>1. pc \in [Actors -> Labels] /\ arg \in [Actors -> Sessions \cup {NULL}]
  BY DEF ThreadsSafe, ObjectsSafe
<1>2. /\ pc'[a] \in {"clearSession", "delConnection"} /\ UNCHANGED arg
      /\ \A b \in Actors \ {a} : pc'[b] = pc[b]
  BY <1>1 DEF DestroySession, ClearSession, Goto, lists
<1>3. \A b \in Actors : pc'[b] = "store" => pc[b] = "store"
  BY <1>2
<1>4. CASE DestroySession(a)
  <2>1. /\ pc'[a] = "clearSession" /\ m_pSession' = m_pSession
        /\ \A s \in Sessions : s # m_pSession => sess'[s] = sess[s]
    BY <1>1, <1>4 DEF DestroySession, Goto
  <2>2. \A b \in Actors : pc'[b] = "store" =>
          arg[b] \in Sessions /\ arg[b] # m_pSession /\ sess[arg[b]] # "free"
    BY <1>1, <1>3 DEF SessionsSafe, Allocated
  <2> QED
    BY <1>2, <1>3, <2>1, <2>2 DEF SessionsSafe, DanglesOnlyInDestroy, Allocated
<1>5. CASE ClearSession(a)
  <2>1. m_pSession' = NULL /\ UNCHANGED sess
    BY <1>5 DEF ClearSession, SessionAfterDelete
  <2> QED
    BY <1>2, <1>3, <2>1 DEF SessionsSafe, DanglesOnlyInDestroy, Dangling, Allocated
<1> QED
  BY <1>4, <1>5

\* The steps of MqConnection.
LEMMA ConnSessions ==
  ASSUME ThreadsSafe, ObjectsSafe, SessionsSafe, ConnNext
  PROVE  SessionsSafe'
<1> USE ActorFacts
<1>1. pc \in [Actors -> Labels] /\ sess \in [Sessions -> {"free", "open", "closed"}]
  BY DEF ThreadsSafe, ObjectsSafe
<1>2. ASSUME NEW a \in Actors, NEW l, Goto(a, l), l # "store", pc[a] # "clearSession",
             UNCHANGED <<m_pSession, sess, arg>>
      PROVE  SessionsSafe'
  BY <1>1, <1>2, QuietMove, SessionsKept
<1>3. ASSUME UNCHANGED <<m_pSession, sess, arg, pc>> PROVE SessionsSafe'
  BY <1>3, SessionsKept
<1>4. ASSUME NEW a \in Actors, Conn(a) PROVE SessionsSafe'
  <2>1. CASE ConnSession(a) \/ ConnStore(a)
    BY <2>1, StoreSessions
  <2>2. CASE ConnDead(a)
    BY <1>3, <2>2 DEF ConnDead, objects, lists
  <2>3. CASE ConnCreate(a) \/ ConnThrows(a) \/ ConnFailed(a)
    <3>1. /\ pc[a] # "clearSession" /\ UNCHANGED <<m_pSession, sess, arg>>
          /\ \E l \in {"session", "failed", "reconn", "wait", "new", "idle"} : Goto(a, l)
      BY <2>3 DEF ConnCreate, ConnThrows, ConnFailed, AfterReConn, objects, lists
    <3> QED
      BY <1>2, <3>1
  <2> QED
    BY <1>4, <2>1, <2>2, <2>3 DEF Conn
<1>5. ASSUME NEW a \in Actors, ReConn(a) PROVE SessionsSafe'
  <2>1. UNCHANGED <<m_pSession, sess, arg>>
    BY <1>5 DEF ReConn, ReConnAlready, JoinsFreed, ReConnEnter, ReConnSpawnFail, ReConnJoin,
                ReConnSpawn, objects, lists
  <2>2. CASE ReConnAlready(a) \/ ReConnEnter(a) \/ ReConnSpawnFail(a)
    <3>1. /\ pc[a] # "clearSession"
          /\ \E l \in {"join", "spawn", "wait", "new", "idle"} : Goto(a, l)
      BY <2>2 DEF ReConnAlready, ReConnEnter, ReConnSpawnFail, AfterReConn
    <3> QED
      BY <1>2, <2>1, <3>1
  <2>3. CASE JoinsFreed(a)
    BY <1>3, <2>1, <2>3 DEF JoinsFreed
  <2>4. CASE ReConnJoin(a)
    <3>1. \A b \in Actors : /\ pc'[b] = "store" => pc[b] = "store"
                            /\ pc[b] = "clearSession" => pc'[b] = "clearSession"
      BY <1>1, <2>4 DEF ReConnJoin, Joined
    <3> QED
      BY <2>1, <3>1, SessionsKept
  <2>5. CASE ReConnSpawn(a)
    <3>1. NewThread \in Threads /\ pc[NewThread] = "none"
      BY <2>5 DEF ReConnSpawn, NewThread, FreeThreads
    <3>2. \A b \in Actors : /\ pc'[b] = "store" => pc[b] = "store"
                            /\ pc[b] = "clearSession" => pc'[b] = "clearSession"
      BY <1>1, <2>5, <3>1 DEF ReConnSpawn, AfterReConn
    <3> QED
      BY <2>1, <3>2, SessionsKept
  <2> QED
    BY <1>5, <2>2, <2>3, <2>4, <2>5 DEF ReConn
<1>6. ASSUME NEW a \in Actors, DestroyConn(a) PROVE SessionsSafe'
  <2>1. CASE DestroySession(a) \/ ClearSession(a)
    BY <2>1, DeleteSessions
  <2>2. CASE DestroyEndpoints(a) \/ ClearConnection(a)
    <3>1. /\ pc[a] # "clearSession" /\ UNCHANGED <<m_pSession, sess, arg>>
          /\ \E l \in {"delSession", "connect", "clear"} : Goto(a, l)
      BY <2>2 DEF DestroyEndpoints, ClearConnection, AfterDestroy, objects, lists
    <3> QED
      BY <1>2, <3>1
  <2>3. CASE DestroyConnection(a)
    <3>1. /\ Goto(a, "clearConnection") /\ pc[a] = "delConnection"
          /\ UNCHANGED <<m_pSession, arg>>
      BY <2>3 DEF DestroyConnection, lists
    <3>2. \A s \in Sessions : sess'[s] = "free" <=> sess[s] = "free"
      BY <1>1, <2>3 DEF DestroyConnection
    <3> QED
      BY <1>1, <3>1, <3>2, QuietMove, SessionsKept
  <2> QED
    BY <1>6, <2>1, <2>2, <2>3 DEF DestroyConn
<1>7. ASSUME NEW t \in Threads, DoReconnWork(t) PROVE SessionsSafe'
  <2>1. /\ pc[t] # "clearSession" /\ UNCHANGED <<m_pSession, sess, arg>>
        /\ UNCHANGED pc \/ \E l \in {"destroy", "finish", "done"} : Goto(t, l)
    BY <1>7 DEF DoReconnWork, ThreadStart, ReBuildConn, ThreadWait, ThreadFinish, AfterRebuild,
                objects, lists
  <2> QED
    BY <1>2, <1>3, <2>1
<1>8. CASE Breaks \/ onException
  <2>1. CASE Breaks
    BY <1>3, <2>1 DEF Breaks, lists
  <2>2. CASE onException
    BY <1>2, <2>2 DEF onException, lists
  <2> QED
    BY <1>8, <2>1, <2>2
<1> QED
  BY <1>4, <1>5, <1>6, <1>7, <1>8 DEF ConnNext

\* The steps of the registry.
LEMMA MgrSessions ==
  ASSUME ThreadsSafe, ObjectsSafe, SessionsSafe, MgrNext
  PROVE  SessionsSafe'
<1> USE ActorFacts
<1>1. pc \in [Actors -> Labels] /\ arg \in [Actors -> Sessions \cup {NULL}]
  BY DEF ThreadsSafe, ObjectsSafe
<1>2. CASE DeleteConn
  <2>1. CASE InUse
    BY <1>2, <2>1, SessionsKept DEF DeleteConn, objects, lists
  <2>2. CASE ~InUse
    <3>1. m_pSession' = NULL /\ \A b \in Actors : pc'[b] # "store"
      BY <1>2, <2>2 DEF DeleteConn
    <3> QED
      BY <3>1 DEF SessionsSafe, DanglesOnlyInDestroy, Dangling
  <2> QED
    BY <2>1, <2>2
<1>3. CASE DisConn \/ DisConnJoin
  <2>1. UNCHANGED <<m_pSession, sess, arg>>
    BY <1>3 DEF DisConn, DisConnJoin, objects, lists
  <2>2. \A b \in Actors : /\ pc'[b] = "store" => pc[b] = "store"
                          /\ pc[b] = "clearSession" => pc'[b] = "clearSession"
    BY <1>1, <1>3 DEF DisConn, DisConnJoin, Joined, Goto
  <2> QED
    BY <2>1, <2>2, SessionsKept
<1>4. CASE ~DeleteConn /\ ~DisConn /\ ~DisConnJoin
  <2>1. UNCHANGED pc \/ \E l \in Plain : Goto(Caller, l) /\ pc[Caller] \in Plain
    BY <1>4, MgrMoves
  <2>2. \A b \in Actors : /\ pc'[b] = "store" => pc[b] = "store"
                          /\ pc[b] = "clearSession" => pc'[b] = "clearSession"
    <3>1. "store" \notin Plain /\ "clearSession" \notin Plain
      BY DEF Plain
    <3> QED
      BY <1>1, <2>1, <3>1, QuietMove
  <2>3. /\ UNCHANGED <<m_pSession, sess>>
        /\ UNCHANGED arg \/ (pc[Caller] \in {"read", "cache"}
                              /\ \A b \in Actors \ {Caller} : arg'[b] = arg[b])
    <3> USE DEF objects, lists
    <3>1. CASE ReadSession \/ CacheProducer
      BY <1>1, <3>1 DEF ReadSession, CacheProducer
    <3>2. CASE \E e \in Endpoints : \/ MqMgr_AddProducer(e) \/ MqMgr_AddConsumer(e)
                                    \/ MqMgr_SendMsg(e) \/ MqMgr_Del(e)
      BY <3>2 DEF MqMgr_AddProducer, MqMgr_AddConsumer, MqMgr_SendMsg, MqMgr_Del, CallAdd
    <3>3. CASE MqMgr_Fini \/ NewEndpoint \/ PushBack \/ CreateQueue \/ CreateHandle
      BY <3>3 DEF MqMgr_Fini, NewEndpoint, PushBack, CreateQueue, CreateHandle
    <3>4. CASE SendCheck \/ SendMessage \/ SendPost
      BY <3>4 DEF SendCheck, SendMessage, SendPost
    <3>5. CASE DisConnClear \/ DisConnLists \/ EraseCached
      BY <3>5 DEF DisConnClear, DisConnLists, EraseCached
    <3> QED
      BY <1>4, <3>1, <3>2, <3>3, <3>4, <3>5 DEF MgrNext
  <2> QED
    BY <2>2, <2>3, SessionsKept
<1> QED
  BY <1>2, <1>3, <1>4

-----------------------------------------------------------------------------
(* The registry *)

\* In MqConnection the caller goes through Conn, or through DestroyConn.
LEMMA CallerInConn ==
  ASSUME ThreadsSafe, ConnNext
  PROVE  /\ UNCHANGED <<m_list, mgrVars>>
         /\ \/ pc'[Caller] = pc[Caller]
            \/ pc[Caller] \in Dials /\ pc'[Caller] \in Dials \cup {"new"}
            \/ pc[Caller] \in Quits /\ pc'[Caller] \in Quits \ {"delete"}
<1> USE ActorFacts
<1> USE DEF Dials, Quits, Destroys, lists
<1>1. pc \in [Actors -> Labels]
  BY DEF ThreadsSafe
<1>2. ASSUME NEW a \in Actors, Conn(a)
      PROVE  /\ UNCHANGED m_list
             /\ \/ pc'[Caller] = pc[Caller]
                \/ pc[Caller] \in Dials /\ pc'[Caller] \in Dials \cup {"new"}
  BY <1>1, <1>2 DEF Conn, ConnCreate, ConnSession, ConnStore, ConnDead, ConnThrows,
                    ConnFailed, Goto, AfterConn, AfterReConn
<1>3. ASSUME NEW a \in Actors, ReConn(a)
      PROVE  /\ UNCHANGED m_list
             /\ \/ pc'[Caller] = pc[Caller]
                \/ pc[Caller] \in Dials /\ pc'[Caller] \in Dials \cup {"new"}
  <2>1. CASE ReConnAlready(a) \/ JoinsFreed(a) \/ ReConnEnter(a) \/ ReConnSpawnFail(a)
    BY <1>1, <2>1 DEF ReConnAlready, JoinsFreed, ReConnEnter, ReConnSpawnFail, Goto, AfterReConn
  <2>2. CASE ReConnJoin(a)
    <3>1. joining[a] \in Threads
      BY <2>2 DEF ReConnJoin, ThreadsSafe
    <3> QED
      BY <1>1, <2>2, <3>1 DEF ReConnJoin, Joined
  <2>3. CASE ReConnSpawn(a)
    <3>1. NewThread \in Threads
      BY <2>3 DEF ReConnSpawn, NewThread, FreeThreads
    <3> QED
      BY <1>1, <2>3, <3>1 DEF ReConnSpawn, AfterReConn
  <2> QED
    BY <1>3, <2>1, <2>2, <2>3 DEF ReConn
<1>4. ASSUME NEW a \in Actors, DestroyConn(a)
      PROVE  /\ UNCHANGED m_list
             /\ \/ pc'[Caller] = pc[Caller]
                \/ pc[Caller] \in Quits /\ pc'[Caller] \in Quits \ {"delete"}
  BY <1>1, <1>4 DEF DestroyConn, DestroyEndpoints, DestroySession, ClearSession,
                    DestroyConnection, ClearConnection, Goto, AfterDestroy
<1>5. ASSUME NEW t \in Threads, DoReconnWork(t)
      PROVE  UNCHANGED m_list /\ pc'[Caller] = pc[Caller]
  BY <1>1, <1>5 DEF DoReconnWork, ThreadStart, ReBuildConn, ThreadWait, ThreadFinish, Goto
<1>6. CASE Breaks \/ onException
  BY <1>1, <1>6 DEF Breaks, onException, Goto, ConnNext
<1> QED
  BY <1>2, <1>3, <1>4, <1>5, <1>6, Zenon DEF ConnNext

\* So the registry is as it was where Conn or DestroyConn was called.
LEMMA ConnRegistry ==
  ASSUME ThreadsSafe, RegistrySafe, ConnNext
  PROVE  RegistrySafe'
<1>1. /\ UNCHANGED <<m_list, m_mapConn, m_mapProcucer, cur, task>>
      /\ \/ pc'[Caller] = pc[Caller]
         \/ pc[Caller] \in Dials /\ pc'[Caller] \in Dials \cup {"new"}
         \/ pc[Caller] \in Quits /\ pc'[Caller] \in Quits \ {"delete"}
  BY CallerInConn DEF mgrVars
<1>2. \A S : Fresh(S)' <=> Fresh(S)
  BY <1>1 DEF Fresh
<1> QED
  <2>1. CASE pc'[Caller] = pc[Caller]
    BY <1>1, <1>2, <2>1 DEF RegistrySafe
  <2>2. CASE pc[Caller] \in Dials /\ pc'[Caller] \in Dials \cup {"new"}
    BY <1>1, <1>2, <2>2 DEF RegistrySafe, Dials, Quits, Destroys, Listed
  <2>3. CASE pc[Caller] \in Quits /\ pc'[Caller] \in Quits \ {"delete"}
    BY <1>1, <1>2, <2>3 DEF RegistrySafe, Dials, Quits, Destroys, Listed
  <2> QED
    BY <1>1, <2>1, <2>2, <2>3

\* Every call leaves the registry as its next step expects it.
LEMMA MgrRegistry ==
  ASSUME ThreadsSafe, RegistrySafe, MgrNext
  PROVE  RegistrySafe'
<1> USE ActorFacts
<1>1. pc \in [Actors -> Labels] /\ NULL \notin Actors
  BY DEF ThreadsSafe
<1> USE DEF Dials, Quits, Destroys, Listed, Idle, Fresh, CallGoes
<1>2. ASSUME NEW e \in Endpoints, NEW t \in {"add", "send"}, Idle, CallAdd(e, t)
      PROVE  RegistrySafe'
  BY <1>1, <1>2 DEF CallAdd, RegistrySafe, lists, Goto
<1>3. ASSUME NEW e \in Endpoints,
             MqMgr_AddProducer(e) \/ MqMgr_AddConsumer(e) \/ MqMgr_SendMsg(e)
      PROVE  RegistrySafe'
  <2>1. CASE \E t \in {"add", "send"} : Idle /\ CallAdd(e, t)
    BY <1>2, <2>1
  <2>2. CASE ~\E t \in {"add", "send"} : Idle /\ CallAdd(e, t)
    <3>1. /\ Idle /\ cur' = e /\ task' = "send" /\ Goto(Caller, "send")
          /\ UNCHANGED <<lists, m_mapConn, m_mapProcucer>>
      BY <1>3, <2>2 DEF MqMgr_AddProducer, MqMgr_AddConsumer, MqMgr_SendMsg
    <3> QED
      BY <1>1, <3>1 DEF RegistrySafe, lists, Goto
  <2> QED
    BY <2>1, <2>2
<1>4. ASSUME NEW e \in Endpoints, MqMgr_Del(e) PROVE RegistrySafe'
  <2>1. /\ cur' = e /\ task' = "del" /\ pc[Caller] = "idle"
        /\ UNCHANGED <<m_mapConn, m_mapProcucer>>
    BY <1>4 DEF MqMgr_Del
  <2>2. CASE m_mapConn
    <3>1. pc'[Caller] = (IF m_list' = {} THEN "quit" ELSE "erase") /\ m_list' = m_list \ {e}
      BY <1>1, <1>4, <2>2 DEF MqMgr_Del, Goto, IsEmptyConn
    <3> QED
      BY <2>1, <2>2, <3>1 DEF RegistrySafe
  <2>3. CASE ~m_mapConn
    <3>1. pc'[Caller] = "erase" /\ m_list' = m_list
      BY <1>1, <1>4, <2>3 DEF MqMgr_Del, Goto
    <3> QED
      BY <2>1, <2>3, <3>1 DEF RegistrySafe
  <2> QED
    BY <2>2, <2>3
<1>5. CASE MqMgr_Fini
  BY <1>1, <1>5 DEF MqMgr_Fini, RegistrySafe, lists, Goto
<1>6. CASE NewEndpoint \/ PushBack
  <2>1. CASE NewEndpoint
    <3>1. /\ pc[Caller] = "new" /\ pc'[Caller] \in {"push", "idle"} /\ m_mapConn' = TRUE
          /\ UNCHANGED <<m_list, m_mapProcucer>>
          /\ pc'[Caller] = "push" => cur' = cur
          /\ cur' \in {cur, NULL} /\ task' \in {task, "none"}
      BY <1>1, <2>1 DEF NewEndpoint, Goto, lists
    <3> QED
      BY <3>1 DEF RegistrySafe
  <2>2. CASE PushBack
    BY <1>1, <2>2 DEF PushBack, RegistrySafe, mgrVars, Goto
  <2> QED
    BY <1>6, <2>1, <2>2
<1>7. CASE ReadSession
  BY <1>1, <1>7 DEF ReadSession, RegistrySafe, mgrVars, Goto
<1>8. CASE CreateQueue \/ CreateHandle
  <2>1. /\ UNCHANGED <<m_list, m_mapConn, m_mapProcucer, cur, task>>
        /\ pc[Caller] \in {"queue", "handle"} /\ pc'[Caller] \in {"queue", "handle", "cache"}
    BY <1>1, <1>8 DEF CreateQueue, CreateHandle, Uses, Goto
  <2> QED
    BY <2>1 DEF RegistrySafe, mgrVars
<1>9. CASE CacheProducer
  <2>1. /\ m_mapProcucer' = m_mapProcucer \cup ({cur} \cap Producers) /\ pc[Caller] = "cache"
        /\ pc'[Caller] \in {"send", "idle"} /\ UNCHANGED <<m_list, m_mapConn>>
        /\ pc'[Caller] = "send" => cur' = cur
        /\ cur' \in {cur, NULL} /\ task' \in {task, "none"}
    BY <1>1, <1>9 DEF CacheProducer, ToCache, Goto
  <2> QED
    BY <2>1 DEF RegistrySafe
<1>10. CASE SendCheck \/ SendMessage \/ SendPost
  <2>1. /\ UNCHANGED <<m_list, m_mapConn, m_mapProcucer>>
        /\ pc[Caller] \in {"send", "message", "post"}
        /\ pc'[Caller] \in {"idle", "send", "message", "post"}
        /\ pc'[Caller] # "idle" => cur' = cur
        /\ cur' \in {cur, NULL} /\ task' \in {task, "none"}
    BY <1>1, <1>10 DEF SendCheck, SendMessage, SendPost, Uses, Goto, lists
  <2> QED
    BY <2>1 DEF RegistrySafe, mgrVars
<1>11. CASE DisConn \/ DisConnJoin \/ DisConnClear
  <2>1. /\ UNCHANGED <<m_list, mgrVars>> /\ pc[Caller] \in {"quit", "quitJoin", "quitClear"}
        /\ pc'[Caller] \in {"destroy", "quitJoin", "quitClear"}
    <3>1. pc[Caller] = "quitJoin" => joining[Caller] \in Threads
      BY DEF ThreadsSafe
    <3> QED
      BY <1>1, <1>11, <3>1 DEF DisConn, DisConnJoin, DisConnClear, Joined, Goto, lists
  <2> QED
    BY <2>1 DEF RegistrySafe, mgrVars
<1>12. CASE DisConnLists
  BY <1>1, <1>12 DEF DisConnLists, RegistrySafe, mgrVars, Goto
<1>13. CASE DeleteConn
  <2>1. /\ pc[Caller] = "delete" /\ pc'[Caller] \in {"delete", "erase"}
        /\ ~m_mapConn' /\ m_mapConn' \in BOOLEAN /\ UNCHANGED <<m_list, m_mapProcucer, cur, task>>
    BY <1>1, <1>13 DEF DeleteConn, lists
  <2> QED
    BY <2>1 DEF RegistrySafe
<1>14. CASE EraseCached
  <2>1. /\ m_mapProcucer' = (IF task = "fini" THEN {} ELSE m_mapProcucer \ {cur})
        /\ pc[Caller] = "erase" /\ pc'[Caller] = "idle"
        /\ UNCHANGED <<m_list, m_mapConn>> /\ cur' = NULL /\ task' = "none"
    BY <1>1, <1>14 DEF EraseCached, CacheAfter, Goto, lists
  <2>2. /\ task = "fini" => m_list = {}
        /\ task = "del" => Fresh({cur}) /\ cur \notin m_list
        /\ task \in {"del", "fini"} /\ m_mapProcucer \subseteq Producers
    BY <2>1 DEF RegistrySafe
  <2>3. Fresh({})' /\ m_mapProcucer' \subseteq Producers
    BY <2>1, <2>2 DEF Fresh
  <2> QED
    BY <2>1, <2>3 DEF RegistrySafe
<1> QED
  BY <1>3, <1>4, <1>5, <1>6, <1>7, <1>8, <1>9, <1>10, <1>11, <1>12, <1>13, <1>14 DEF MgrNext

-----------------------------------------------------------------------------
(* The endpoints' sessions *)

\* A step that neither takes a session away nor ends a rebuilding.
LEMMA EndpointsKept ==
  ASSUME EndpointsSafe, fault = "none", pc'[Caller] \notin Quits => pc[Caller] \notin Quits,
         m_list' \subseteq m_list, UNCHANGED <<m_pSession, sess>>,
         \A e \in m_list' : ep'[e] = ep[e],
         pc[Caller] \in {"read", "queue"} => UNCHANGED cur /\ pc'[Caller] \in {"read", "queue"},
         \A t \in Threads : \/ pc'[t] = pc[t]
                            \/ /\ pc'[t] \notin {"rebuild", "finish"}
                               /\ pc[t] \in Rebuilds => pc'[t] \in Rebuilds
  PROVE  EndpointsSafe'
BY DEF EndpointsSafe, Settled, Allocated

\* While a thread works and has its rebuilding before it, nothing is claimed.
LEMMA ThreadBusy ==
  ASSUME ThreadsSafe, NEW t \in Threads, Active(t), pc'[t] \in Rebuilds \ {"rebuild"},
         \A u \in Threads \ {t} : pc'[u] = pc[u]
  PROVE  EndpointsSafe'
<1>1. \A u \in Threads : pc'[u] \notin {"rebuild", "finish"}
  <2>1. \A u \in Threads \ {t} : ~Active(u)
    BY DEF ThreadsSafe
  <2>2. pc'[t] \notin {"rebuild", "finish"}
    BY DEF Rebuilds, Destroys
  <2> QED
    BY <2>1, <2>2 DEF Active
<1>2. ~Settled'
  BY DEF Settled
<1> QED
  BY <1>1, <1>2 DEF EndpointsSafe

\* Conn gives the connection a session, before any endpoint is listed or
\* before the thread creates the endpoints again.
LEMMA ConnEndpoints ==
  ASSUME ThreadsSafe, ObjectsSafe, SessionsSafe, RegistrySafe, EndpointsSafe, fault = "none",
         NEW a \in Actors, Conn(a), UNCHANGED mgrVars
  PROVE  EndpointsSafe'
<1> USE ActorFacts
<1> USE DEF Dials, Quits, Destroys, Rebuilds
<1>1. pc \in [Actors -> Labels]
  BY DEF ThreadsSafe
<1>2. CASE ConnDead(a)
  BY <1>2 DEF ConnDead, EndpointsSafe
<1>3. pc[a] \in {"connect", "session", "store", "failed"} /\ a # Listener
  BY DEF Conn, ConnCreate, ConnSession, ConnStore, ConnDead, ConnThrows, ConnFailed,
         ThreadsSafe, ListenerLabels
<1>4. pc[a] = "store" => arg[a] # NULL
  BY DEF SessionsSafe, Allocated
<1>5. CASE a = Caller /\ ~ConnDead(a)
  <2>1. m_list' = {} /\ \A t \in Threads : pc'[t] = pc[t]
    BY <1>1, <1>3, <1>5 DEF Conn, ConnCreate, ConnSession, ConnStore, ConnThrows, ConnFailed,
                            Goto, lists, RegistrySafe
  <2>2. m_pSession' # NULL \/ m_pSession' = m_pSession
    BY <1>4, <1>5 DEF Conn, ConnCreate, ConnSession, ConnStore, ConnThrows, ConnFailed, objects
  <2>3. pc[Caller] \notin Quits
    BY <1>3, <1>5
  <2> QED
    BY <2>1, <2>2, <2>3 DEF EndpointsSafe
<1>6. CASE a \in Threads /\ ~ConnDead(a)
  <2>1. Active(a) /\ m_bReConn
    BY <1>3, <1>6 DEF ThreadsSafe, Active
  <2>2. \A b \in Actors \ {a} : pc'[b] = pc[b]
    BY <1>1, <1>6 DEF Conn, ConnCreate, ConnSession, ConnStore, ConnThrows, ConnFailed, Goto
  <2>3. CASE ConnStore(a)
    <3>1. pc'[a] = "rebuild" /\ m_pSession' # NULL
      BY <1>1, <1>4, <1>6, <2>3 DEF ConnStore, AfterConn, Goto
    <3> QED
      BY <1>6, <3>1 DEF EndpointsSafe, Settled
  <2>4. CASE ~ConnStore(a)
    <3>1. pc'[a] \in {"session", "store", "failed", "wait"}
      BY <1>1, <1>6, <2>1, <2>4
         DEF Conn, ConnCreate, ConnSession, ConnThrows, ConnFailed, AfterReConn, Goto
    <3> QED
      BY <1>6, <2>1, <2>2, <3>1, ThreadBusy
  <2> QED
    BY <2>3, <2>4
<1> QED
  BY <1>2, <1>3, <1>5, <1>6

\* The other steps of MqConnection.
LEMMA ReConnEndpoints ==
  ASSUME ThreadsSafe, ObjectsSafe, SessionsSafe, RegistrySafe, EndpointsSafe, fault = "none",
         ConnNext, ~\E a \in Actors : Conn(a)
  PROVE  EndpointsSafe'
<1> USE ActorFacts
<1>1. pc \in [Actors -> Labels]
  BY DEF ThreadsSafe
<1>2. /\ UNCHANGED <<m_list, cur>>
      /\ pc'[Caller] \notin Quits => pc[Caller] \notin Quits
      /\ pc[Caller] \in {"read", "queue"} => pc'[Caller] \in {"read", "queue"}
  <2>1. Dials \cap Quits = {} /\ \A l \in {"read", "queue"} : l \notin Dials /\ l \notin Quits
    BY DEF Dials, Quits, Destroys
  <2> QED
    BY <2>1, CallerInConn DEF mgrVars
<1> USE DEF Rebuilds, Destroys
<1>3. ASSUME NEW a \in Actors, ReConn(a) PROVE EndpointsSafe'
  <2>1. UNCHANGED <<m_pSession, sess, ep>>
    BY <1>3 DEF ReConn, ReConnAlready, JoinsFreed, ReConnEnter, ReConnSpawnFail, ReConnJoin,
                ReConnSpawn, objects, lists
  <2>2. pc[a] \in {"reconn", "join", "spawn", "quitJoin"} /\ a \notin Threads
    BY <1>3 DEF ReConn, ReConnAlready, JoinsFreed, ReConnEnter, ReConnSpawnFail, ReConnJoin,
                ReConnSpawn, ThreadsSafe, ThreadLabels
  <2>3. \A t \in Threads : \/ pc'[t] = pc[t]
                           \/ pc[t] = "done" /\ pc'[t] = "none"
                           \/ pc[t] = "none" /\ pc'[t] = "start"
    <3>1. CASE ReConnAlready(a) \/ JoinsFreed(a) \/ ReConnEnter(a) \/ ReConnSpawnFail(a)
      BY <1>1, <2>2, <3>1 DEF ReConnAlready, JoinsFreed, ReConnEnter, ReConnSpawnFail, Goto
    <3>2. CASE ReConnJoin(a)
      BY <1>1, <2>2, <3>2 DEF ReConnJoin, Joined
    <3>3. CASE ReConnSpawn(a)
      <4>1. NewThread \in Threads /\ pc[NewThread] = "none"
        BY <3>3 DEF ReConnSpawn, NewThread, FreeThreads
      <4> QED
        BY <1>1, <2>2, <3>3, <4>1 DEF ReConnSpawn
    <3> QED
      BY <1>3, <3>1, <3>2, <3>3 DEF ReConn
  <2> QED
    BY <1>2, <2>1, <2>3, EndpointsKept
<1>4. ASSUME NEW a \in Actors, DestroyConn(a) PROVE EndpointsSafe'
  <2>1. CASE a \in Threads
    <3>1. pc[a] \in {"destroy"} \cup Destroys
      BY <1>4 DEF DestroyConn, DestroyEndpoints, DestroySession, ClearSession,
                  DestroyConnection, ClearConnection
    <3>2. /\ pc'[a] \in {"connect"} \cup Destroys
          /\ \A u \in Threads \ {a} : pc'[u] = pc[u]
      BY <1>1, <1>4, <2>1 DEF DestroyConn, DestroyEndpoints, DestroySession, ClearSession,
                              DestroyConnection, ClearConnection, AfterDestroy, Goto
    <3> QED
      BY <2>1, <3>1, <3>2, ThreadBusy DEF Active
  <2>2. CASE a \notin Threads
    <3>1. pc[a] \in {"destroy"} \cup Destroys /\ a = Caller
      BY <1>4, <2>2 DEF DestroyConn, DestroyEndpoints, DestroySession, ClearSession,
                        DestroyConnection, ClearConnection, ThreadsSafe, ListenerLabels
    <3>2. pc[Caller] \in Quits
      BY <3>1 DEF Quits
    <3> QED
      BY <1>2, <3>2 DEF EndpointsSafe
  <2> QED
    BY <2>1, <2>2
<1>5. ASSUME NEW t \in Threads, DoReconnWork(t) PROVE EndpointsSafe'
  <2>1. CASE ThreadStart(t) \/ ThreadWait(t)
    <3>1. Active(t) /\ pc'[t] = "destroy" /\ \A u \in Threads \ {t} : pc'[u] = pc[u]
      BY <1>1, <2>1 DEF ThreadStart, ThreadWait, Active, Goto
    <3> QED
      BY <3>1, ThreadBusy
  <2>2. CASE ThreadFinish(t)
    <3>1. /\ pc[t] = "finish" /\ pc'[t] = "done" /\ \A u \in Threads \ {t} : pc'[u] = pc[u]
          /\ UNCHANGED <<m_pSession, sess, ep>>
      BY <1>1, <2>2 DEF ThreadFinish, Goto, objects, lists
    <3> QED
      BY <1>2, <3>1, EndpointsKept
  <2>3. CASE ReBuildConn(t)
    <3> SUFFICES ASSUME fault' = "none", pc'[Caller] \notin Quits
                 PROVE  EndpointsSafe'
      BY DEF EndpointsSafe
    <3>1. m_pSession # NULL /\ Allocated(m_pSession)
      <4>1. \A b \in Actors : pc[b] # "clearSession"
        BY <2>3 DEF ReBuildConn, LockFree, ThreadsSafe, Locked
      <4>2. m_pSession # NULL
        BY <1>2, <2>3 DEF ReBuildConn, EndpointsSafe
      <4> QED
        BY <4>1, <4>2 DEF SessionsSafe, DanglesOnlyInDestroy, Dangling, Allocated
    <3>2. /\ UNCHANGED <<m_pSession, sess>>
          /\ \A e \in Endpoints : e \in m_list => ep'[e].m_pSession = m_pSession
      <4>1. /\ UNCHANGED <<m_pSession, sess>>
            /\ ep' = [e \in Endpoints |-> IF e \in m_list THEN Created(e, m_pSession) ELSE ep[e]]
        BY <2>3, <3>1 DEF ReBuildConn, ToRebuild, Dangling, Allocated, objects
      <4>2. \A e : Created(e, m_pSession).m_pSession = m_pSession
        BY <3>1 DEF Created
      <4> QED
        BY <4>1, <4>2
    <3>3. m_list \subseteq Endpoints
      BY DEF RegistrySafe
    <3> QED
      BY <1>2, <3>1, <3>2, <3>3 DEF EndpointsSafe, Allocated
  <2> QED
    BY <1>5, <2>1, <2>2, <2>3 DEF DoReconnWork
<1>6. CASE Breaks \/ onException
  <2>1. UNCHANGED <<m_pSession, sess, ep>> /\ \A t \in Threads : pc'[t] = pc[t]
    BY <1>1, <1>6 DEF Breaks, onException, Goto, lists
  <2> QED
    BY <1>2, <2>1, EndpointsKept
<1> QED
  BY <1>3, <1>4, <1>5, <1>6 DEF ConnNext

\* The caller lists an endpoint before it reads the session to create it with.
LEMMA MgrEndpoints ==
  ASSUME ThreadsSafe, ObjectsSafe, RegistrySafe, EndpointsSafe, fault = "none", MgrNext
  PROVE  EndpointsSafe'
<1> USE ActorFacts
<1> USE DEF Quits, Destroys, CallGoes
<1>1. pc \in [Actors -> Labels]
  BY DEF ThreadsSafe
<1>2. ASSUME NEW l, Goto(Caller, l)
      PROVE  pc'[Caller] = l /\ \A t \in Threads : pc'[t] = pc[t]
  BY <1>1, <1>2 DEF Goto
<1>3. ASSUME NEW e \in Endpoints, MqMgr_AddProducer(e) \/ MqMgr_AddConsumer(e) \/ MqMgr_SendMsg(e)
      PROVE  EndpointsSafe'
  <2>1. PICK l : Goto(Caller, l) /\ Idle /\ UNCHANGED <<m_list, ep, m_pSession, sess>>
    BY <1>3 DEF MqMgr_AddProducer, MqMgr_AddConsumer, MqMgr_SendMsg, CallAdd, objects, lists
  <2> QED
    BY <1>2, <2>1, EndpointsKept DEF Idle
<1>4. ASSUME NEW e \in Endpoints, MqMgr_Del(e) PROVE EndpointsSafe'
  <2>1. PICK l : Goto(Caller, l) /\ Idle
    BY <1>4 DEF MqMgr_Del
  <2>2. /\ m_list' \subseteq m_list /\ UNCHANGED <<m_pSession, sess>>
        /\ \A f \in m_list' : ep'[f] = ep[f]
    BY <1>4 DEF MqMgr_Del, objects, ObjectsSafe, RegistrySafe
  <2> QED
    BY <1>2, <2>1, <2>2, EndpointsKept DEF Idle
<1>5. CASE MqMgr_Fini
  BY <1>2, <1>5 DEF MqMgr_Fini, EndpointsSafe
<1>6. CASE PushBack
  <2>1. pc[Caller] = "push" /\ pc'[Caller] = "read" /\ \A t \in Threads : pc'[t] = pc[t]
    BY <1>2, <1>6 DEF PushBack
  <2>2. m_list' = m_list \cup {cur} /\ UNCHANGED <<ep, m_pSession, sess, cur, fault>>
    BY <1>6 DEF PushBack, objects, mgrVars
  <2> QED
    BY <2>1, <2>2 DEF EndpointsSafe, Settled, Allocated
<1>7. CASE ReadSession
  <2>1. /\ pc[Caller] = "read" /\ pc'[Caller] = (IF m_pSession = NULL THEN "cache" ELSE "queue")
        /\ \A t \in Threads : pc'[t] = pc[t]
    BY <1>2, <1>7 DEF ReadSession
  <2>2. UNCHANGED <<m_list, ep, m_pSession, sess, cur, fault>>
    BY <1>7 DEF ReadSession, objects, mgrVars
  <2> QED
    BY <2>1, <2>2 DEF EndpointsSafe, Settled, Allocated
<1>8. CASE CreateQueue \/ CreateHandle
  <2> SUFFICES ASSUME fault' = "none" PROVE EndpointsSafe'
    BY DEF EndpointsSafe
  <2>1. cur \in Endpoints
    BY <1>8 DEF CreateQueue, CreateHandle, RegistrySafe, Listed
  <2>2. /\ pc[Caller] \in {"queue", "handle"} /\ pc'[Caller] \in {"handle", "cache"}
        /\ \A t \in Threads : pc'[t] = pc[t]
    BY <1>2, <1>8 DEF CreateQueue, CreateHandle, Uses
  <2>3. /\ UNCHANGED <<m_list, m_pSession, sess, cur>>
        /\ \A e \in Endpoints \ {cur} : ep'[e] = ep[e]
        /\ ep' \in [Endpoints -> [m_pSession : Sessions \cup {NULL}, handle : BOOLEAN]]
    BY <1>8, MgrObjects DEF CreateQueue, CreateHandle, Uses, objects, ObjectsSafe
  <2>4. Allocated(ep'[cur].m_pSession)
    <3>1. CASE CreateQueue
      <4>1. Allocated(arg[Caller])
        BY <3>1 DEF CreateQueue, Uses
      <4>2. ep'[cur].m_pSession = arg[Caller]
        BY <2>1, <3>1 DEF CreateQueue, ObjectsSafe
      <4> QED
        BY <4>1, <4>2
    <3>2. CASE CreateHandle
      <4> DEFINE s == ep[cur].m_pSession
      <4>1. Allocated(s) /\ s # NULL
        BY <3>2 DEF CreateHandle, Uses, Allocated
      <4>2. ep'[cur].m_pSession = s
        BY <2>1, <3>2, <4>1 DEF CreateHandle, ObjectsSafe, Created
      <4> QED
        BY <4>1, <4>2
    <3> QED
      BY <1>8, <3>1, <3>2
  <2>5. m_list \subseteq Endpoints
    BY DEF RegistrySafe
  <2> QED
    BY <2>2, <2>3, <2>4, <2>5 DEF EndpointsSafe, Settled, Allocated
<1>9. CASE NewEndpoint \/ CacheProducer \/ SendCheck \/ EraseCached
  <2>1. PICK l : /\ Goto(Caller, l) /\ pc[Caller] \in {"new", "cache", "send", "erase"}
                 /\ UNCHANGED <<m_list, ep, m_pSession, sess>>
    BY <1>9 DEF NewEndpoint, CacheProducer, SendCheck, EraseCached, objects, lists
  <2> QED
    BY <1>2, <2>1, EndpointsKept
<1>10. CASE SendMessage \/ SendPost
  <2>1. /\ pc[Caller] \in {"message", "post"} /\ \A t \in Threads : pc'[t] = pc[t]
        /\ UNCHANGED <<m_list, ep, m_pSession, sess>>
    BY <1>2, <1>10 DEF SendMessage, SendPost, Uses, objects, lists
  <2> QED
    BY <2>1, EndpointsKept
<1>11. CASE DisConn \/ DisConnJoin \/ DisConnClear \/ DisConnLists
  <2>1. pc'[Caller] \in Quits
    <3>1. CASE DisConnJoin
      BY <1>1, <3>1 DEF DisConnJoin, Joined
    <3>2. CASE DisConn \/ DisConnClear \/ DisConnLists
      BY <1>2, <3>2 DEF DisConn, DisConnClear, DisConnLists
    <3> QED
      BY <1>11, <3>1, <3>2
  <2> QED
    BY <2>1 DEF EndpointsSafe
<1>12. CASE DeleteConn
  <2>1. CASE InUse
    BY <1>12, <2>1 DEF DeleteConn, EndpointsSafe
  <2>2. CASE ~InUse
    <3>1. m_list' = {} /\ \A t \in Threads : pc'[t] = "none"
      BY <1>12, <2>2 DEF DeleteConn, RegistrySafe, lists
    <3> QED
      BY <3>1 DEF EndpointsSafe
  <2> QED
    BY <2>1, <2>2
<1> QED
  BY <1>3, <1>4, <1>5, <1>6, <1>7, <1>8, <1>9, <1>10, <1>11, <1>12 DEF MgrNext

-----------------------------------------------------------------------------
(* The invariant holds *)

\* No connection, no thread and no endpoint.
LEMMA InitInv == Init => IInv
<1> USE ActorFacts
<1> SUFFICES ASSUME Init PROVE IInv
  OBVIOUS
<1>1. ThreadsSafe
  BY DEF Init, InitConn, ThreadsSafe, Labels, CallerLabels, ListenerLabels, ThreadLabels,
         Locked, Destroys, Active
<1>2. ObjectsSafe
  BY DEF Init, InitConn, ObjectsSafe, Unbound
<1>3. pc[Caller] = "idle" /\ m_list = {}
  BY DEF Init, InitConn
<1>4. RegistrySafe
  BY <1>3 DEF Init, RegistrySafe, Fresh, Dials, Listed, Quits, Destroys
<1>5. SessionsSafe
  <2>1. m_pSession = NULL /\ \A a \in Actors : pc[a] # "store"
    BY DEF Init, InitConn
  <2> QED
    BY <2>1 DEF SessionsSafe, DanglesOnlyInDestroy, Dangling
<1>6. EndpointsSafe
  <2>1. m_pSession = NULL /\ \A t \in Threads : pc[t] = "none"
    BY DEF Init, InitConn
  <2> QED
    BY <2>1 DEF EndpointsSafe
<1> QED
  BY <1>1, <1>2, <1>4, <1>5, <1>6 DEF IInv

\* Every step keeps the five parts.
LEMMA NextInv == IInv /\ [Next]_vars => IInv'
<1> SUFFICES ASSUME IInv, [Next]_vars PROVE IInv'
  OBVIOUS
<1>1. CASE fault = "none" /\ ConnNext
  <2>1. ThreadsSafe'
    BY <1>1, ConnThreads, ReConnThreads, DestroyThreads, WorkThreads, LibraryThreads
       DEF IInv, ConnNext
  <2>2. EndpointsSafe'
    BY <1>1, ConnEndpoints, ReConnEndpoints DEF IInv, ConnNext
  <2> QED
    BY <1>1, <2>1, <2>2, ConnObjects, ConnSessions, ConnRegistry DEF IInv
<1>2. CASE fault = "none" /\ MgrNext
  BY <1>2, MgrThreads, MgrObjects, MgrSessions, MgrRegistry, MgrEndpoints DEF IInv
<1>3. CASE UNCHANGED vars
  <2>1. UNCHANGED <<objects, reconn, lists, pc, joining, fault, m_mapConn, m_mapProcucer,
                    cur, task>>
    BY <1>3 DEF vars, connVars, mgrVars
  <2>2. ThreadsSafe' /\ ObjectsSafe'
    BY <2>1, ThreadsSame, ObjectsSame DEF IInv, reconn
  <2>3. RegistrySafe'
    BY <2>1 DEF IInv, RegistrySafe, Fresh, lists
  <2>4. EndpointsSafe'
    BY <2>1 DEF IInv, EndpointsSafe, Settled, Allocated, objects, lists
  <2>5. SessionsSafe'
    BY <2>1 DEF IInv, SessionsSafe, DanglesOnlyInDestroy, Dangling, Allocated, objects, lists
  <2> QED
    BY <2>2, <2>3, <2>4, <2>5 DEF IInv
<1> QED
  BY <1>1, <1>2, <1>3 DEF Next, Halted

\* The invariant holds in every state.
LEMMA AlwaysIInv == Spec => []IInv
BY InitInv, NextInv, PTL DEF Spec

-----------------------------------------------------------------------------
(* The theorems *)

\* The variables of the connection and the registry keep their types.
THEOREM MqTypeCorrect == Spec => []TypeOK
<1>1. IInv => TypeOK
  BY DEF IInv, ThreadsSafe, ObjectsSafe, RegistrySafe, TypeOK
<1> QED
  BY <1>1, AlwaysIInv, PTL

\* m_bReConn is set exactly while one reconnect thread works.
THEOREM MqOneReconnThread == Spec => []OneReconnThread
<1>1. IInv => OneReconnThread
  BY DEF IInv, ThreadsSafe, Active, OneReconnThread
<1> QED
  BY <1>1, AlwaysIInv, PTL

\* m_pSession points to a deleted session only inside DestroyConn, whatever the
\* first Conn stores to it meanwhile.
THEOREM MqDanglesOnlyInDestroy == Spec => []DanglesOnlyInDestroy
<1>1. IInv => DanglesOnlyInDestroy
  BY DEF IInv, SessionsSafe
<1> QED
  BY <1>1, AlwaysIInv, PTL

\* After a reconnection every listed producer and consumer has a session, also
\* one that was added while it went on.
THEOREM MqNobodyLeftBehind == Spec => []NobodyLeftBehind
<1>1. ASSUME IInv, fault = "none", Idle, ~m_bReConn, m_pSession # NULL, NEW e \in m_list
      PROVE  Allocated(ep[e].m_pSession)
  <2>1. Settled
    BY <1>1 DEF IInv, ThreadsSafe, Active, Settled, Rebuilds, Destroys
  <2>2. pc[Caller] \notin Quits /\ pc[Caller] \notin {"read", "queue"}
    BY <1>1 DEF Idle, Quits, Destroys
  <2> QED
    BY <1>1, <2>1, <2>2 DEF IInv, EndpointsSafe
<1>2. IInv => NobodyLeftBehind
  BY <1>1 DEF NobodyLeftBehind
<1> QED
  BY <1>2, AlwaysIInv, PTL

\* Between calls the cache of producers is what the connection lists.
THEOREM MqCacheFresh == Spec => []CacheFresh
<1>1. IInv => CacheFresh
  BY DEF IInv, RegistrySafe, Fresh, Idle, CacheFresh
<1> QED
  BY <1>1, AlwaysIInv, PTL

-----------------------------------------------------------------------------
(* Who waits for whom *)

\* MqMgr_Fini, the deletion of the last endpoint, ReConn and the reconnect thread
\* never wait for one another in a circle, for any number of threads: the safety
\* part of DisConnReturns.
THEOREM MqNoCircle == Spec => []NoCircle
<1>1. ASSUME IInv, NEW a \in Actors
      PROVE  /\ pc[a] \in Locked <=> m_lockReConn = a
             /\ m_lockReConn \in Actors \cup {NULL}
             /\ pc[a] \in {"join", "quitJoin"} => joining[a] \in Threads
             /\ pc[a] = "join" => pc[joining[a]] \in {"none", "done"}
             /\ pc[a] = "quitJoin" => a = Caller
  <2>1. ThreadsSafe
    BY <1>1 DEF IInv
  <2>2. pc[a] = "join" => pc[joining[a]] \in {"none", "done"}
    BY <1>1, <2>1 DEF ThreadsSafe, Active
  <2>3. "quitJoin" \notin ListenerLabels \cup ThreadLabels
    BY DEF ListenerLabels, ThreadLabels, Rebuilds, Destroys
  <2>4. pc[a] = "quitJoin" => a = Caller
    BY <1>1, <2>1, <2>3, ActorFacts DEF ThreadsSafe
  <2> QED
    BY <1>1, <2>1, <2>2, <2>4 DEF ThreadsSafe
<1>2. ASSUME IInv PROVE NoCircle
  <2> SUFFICES ASSUME NEW a \in Actors
               PROVE  /\ m_lockReConn = a => Working(a) /\ ~Waits(a)
                      /\ WaitsForLock(a) => m_lockReConn \in Actors \ {a}
                      /\ WaitsForThread(a) =>
                           /\ a = Caller /\ m_lockReConn # a
                           /\ joining[a] \in Threads /\ Working(joining[a])
                           /\ WaitsForLock(joining[a]) => m_lockReConn \notin {a, joining[a]}
    BY DEF NoCircle
  <2>1. ASSUME NEW b \in Actors PROVE WaitsForLock(b) => m_lockReConn \in Actors \ {b}
    BY <1>1, <1>2, <2>1 DEF WaitsForLock, LockFree, Locked, Destroys
  <2>2. m_lockReConn = a => Working(a) /\ ~Waits(a)
    BY <1>1, <1>2 DEF Working, Waits, WaitsForLock, WaitsForThread, Locked, Destroys
  <2>3. ASSUME WaitsForThread(a)
        PROVE  /\ a = Caller /\ m_lockReConn # a
               /\ joining[a] \in Threads /\ pc[joining[a]] \notin {"none", "done"}
    BY <1>1, <1>2, <2>3 DEF WaitsForThread, Locked, Destroys
  <2>4. ASSUME WaitsForThread(a) PROVE Working(joining[a]) /\ joining[a] \in Actors
    <3>1. "idle" \notin ThreadLabels
      BY DEF ThreadLabels, Rebuilds, Destroys
    <3>2. pc[joining[a]] \in ThreadLabels
      BY <1>2, <2>3, <2>4 DEF IInv, ThreadsSafe
    <3> QED
      BY <2>3, <2>4, <3>1, <3>2, ActorFacts DEF Working
  <2> QED
    BY <2>1, <2>2, <2>3, <2>4
<1> QED
  BY <1>2, AlwaysIInv, PTL

-----------------------------------------------------------------------------
(* Uris *)

\* A uri of the documented form is the name of its endpoint, for all names of
\* brokers and destinations.
THEOREM UriIsParsed == \A S : UriNames(S, Seq(S) \ {<<>>})
<1> SUFFICES ASSUME NEW S, NEW svr \in S, NEW mode \in Modes, NEW dst \in Seq(S) \ {<<>>}
             PROVE  ParseMqUri(Uri(svr, mode, dst)) =
                      IF dst = <<"">> THEN {} ELSE {Destination(svr, mode, dst)}
  BY DEF UriNames
<1> DEFINE uri == Uri(svr, mode, dst)
           T == S \cup {"mq"} \cup Modes
<1>1. /\ uri \in Seq(T) /\ Len(uri) = 3 + Len(dst) /\ Len(dst) \in Nat \ {0}
      /\ uri[1] = "mq" /\ uri[2] = svr /\ uri[3] = mode
      /\ \A i \in 1..Len(dst) : uri[3 + i] = dst[i]
  BY DEF Uri
<1>2. SubSeq(uri, 4, Len(uri)) = dst
  BY <1>1
<1> HIDE DEF uri
<1>3. MqAt(uri) = {1}
  BY <1>1 DEF MqAt, EndsInMq
<1> DEFINE good(j) == /\ j + 2 < Len(uri) /\ uri[j + 2] \in Modes
                      /\ SubSeq(uri, j + 3, Len(uri)) # <<"">>
           names(j) == Destination(uri[j + 1], uri[j + 2], SubSeq(uri, j + 3, Len(uri)))
<1>a. 1 + 1 = 2 /\ 1 + 2 = 3 /\ 1 + 3 = 4 /\ 3 < Len(uri)
  BY <1>1
<1>4. \A j : j = 1 => (good(j) <=> dst # <<"">>)
  BY <1>1, <1>2, <1>a, Zenon
<1>5. \A j : j = 1 => names(j) = Destination(svr, mode, dst)
  BY <1>1, <1>2, <1>a, Zenon
<1>6. ParseMqUri(uri) = {names(i) : i \in {j \in {1} : good(j)}}
  BY <1>3, Zenon DEF ParseMqUri
<1> HIDE DEF good, names
<1>7. CASE dst = <<"">>
  BY <1>4, <1>6, <1>7, Zenon DEF uri
<1>8. CASE dst # <<"">>
  <2>1. {j \in {1} : good(j)} = {1}
    BY <1>4, <1>8, Zenon
  <2>2. {names(i) : i \in {1}} = {Destination(svr, mode, dst)}
    <3>1. ASSUME NEW x PROVE x \in {names(i) : i \in {1}} <=> x = Destination(svr, mode, dst)
      BY <1>5, Zenon
    <3> QED
      BY <3>1, Zenon
  <2> QED
    BY <1>6, <1>8, <2>1, <2>2, Zenon DEF uri
<1> QED
  BY <1>7, <1>8, Zenon

\* So every endpoint that is ever listed is named by its uri, for all texts and
\* any number of them in a name.
THEOREM EndpointsAreNamed == Spec => []UriNamesEndpoint
<1>1. UriNamesEndpoint
  <2>1. ASSUME NEW n \in 1..MaxParts, NEW dst \in [1..n -> Texts]
        PROVE  dst \in Seq(Texts) \ {<<>>}
    <3>1. n \in Nat /\ n # 0
      OBVIOUS
    <3> QED
      BY <3>1
  <2>2. \A dst \in Destinations : dst \in Seq(Texts) \ {<<>>}
    BY <2>1 DEF Destinations
  <2>3. UriNames(Texts, Seq(Texts) \ {<<>>})
    BY UriIsParsed
  <2> QED
    BY <2>2, <2>3 DEF UriNames, UrisName, UriNamesEndpoint
<1> QED
  BY <1>1, PTL
=============================================================================
