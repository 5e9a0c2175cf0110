------------------------------- MODULE MqMgr -------------------------------
(***************************************************************************)
(* The registry of src/mq/src/MqMgr.cpp for one broker, and the part of    *)
(* MqConnection.cpp that its calls run: adding and deleting producers and  *)
(* consumers, sending, and disconnecting.  One thread makes the calls, one *)
(* after the other (MqMgr has no lock); the exception callback and the     *)
(* reconnect thread run beside it.                                         *)
(*                                                                         *)
(* An endpoint stands for its url, mq/<host:port>/queue|topic/<name>: see   *)
(* UriNamesEndpoint.                                                       *)
(***************************************************************************)
EXTENDS MqConnection, MqUri

CONSTANTS
  Texts,          \* the texts between the slashes of uris
  MaxParts        \* bound on the texts of a destination's name

VARIABLES
  m_mapConn,      \* the broker has an MqConnection in the map
  m_mapProcucer,  \* the producers cached by url
  cur,            \* the endpoint of the call in progress, if it has one
  task            \* the call in progress

mgrVars == <<m_mapConn, m_mapProcucer, cur, task>>
vars == <<connVars, mgrVars>>

Init ==
  /\ InitConn
  /\ m_mapConn = FALSE /\ m_mapProcucer = {} /\ cur = NULL /\ task = "none"

Idle == pc[Caller] = "idle"
\* The call goes on, or returns.
CallGoes(l) ==
  /\ Goto(Caller, l)
  /\ cur' = IF l = "idle" THEN NULL ELSE cur
  /\ task' = IF l = "idle" THEN "none" ELSE task
\* The unlocked uses of an endpoint's session or handle that may be dead.
Uses(what, alive, next) ==
  IF alive THEN CallGoes(next) /\ UNCHANGED fault
           ELSE fault' = what /\ UNCHANGED <<pc, cur, task>>

-----------------------------------------------------------------------------
(* MqMgr_AddProducer, MqMgr_AddConsumer *)

\* AddConnection: the first endpoint of a broker makes the connection, and the
\* call goes through Conn before the endpoint is listed, whether Conn succeeds or
\* not.  When there is no memory for an MqConnection the call changes nothing.
CallAdd(e, t) ==
  /\ cur' = e /\ task' = t
  /\ Goto(Caller, IF m_mapConn THEN "new" ELSE "connect")
  /\ UNCHANGED <<objects, reconn, lists, joining, fault, m_mapConn,
                 m_mapProcucer>>

HasProducer(e) == e \in m_mapProcucer
HasConsumer(e) == e \in m_list

MqMgr_AddProducer(e) ==
  Idle /\ e \in Producers /\ ~HasProducer(e) /\ CallAdd(e, "add")

\* HasConsumer takes the lock to read the list.
MqMgr_AddConsumer(e) ==
  Idle /\ e \in Consumers /\ LockFree /\ ~HasConsumer(e) /\ CallAdd(e, "add")

\* The connection is in the map before the endpoint is allocated: when there is
\* no memory for it the call fails and the connection stays, perhaps empty.
NewEndpoint ==
  /\ pc[Caller] = "new"
  /\ m_mapConn' = TRUE
  /\ CallGoes("push") \/ (AllocFails /\ CallGoes("idle"))
  /\ UNCHANGED <<objects, reconn, lists, joining, fault, m_mapProcucer>>

PushBack ==
  /\ pc[Caller] = "push" /\ LockFree
  /\ m_list' = m_list \cup {cur}
  /\ Goto(Caller, "read")
  /\ UNCHANGED <<objects, reconn, ep, arg, joining, fault, mgrVars>>

\* Create(m_pSession) follows the lock, it is not under it.
ReadSession ==
  /\ pc[Caller] = "read"
  /\ arg' = [arg EXCEPT ![Caller] = m_pSession]
  /\ Goto(Caller, IF m_pSession = NULL THEN "cache" ELSE "queue")
  /\ UNCHANGED <<objects, reconn, m_list, ep, joining, fault, mgrVars>>

CreateQueue ==
  /\ pc[Caller] = "queue"
  /\ ep' = [ep EXCEPT ![cur].m_pSession = arg[Caller]]
  /\ Uses("add", Allocated(arg[Caller]), "handle")
  /\ UNCHANGED <<objects, reconn, m_list, arg, joining, m_mapConn, m_mapProcucer>>

\* createProducer or createConsumer, through the endpoint's own m_pSession.
CreateHandle ==
  /\ pc[Caller] = "handle"
  /\ LET s == ep[cur].m_pSession IN
       /\ ep' = [ep EXCEPT ![cur] = IF Allocated(s) THEN Created(cur, s) ELSE @]
       /\ Uses("add", Allocated(s), "cache")
  /\ UNCHANGED <<objects, reconn, m_list, arg, joining, m_mapConn, m_mapProcucer>>

\* Mutant: consumers are cached too.
AnyEndpoint == {cur}

\* What MqMgr_AddProducer puts in the cache, and MqMgr_AddConsumer does not.
ToCache == {cur} \cap Producers

CacheProducer ==
  /\ pc[Caller] = "cache"
  /\ m_mapProcucer' = m_mapProcucer \cup ToCache
  /\ arg' = [arg EXCEPT ![Caller] = NULL]
  /\ CallGoes(IF task = "send" THEN "send" ELSE "idle")
  /\ UNCHANGED <<objects, reconn, m_list, ep, joining, fault, m_mapConn>>

-----------------------------------------------------------------------------
(* MqMgr_SendMsg: a producer that is not cached is added first *)

MqMgr_SendMsg(e) ==
  /\ Idle /\ e \in Producers
  /\ \/ ~HasProducer(e) /\ CallAdd(e, "send")
     \/ /\ HasProducer(e)
        /\ cur' = e /\ task' = "send" /\ Goto(Caller, "send")
        /\ UNCHANGED <<objects, reconn, lists, joining, fault, m_mapConn,
                       m_mapProcucer>>

\* if (m_pSession): without a session the result is -1.
SendCheck ==
  /\ pc[Caller] = "send"
  /\ CallGoes(IF ep[cur].m_pSession = NULL THEN "idle" ELSE "message")
  /\ UNCHANGED <<objects, reconn, lists, joining, fault, m_mapConn, m_mapProcucer>>

\* createBytesMessage, then if (m_pProducer).  On a closed session it throws.
SendMessage ==
  /\ pc[Caller] = "message"
  /\ LET s == ep[cur].m_pSession IN
       Uses("send", Allocated(s),
            IF sess[s] = "open" /\ ep[cur].handle THEN "post" ELSE "idle")
  /\ UNCHANGED <<objects, reconn, lists, joining, m_mapConn, m_mapProcucer>>

SendPost ==
  /\ pc[Caller] = "post"
  /\ Uses("send", ep[cur].handle, "idle")
  /\ UNCHANGED <<objects, reconn, lists, joining, m_mapConn, m_mapProcucer>>

-----------------------------------------------------------------------------
(* MqMgr_DelProducer, MqMgr_DelConsumer, MqMgr_Fini, and DisConn *)

\* After the endpoint has gone.
IsEmptyConn == m_list' = {}

\* The last endpoint takes the connection with it, and so does a call for an
\* endpoint that is not listed when the connection is empty.
MqMgr_Del(e) ==
  /\ Idle
  /\ cur' = e /\ task' = "del"
  /\ IF m_mapConn
       THEN /\ LockFree
            /\ m_list' = m_list \ {e} /\ ep' = [ep EXCEPT ![e] = Unbound]
            /\ Goto(Caller, IF IsEmptyConn THEN "quit" ELSE "erase")
       ELSE UNCHANGED <<m_list, ep>> /\ Goto(Caller, "erase")
  /\ UNCHANGED <<objects, reconn, arg, joining, fault, m_mapConn,
                 m_mapProcucer>>

MqMgr_Fini ==
  /\ Idle /\ m_mapConn
  /\ task' = "fini" /\ Goto(Caller, "quit")
  /\ UNCHANGED <<objects, reconn, lists, joining, fault, m_mapConn,
                 m_mapProcucer, cur>>

\* DisConn reads m_thrdReConn, waits for that thread and clears the member, all
\* without the lock.
DisConn ==
  /\ pc[Caller] = "quit"
  /\ joining' = [joining EXCEPT ![Caller] = m_thrdReConn]
  /\ Goto(Caller, IF m_thrdReConn = NULL THEN "destroy" ELSE "quitJoin")
  /\ UNCHANGED <<objects, reconn, lists, fault, mgrVars>>

DisConnJoin ==
  /\ pc[Caller] = "quitJoin" /\ Joined(Caller, "quitClear")
  /\ UNCHANGED <<objects, reconn, lists, fault, mgrVars>>

DisConnClear ==
  /\ pc[Caller] = "quitClear"
  /\ m_thrdReConn' = NULL /\ Goto(Caller, "destroy")
  /\ UNCHANGED <<objects, lists, m_bReConn, m_sem, m_lockReConn, joining,
                 fault, mgrVars>>

DisConnLists ==
  /\ pc[Caller] = "clear" /\ LockFree
  /\ m_list' = {} /\ ep' = [e \in Endpoints |-> Unbound]
  /\ Goto(Caller, "delete")
  /\ UNCHANGED <<objects, reconn, arg, joining, fault, mgrVars>>

\* A reconnect thread, a callback or a connection still refers to the object.
InUse ==
  \/ \E t \in Threads : pc[t] \notin {"none", "done"}
  \/ pc[Listener] # "idle" \/ m_pConnection # NULL

\* delete of the MqConnection, and the next one starts as new.
DeleteConn ==
  /\ pc[Caller] = "delete"
  /\ IF InUse THEN fault' = "freed" /\ UNCHANGED <<objects, reconn, pc>>
     ELSE /\ m_pConnection' = NULL /\ m_pSession' = NULL /\ raised' = FALSE
          /\ sess' = [s \in Sessions |-> "free"]
          /\ m_bReConn' = FALSE /\ m_sem' = FALSE /\ m_thrdReConn' = NULL
          /\ m_lockReConn' = NULL
          /\ pc' = [a \in Actors |-> IF a = Caller THEN "erase"
                                     ELSE IF a = Listener THEN "idle"
                                     ELSE "none"]
          /\ UNCHANGED fault
  /\ m_mapConn' = FALSE
  /\ UNCHANGED <<lists, joining, m_mapProcucer, cur, task>>

\* Mutant: MqMgr_Fini does not clear the cache.
CacheNotCleared == IF task = "del" THEN m_mapProcucer \ {cur} ELSE m_mapProcucer

\* What a finished call leaves in the cache.
CacheAfter ==
  IF task = "fini" THEN {} ELSE m_mapProcucer \ {cur}

EraseCached ==
  /\ pc[Caller] = "erase"
  /\ m_mapProcucer' = CacheAfter /\ CallGoes("idle")
  /\ UNCHANGED <<objects, reconn, lists, joining, fault, m_mapConn>>

-----------------------------------------------------------------------------
(* The specification *)

Conn(a) ==
  \/ ConnCreate(a) \/ ConnSession(a) \/ ConnStore(a) \/ ConnDead(a)
  \/ ConnThrows(a) \/ ConnFailed(a)
ReConn(a) ==
  \/ ReConnAlready(a) \/ ReConnEnter(a) \/ ReConnJoin(a) \/ JoinsFreed(a)
  \/ ReConnSpawn(a) \/ ReConnSpawnFail(a)
DestroyConn(a) ==
  \/ DestroyEndpoints(a) \/ DestroySession(a) \/ ClearSession(a)
  \/ DestroyConnection(a) \/ ClearConnection(a)
DoReconnWork(t) ==
  ThreadStart(t) \/ ReBuildConn(t) \/ ThreadWait(t) \/ ThreadFinish(t)

\* The steps of MqConnection, which leave the registry alone.
ConnNext ==
  /\ \/ \E a \in Actors : Conn(a) \/ ReConn(a) \/ DestroyConn(a)
     \/ \E t \in Threads : DoReconnWork(t)
     \/ Breaks \/ onException
  /\ UNCHANGED mgrVars

MgrNext ==
  \/ \E e \in Endpoints :
       \/ MqMgr_AddProducer(e) \/ MqMgr_AddConsumer(e) \/ MqMgr_SendMsg(e)
       \/ MqMgr_Del(e)
  \/ MqMgr_Fini
  \/ NewEndpoint \/ PushBack \/ ReadSession \/ CreateQueue \/ CreateHandle
  \/ CacheProducer
  \/ SendCheck \/ SendMessage \/ SendPost
  \/ DisConn \/ DisConnJoin \/ DisConnClear \/ DisConnLists \/ DeleteConn
  \/ EraseCached

\* After a fault nothing is said about the program.
Halted == fault # "none" /\ UNCHANGED vars

Next == (fault = "none" /\ (ConnNext \/ MgrNext)) \/ Halted

Spec == Init /\ [][Next]_vars

\* What a thread does by itself.
Runs(a) ==
  \/ (Conn(a) \/ ReConn(a) \/ DestroyConn(a)) /\ UNCHANGED mgrVars
  \/ a \in Threads /\ DoReconnWork(a) /\ UNCHANGED mgrVars
  \/ a = Caller /\ ~Idle /\ MgrNext

\* Threads run; the caller gets a lock that is free again and again (the
\* reconnect thread sleeps 45 s between attempts); and the broker is there often
\* enough: of infinitely many attempts to connect one succeeds, and so does one
\* to open a session.  At most one reconnect thread works at a time, so they
\* share one conjunct.
Fairness ==
  /\ SF_vars(Runs(Caller)) /\ WF_vars(Runs(Listener))
  /\ WF_vars(\E t \in Threads : Runs(t))
  /\ SF_vars(\E t \in Threads : ConnCreate(t) /\ UNCHANGED mgrVars)
  /\ SF_vars(\E t \in Threads : ConnSession(t) /\ UNCHANGED mgrVars)

FairSpec == Spec /\ Fairness

-----------------------------------------------------------------------------
(* Properties *)

Labels ==
  {"idle", "connect", "session", "store", "failed", "reconn", "join", "spawn",
   "none", "start", "destroy", "delSession", "clearSession", "delConnection",
   "clearConnection", "rebuild", "wait", "finish", "done", "new", "push",
   "read", "queue", "handle", "cache", "send", "message", "post", "quit",
   "quitJoin", "quitClear", "clear", "delete", "erase"}

\* Type invariant of the connection and the registry.
TypeOK ==
  /\ m_pConnection \in {NULL, "up", "failed", "deleted"}
  /\ m_pSession \in Sessions \cup {NULL}
  /\ arg \in [Actors -> Sessions \cup {NULL}]
  /\ m_bReConn \in BOOLEAN /\ m_sem \in BOOLEAN /\ raised \in BOOLEAN
  /\ m_thrdReConn \in Threads \cup {NULL}
  /\ m_lockReConn \in Actors \cup {NULL}
  /\ m_list \subseteq Endpoints
  /\ ep \in [Endpoints -> [m_pSession : Sessions \cup {NULL},
                           handle : BOOLEAN]]
  /\ sess \in [Sessions -> {"free", "open", "closed"}]
  /\ pc \in [Actors -> Labels]
  /\ joining \in [Actors -> Threads \cup {NULL}]
  /\ fault \in {"none", "conn", "join", "reconn", "add", "send", "freed"}
  /\ m_mapConn \in BOOLEAN /\ m_mapProcucer \subseteq Producers
  /\ cur \in Endpoints \cup {NULL}
  /\ task \in {"none", "add", "send", "del", "fini"}

\* m_bReConn is TRUE exactly while one reconnect thread works, and there are
\* never two, however exceptions, a failed first Conn and DisConn interleave.
\* (ReConn decides on the flag alone whether to start a thread.)
OneReconnThread ==
  LET working == {t \in Threads : pc[t] \notin {"none", "done"}}
  IN  /\ m_bReConn <=> working # {}
      /\ \A t, u \in working : t = u

\* A thread waits for m_lockReConn, or in swartz_thread_wait for another thread.
WaitsForLock(a) ==
  /\ pc[a] \in {"reconn", "push", "clear", "destroy", "rebuild", "finish"}
  /\ ~LockFree
WaitsForThread(a) ==
  pc[a] \in {"join", "quitJoin"} /\ pc[joining[a]] \notin {"none", "done"}
Waits(a) == WaitsForLock(a) \/ WaitsForThread(a)

\* It is in a call, in the callback, or at its work.
Working(a) == pc[a] \notin {"idle", "none", "done"}

\* Nobody waits in a circle.  ReConn joins the previous thread with m_lockReConn
\* held, and DisConn joins without it; the reconnect thread takes the lock in
\* DestroyConn, ReBuildConn and at its end.  Whoever holds the lock goes on;
\* whoever waits for the lock waits for another; and only DisConn ever waits for
\* a thread that still works, which then goes on or waits for one that does.
NoCircle ==
  \A a \in Actors :
    /\ m_lockReConn = a => Working(a) /\ ~Waits(a)
    /\ WaitsForLock(a) => m_lockReConn \in Actors \ {a}
    /\ WaitsForThread(a) =>
         /\ a = Caller /\ m_lockReConn # a
         /\ joining[a] \in Threads /\ Working(joining[a])
         /\ WaitsForLock(joining[a]) => m_lockReConn \notin {a, joining[a]}

\* Only inside DestroyConn, between its delete and its assignment of NULL, does
\* m_pSession point to a deleted session, although the first Conn of the caller
\* stores to it without the lock while the reconnect thread destroys, connects
\* and rebuilds.  So no session is deleted twice, ReBuildConn creates on none
\* that is deleted, and only the unlocked read before Create can meet one.
DanglesOnlyInDestroy ==
  Dangling(m_pSession) => \E a \in Actors : pc[a] = "clearSession"

\* A reconnection leaves nobody behind: with no reconnection and no call in
\* progress, if the connection has a session then every listed producer and
\* consumer has one too, and none points to a deleted session, whichever way
\* adding it (its Create is not under the lock) overlapped the reconnection.
NobodyLeftBehind ==
  fault = "none" /\ Idle /\ ~m_bReConn /\ m_pSession # NULL =>
    \A e \in m_list : Allocated(ep[e].m_pSession)

\* Between calls a cached producer is one that is listed with a connection, so
\* MqMgr_SendMsg never uses a deleted one, also after a call that ran out of
\* memory half way.  (Such a call may leave a connection with nothing listed.)
CacheFresh ==
  Idle => /\ m_mapProcucer = m_list \cap Producers
          /\ m_list # {} => m_mapConn

Destinations == UNION {[1..n -> Texts] : n \in 1..MaxParts}
UrisName == UriNames(Texts, Destinations)

\* The registry keys connections and consumers by what ParseMqUri reads, and
\* producers by the uri itself: whatever is listed, in the documented form both
\* name the same endpoint.
UriNamesEndpoint == m_list # {} => UrisName

\* DisConn, and with it MqMgr_Fini and the deletion of the last endpoint, comes
\* back.  It waits for the reconnect thread, which only a successful connection
\* ends: nothing posts its semaphore meanwhile.
DisConnReturns == (pc[Caller] = "quit") ~> (Idle \/ fault # "none")

\* A connection that has failed is being replaced, or its callback is yet to
\* come.  (AddProducer: the endpoint is kept whether or not the broker is
\* there, and "reconnection is automatic and internal".)
FailureNoticed ==
  m_pConnection = "failed" /\ Idle /\ fault = "none" =>
    raised \/ pc[Listener] # "idle" \/ m_bReConn
=============================================================================
