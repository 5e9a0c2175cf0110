---------------------------- MODULE MqConnection ----------------------------
(***************************************************************************)
(* One connection to a message broker, src/mq/src/MqConnection.cpp: Conn,  *)
(* ReConn, DoReconnWork, ReBuildConn and DestroyConn, run by the caller of *)
(* the library, by the client library's exception callback and by the      *)
(* reconnect thread.                                                       *)
(*                                                                         *)
(* The grain is that of the accesses to shared data: a section under       *)
(* m_lockReConn is one step where no unlocked access can tell its parts    *)
(* apart, and several where it can.  A use of a deleted object or of a null*)
(* pointer sets `fault', after which the program has no defined behaviour  *)
(* and the model takes no further step.                                    *)
(***************************************************************************)
EXTENDS Naturals, FiniteSets

CONSTANTS
  Producers, Consumers, \* the MqProducer and MqConsumer objects
  Sessions,             \* cms::Session objects, reused after deletion
  Threads,              \* reconnect threads, reused after they are joined
  SpawnFails,           \* creating a semaphore or a thread may fail
  AllocFails,           \* new(std::nothrow) may return NULL
  NULL

Caller == "caller"      \* the thread that calls the library
Listener == "listener"  \* the client library's thread that calls onException
Actors == {Caller, Listener} \cup Threads
Endpoints == Producers \cup Consumers

ASSUME MqAssumption ==
  /\ IsFiniteSet(Threads) /\ IsFiniteSet(Sessions) /\ IsFiniteSet(Endpoints)
  /\ Producers \cap Consumers = {} /\ {Caller, Listener} \cap Threads = {}
  /\ NULL \notin Sessions \cup Threads \cup Actors
  /\ SpawnFails \in BOOLEAN /\ AllocFails \in BOOLEAN

VARIABLES
  m_pConnection,  \* NULL, or the connection pointed to: "up", "failed" when its
                  \* transport has failed, "deleted"
  m_pSession,     \* NULL or a session, perhaps a deleted one
  m_bReConn,
  m_sem,          \* a semaphore exists
  m_thrdReConn,
  m_lockReConn,   \* holder of the lock between two steps
  m_list,         \* m_listProducer and m_listConsumer
  ep,             \* fields of the endpoints: m_pSession, and whether there is
                  \* an m_pProducer or m_pConsumer
  sess,           \* each session: "free", "open", or "closed" with its
                  \* connection but not deleted
  raised,         \* the connection has failed, onException is still to come
  pc,             \* where each thread is
  joining,        \* the thread handle an actor waits for
  arg,            \* the session an actor has at hand: createSession has just
                  \* returned it, or its Create in progress was called with it
  fault           \* "none", or the code that used a dead object

objects == <<m_pConnection, m_pSession, sess, raised>>
reconn == <<m_bReConn, m_sem, m_thrdReConn, m_lockReConn>>
lists == <<m_list, ep, arg>>
connVars == <<objects, reconn, lists, pc, joining, fault>>

Unbound == [m_pSession |-> NULL, handle |-> FALSE]

\* The constructor.  No thread exists and no call is in progress.
InitConn ==
  /\ m_pConnection = NULL /\ m_pSession = NULL /\ m_bReConn = FALSE
  /\ m_sem = FALSE /\ m_thrdReConn = NULL /\ m_lockReConn = NULL
  /\ m_list = {} /\ ep = [e \in Endpoints |-> Unbound]
  /\ sess = [s \in Sessions |-> "free"] /\ raised = FALSE
  /\ pc = [a \in Actors |-> IF a \in Threads THEN "none" ELSE "idle"]
  /\ joining = [a \in Actors |-> NULL] /\ arg = [a \in Actors |-> NULL]
  /\ fault = "none"

LockFree == m_lockReConn = NULL
Goto(a, l) == pc' = [pc EXCEPT ![a] = l]
\* A pointer that points to a session that has not been deleted.
Allocated(s) == s # NULL /\ sess[s] # "free"
Dangling(s) == s # NULL /\ sess[s] = "free"
\* The memory of a new session is none that a pointer still refers to.
FreeSessions ==
  {s \in Sessions : /\ sess[s] = "free" /\ s # m_pSession
                    /\ \A a \in Actors : arg[a] # s
                    /\ \A e \in Endpoints : ep[e].m_pSession # s}
NewSession == CHOOSE s \in FreeSessions : TRUE
FreeThreads == {t \in Threads : pc[t] = "none" /\ \A a \in Actors : joining[a] # t}
NewThread == CHOOSE t \in FreeThreads : TRUE

\* Where the callers of Conn, ReConn and DestroyConn go on.
AfterConn(a) == IF a \in Threads THEN "rebuild" ELSE "new"
AfterReConn(a) ==
  IF a \in Threads THEN "wait" ELSE IF a = Caller THEN "new" ELSE "idle"
AfterDestroy(a) == IF a \in Threads THEN "connect" ELSE "clear"

-----------------------------------------------------------------------------
(* Conn *)

ConnCreate(a) ==
  /\ pc[a] = "connect"
  /\ m_pConnection' = "up" /\ raised' = FALSE
  /\ Goto(a, "session")
  /\ UNCHANGED <<reconn, lists, m_pSession, sess, joining, fault>>

\* start and createSession, through the member: the reconnect thread may have
\* deleted the connection that this call created.  (Sessions and Threads are
\* bounds: there is always a free one in the runs.)
ConnSession(a) ==
  /\ pc[a] = "session" /\ m_pConnection = "up" /\ FreeSessions # {}
  /\ sess' = [sess EXCEPT ![NewSession] = "open"]
  /\ arg' = [arg EXCEPT ![a] = NewSession]
  /\ Goto(a, "store")
  /\ UNCHANGED <<reconn, m_list, ep, m_pConnection, m_pSession, raised, joining,
                 fault>>

\* The session createSession has returned goes to the member, over whatever
\* another thread has put there or deleted meanwhile.
ConnStore(a) ==
  /\ pc[a] = "store"
  /\ m_pSession' = arg[a] /\ arg' = [arg EXCEPT ![a] = NULL]
  /\ Goto(a, AfterConn(a))
  /\ UNCHANGED <<reconn, m_list, ep, m_pConnection, sess, raised, joining, fault>>

\* The member is null, or its connection is being deleted.
ConnDead(a) ==
  /\ pc[a] = "session" /\ m_pConnection \in {NULL, "deleted"}
  /\ fault' = "conn"
  /\ UNCHANGED <<objects, reconn, lists, pc, joining>>

\* An exception leaves m_pConnection and m_pSession as they are at that point.
ConnThrows(a) ==
  /\ \/ pc[a] = "connect"
     \/ pc[a] = "session" /\ m_pConnection \in {"up", "failed"}
  /\ Goto(a, "failed")
  /\ UNCHANGED <<objects, reconn, lists, joining, fault>>

\* The handler reads m_bReConn without the lock.
ConnFailed(a) ==
  /\ pc[a] = "failed"
  /\ Goto(a, IF m_bReConn THEN AfterReConn(a) ELSE "reconn")
  /\ UNCHANGED <<objects, reconn, lists, joining, fault>>

-----------------------------------------------------------------------------
(* ReConn, under m_lockReConn from its first line to its last *)

ReConnAlready(a) ==
  /\ pc[a] = "reconn" /\ LockFree /\ m_bReConn
  /\ Goto(a, AfterReConn(a))
  /\ UNCHANGED <<objects, reconn, lists, joining, fault>>

\* The previous thread, if there is one, is released first: its semaphore is
\* posted and destroyed, then it is joined.
ReConnEnter(a) ==
  /\ pc[a] = "reconn" /\ LockFree /\ ~m_bReConn
  /\ m_lockReConn' = a
  /\ IF m_sem /\ m_thrdReConn # NULL
       THEN /\ m_sem' = FALSE
            /\ joining' = [joining EXCEPT ![a] = m_thrdReConn]
            /\ Goto(a, "join")
       ELSE UNCHANGED <<m_sem, joining>> /\ Goto(a, "spawn")
  /\ UNCHANGED <<objects, lists, m_bReConn, m_thrdReConn, fault>>

\* swartz_thread_wait: pthread_join, then the handle is freed.
Joined(a, next) ==
  /\ pc[joining[a]] = "done"
  /\ pc' = [pc EXCEPT ![joining[a]] = "none", ![a] = next]
  /\ joining' = [joining EXCEPT ![a] = NULL]

\* The handle was freed by another caller of swartz_thread_wait.
JoinsFreed(a) ==
  /\ pc[a] \in {"join", "quitJoin"} /\ pc[joining[a]] = "none"
  /\ fault' = "join"
  /\ UNCHANGED <<objects, reconn, lists, pc, joining>>

ReConnJoin(a) ==
  /\ pc[a] = "join" /\ Joined(a, "spawn")
  /\ m_thrdReConn' = NULL
  /\ UNCHANGED <<objects, lists, m_bReConn, m_sem, m_lockReConn, fault>>

\* Mutants: the flag left to the new thread; set before the creation.
FlagLeftToThread == m_bReConn
FlagSetFirst == TRUE

\* The flag is set here, by the creator, and again by the new thread; when a
\* semaphore or thread cannot be created it is left alone.
FlagOnSpawn == TRUE
FlagOnSpawnFail == m_bReConn

ReConnSpawn(a) ==
  /\ pc[a] = "spawn" /\ FreeThreads # {}
  /\ pc' = [pc EXCEPT ![NewThread] = "start", ![a] = AfterReConn(a)]
  /\ m_sem' = TRUE /\ m_thrdReConn' = NewThread /\ m_bReConn' = FlagOnSpawn
  /\ m_lockReConn' = NULL
  /\ UNCHANGED <<objects, lists, joining, fault>>

\* No semaphore, or a semaphore and no thread: there is no second attempt.
ReConnSpawnFail(a) ==
  /\ pc[a] = "spawn" /\ SpawnFails
  /\ \/ m_sem' = FALSE /\ UNCHANGED m_thrdReConn
     \/ m_sem' = TRUE /\ m_thrdReConn' = NULL
  /\ m_bReConn' = FlagOnSpawnFail
  /\ m_lockReConn' = NULL /\ Goto(a, AfterReConn(a))
  /\ UNCHANGED <<objects, lists, joining, fault>>

-----------------------------------------------------------------------------
(* DestroyConn, under the lock, by the reconnect thread or by DisConn *)

DestroyEndpoints(a) ==
  /\ pc[a] = "destroy" /\ LockFree
  /\ m_lockReConn' = a
  /\ ep' = [e \in Endpoints |-> IF e \in m_list THEN Unbound ELSE ep[e]]
  /\ Goto(a, "delSession")
  /\ UNCHANGED <<objects, m_bReConn, m_sem, m_thrdReConn, m_list, joining,
                 fault, arg>>

\* The delete and the assignment of NULL are two steps: the first Conn and Create
\* use the members without the lock.
DestroySession(a) ==
  /\ pc[a] = "delSession"
  /\ sess' = [s \in Sessions |-> IF s = m_pSession THEN "free" ELSE sess[s]]
  /\ Goto(a, "clearSession")
  /\ UNCHANGED <<reconn, lists, m_pConnection, m_pSession, raised, joining, fault>>

\* Mutant: the member is not cleared.
SessionKept == m_pSession

\* The value DestroyConn leaves in m_pSession after the delete.
SessionAfterDelete == NULL

ClearSession(a) ==
  /\ pc[a] = "clearSession"
  /\ m_pSession' = SessionAfterDelete
  /\ Goto(a, "delConnection")
  /\ UNCHANGED <<reconn, lists, m_pConnection, sess, raised, joining, fault>>

\* Deleting the connection closes what sessions it still has, and a callback
\* that has not begun is not made any more.
DestroyConnection(a) ==
  /\ pc[a] = "delConnection"
  /\ m_pConnection' = IF m_pConnection = NULL THEN NULL ELSE "deleted"
  /\ raised' = FALSE
  /\ sess' = [s \in Sessions |-> IF sess[s] = "open" THEN "closed" ELSE sess[s]]
  /\ Goto(a, "clearConnection")
  /\ UNCHANGED <<reconn, lists, m_pSession, joining, fault>>

ClearConnection(a) ==
  /\ pc[a] = "clearConnection"
  /\ m_pConnection' = NULL /\ raised' = FALSE
  /\ m_lockReConn' = NULL
  /\ Goto(a, AfterDestroy(a))
  /\ UNCHANGED <<lists, m_pSession, sess, m_bReConn, m_sem, m_thrdReConn, joining,
                 fault>>

-----------------------------------------------------------------------------
(* DoReconnWork, the reconnect thread *)

ThreadStart(t) ==
  /\ pc[t] = "start"
  /\ m_bReConn' = TRUE
  /\ Goto(t, "destroy")
  /\ UNCHANGED <<objects, lists, m_sem, m_thrdReConn, m_lockReConn, joining,
                 fault>>

\* MqProducer::Create and MqConsumer::Create: the session is stored whatever
\* happens next; on a connection that has failed the handle is not made.
Created(e, s) ==
  IF s = NULL THEN ep[e]
  ELSE [m_pSession |-> s,
        handle |-> ep[e].handle \/ (sess[s] = "open" /\ m_pConnection = "up")]

\* Mutants: the loop over the consumers is missing; so is the break.
ProducersOnly == m_list \cap Producers
NoBreak == "wait"

\* The endpoints ReBuildConn creates again, and the break after it.
ToRebuild == m_list
AfterRebuild == "finish"

ReBuildConn(t) ==
  /\ pc[t] = "rebuild" /\ LockFree
  /\ IF ~Dangling(m_pSession)
       THEN /\ ep' = [e \in Endpoints |-> IF e \in ToRebuild
                                            THEN Created(e, m_pSession)
                                            ELSE ep[e]]
            /\ Goto(t, AfterRebuild) /\ UNCHANGED fault
       ELSE fault' = "reconn" /\ UNCHANGED <<ep, pc>>
  /\ UNCHANGED <<objects, reconn, m_list, joining, arg>>

\* Conn failed.  The semaphore is posted only after the thread has cleared
\* m_bReConn, so the wait ends after 45 s and the loop goes round.
ThreadWait(t) ==
  /\ pc[t] = "wait"
  /\ Goto(t, "destroy")
  /\ UNCHANGED <<objects, reconn, lists, joining, fault>>

ThreadFinish(t) ==
  /\ pc[t] = "finish" /\ LockFree
  /\ m_bReConn' = FALSE
  /\ Goto(t, "done")
  /\ UNCHANGED <<objects, lists, m_sem, m_thrdReConn, m_lockReConn, joining,
                 fault>>

-----------------------------------------------------------------------------
(* The client library *)

\* The transport fails.  The library reports that once per connection.
Breaks ==
  /\ m_pConnection = "up"
  /\ m_pConnection' = "failed" /\ raised' = TRUE
  /\ UNCHANGED <<reconn, lists, m_pSession, sess, pc, joining, fault>>

onException ==
  /\ pc[Listener] = "idle" /\ raised
  /\ raised' = FALSE
  /\ Goto(Listener, "reconn")
  /\ UNCHANGED <<reconn, lists, m_pConnection, m_pSession, sess, joining,
                 fault>>
=============================================================================
