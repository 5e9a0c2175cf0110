-------------------------- MODULE HttpServerProofs --------------------------
(***************************************************************************)
(* The invariants of the HTTP front end, for any number of requests, pool  *)
(* threads, failing calls and calls that hang.                             *)
(***************************************************************************)
EXTENDS HttpServer, FiniteSetTheorems, TLAPS

-----------------------------------------------------------------------------
(* The inductive invariant *)

\* The main thread: the service thread comes after the semaphore, the pool after
\* the service thread, and the monitor, which waits on the semaphore, last.
MainInv ==
  /\ mainpc \in {"sem", "http"} => svcpc = "none"
  /\ mainpc \in {"sem", "http", "fields", "pool"} => m_hThreadPool = "null" /\ open /\ ~gone
  /\ mainpc \in {"http", "fields", "pool", "monitor", "serve"} => m_sem = "live"
  /\ monitor => mainpc = "serve"

\* m_hThreadPool and the pool: between Close and Drop the service thread is in
\* swartz_threadpool_destroy; without a pool there are no tasks; and a service
\* thread that is past the pool leaves none behind.
PoolInv ==
  /\ m_hThreadPool = "live" => ~gone /\ (open <=> svcpc # "drop")
  /\ m_hThreadPool = "null" => running = 0 /\ waiting = <<>>
  /\ svcpc \in {"work", "drop"} => m_hThreadPool = "live"
  /\ svcpc \in {"join", "clear", "ended"} => running = 0 /\ waiting = <<>>

\* libevent keeps requests only for a running loop, and StopServer, which never
\* goes on inside the loop, frees them with m_evhttp.
EventInv ==
  /\ svcpc \in {"dispatch", "loop", "work"} => m_evhttp = "live"
  /\ held # {} => m_evhttp = "live" /\ svcpc \in {"loop", "work", "free_http"}
  /\ svcpc \in TearDown => resume \in {"event_base", "evhttp", "bind", "gencb", "ended"}

Busy == {t \in Tasks : tpc[t] \in Handled}

\* A task is in line at most once, before its handler begins, and each handler
\* occupies a thread.
TaskInv ==
  /\ \A i, j \in DOMAIN waiting : waiting[i] = waiting[j] => i = j
  /\ \A i \in DOMAIN started : tpc[started[i]] # "new"
  /\ \A t \in Tasks : tpc[t] = "new" => answer[t] = "none"
  /\ fault = "none" =>
       /\ IsFiniteSet(Busy) /\ running = Cardinality(Busy)
       /\ \A i \in DOMAIN waiting : tpc[waiting[i]] = "given"

\* As long as no call of StartService has failed, StopServer does not run, the
\* objects that are used are there, and libevent keeps the request of every task.
FaultInv ==
  failures \cap EventCalls = {} =>
    /\ fault = "none"
    /\ svcpc \notin TearDown \cup {"ended"}
    /\ mainpc = "fields" => m_hThread = "live"
    /\ svcpc \in {"evhttp", "bind", "gencb", "dispatch", "loop", "work"} => m_pBase = "live"
    /\ svcpc \in {"bind", "gencb", "dispatch", "loop", "work"} => m_evhttp = "live"
    /\ \A t \in Tasks : tpc[t] \in Handled \cup {"given"} => t \in held

IInv == TypeOK /\ MainInv /\ PoolInv /\ EventInv /\ TaskInv /\ FaultInv

-----------------------------------------------------------------------------
(* Frames *)

\* A step that leaves the pool and the requests' places alone, fault or not.
LEMMA TaskFrame ==
  ASSUME TaskInv, fault = "none", UNCHANGED <<waiting, started, running, answer, tpc>>
  PROVE  TaskInv'
<1>1. Busy' = Busy
  BY DEF Busy
<1> QED
  BY <1>1 DEF TaskInv

-----------------------------------------------------------------------------
(* The initial states *)

\* A process that has just started satisfies the invariant.
LEMMA InitInv == Init => IInv
<1> SUFFICES ASSUME Init PROVE IInv
  OBVIOUS
<1> USE FrontAssumption DEF Init, Pool!Init
<1>1. TypeOK
  <2>1. {monitor, bound, open, gone} \subseteq BOOLEAN
    BY Zenon
  <2>2. hangs \in 0..MaxHangs /\ running \in 0..Limit
    OBVIOUS
  <2>3. waiting \in Seq(Tasks) /\ started \in Seq(Tasks)
    OBVIOUS
  <2> QED
    BY <2>1, <2>2, <2>3 DEF TypeOK, MainPc, SvcPc, TaskPc, Kinds
<1>2. MainInv /\ PoolInv /\ EventInv
  BY DEF MainInv, PoolInv, EventInv, TearDown
<1>3. Busy = {}
  BY DEF Busy, Handled
<1>4. TaskInv
  BY <1>3, FS_EmptySet DEF TaskInv
<1>5. FaultInv
  BY DEF FaultInv, TearDown, Handled
<1> QED
  BY <1>1, <1>2, <1>4, <1>5 DEF IInv

-----------------------------------------------------------------------------
(* The main thread *)

\* The steps of the main thread keep it: semaphore, service thread and its fields,
\* pool, monitor.
LEMMA MainStepInv ==
  ASSUME IInv, fault = "none", MainStep
  PROVE  IInv'
<1> USE DEF IInv, mainVars, eventVars, poolVars, taskVars
<1>1. CASE CreateSem
  <2> USE <1>1 DEF CreateSem
  <2>1. TypeOK'
    BY DEF TypeOK, MainPc, Kinds, Fails
  <2>2. MainInv' /\ PoolInv' /\ EventInv'
    BY DEF TypeOK, MainInv, PoolInv, EventInv
  <2>3. TaskInv'
    BY TaskFrame
  <2>4. FaultInv'
    BY DEF FaultInv, Fails
  <2> QED
    BY <2>1, <2>2, <2>3, <2>4
<1>2. CASE CreateService
  <2> USE <1>2 DEF CreateService
  <2>1. TypeOK'
    BY DEF TypeOK, MainPc, SvcPc, SetUp, Kinds, Fails
  <2>2. MainInv' /\ PoolInv' /\ EventInv'
    BY DEF TypeOK, MainInv, PoolInv, EventInv, TearDown
  <2>3. TaskInv'
    BY TaskFrame
  <2>4. FaultInv'
    BY DEF FaultInv, Fails, MainInv, TearDown
  <2> QED
    BY <2>1, <2>2, <2>3, <2>4
<1>3. CASE StoreFields
  <2> USE <1>3 DEF StoreFields, Faults
  <2>1. TypeOK'
    BY DEF TypeOK, MainPc
  <2>2. MainInv' /\ PoolInv' /\ EventInv'
    BY DEF TypeOK, MainInv, PoolInv, EventInv
  <2>3. TaskInv'
    BY TaskFrame
  <2>4. FaultInv'
    BY DEF FaultInv
  <2> QED
    BY <2>1, <2>2, <2>3, <2>4
<1>4. CASE CreatePool
  <2> USE <1>4 DEF CreatePool
  <2>1. TypeOK'
    BY DEF TypeOK, MainPc, Kinds, Fails
  <2>2. MainInv' /\ PoolInv' /\ EventInv'
    BY DEF TypeOK, MainInv, PoolInv, EventInv
  <2>3. TaskInv'
    BY TaskFrame
  <2>4. FaultInv'
    BY DEF FaultInv, Fails
  <2> QED
    BY <2>1, <2>2, <2>3, <2>4
<1>5. CASE CreateMonitor
  <2> USE <1>5 DEF CreateMonitor, DcStopServer
  <2>1. TypeOK'
    BY DEF TypeOK, MainPc, Kinds, Fails
  <2>2. MainInv' /\ PoolInv' /\ EventInv'
    BY DEF TypeOK, MainInv, PoolInv, EventInv
  <2>3. TaskInv'
    BY TaskFrame
  <2>4. FaultInv'
    BY DEF FaultInv, Fails
  <2> QED
    BY <2>1, <2>2, <2>3, <2>4
<1> QED
  BY <1>1, <1>2, <1>3, <1>4, <1>5 DEF MainStep

-----------------------------------------------------------------------------
(* The service thread *)

\* StartService up to the event loop: each call, its failure and its fault.
LEMMA SetUpStepInv ==
  ASSUME IInv, fault = "none", SetUpStep
  PROVE  IInv'
<1> USE DEF IInv, mainVars, eventVars, poolVars, taskVars, svcRest, callRest
<1>1. CASE UseThreads
  <2> USE <1>1 DEF UseThreads, GoOn, StopThenGoOn, Fails
  <2>1. TypeOK'
    BY DEF TypeOK, SvcPc, SetUp, TearDown, Kinds, EventCalls
  <2>2. MainInv' /\ PoolInv' /\ EventInv'
    BY DEF TypeOK, MainInv, PoolInv, EventInv, TearDown
  <2>3. TaskInv'
    BY TaskFrame
  <2>4. FaultInv'
    BY DEF FaultInv, EventCalls, TearDown
  <2> QED
    BY <2>1, <2>2, <2>3, <2>4
<1>2. CASE NewBase
  <2> USE <1>2 DEF NewBase, GoOn, StopThenGoOn, Fails
  <2>1. TypeOK'
    BY DEF TypeOK, SvcPc, SetUp, TearDown, Kinds, EventCalls
  <2>2. MainInv' /\ PoolInv' /\ EventInv'
    BY DEF TypeOK, MainInv, PoolInv, EventInv, TearDown
  <2>3. TaskInv'
    BY TaskFrame
  <2>4. FaultInv'
    BY DEF FaultInv, EventCalls, TearDown
  <2> QED
    BY <2>1, <2>2, <2>3, <2>4
<1>3. CASE NewHttp
  <2> USE <1>3 DEF NewHttp, GoOn, StopThenGoOn, Fails
  <2>1. TypeOK'
    BY DEF TypeOK, SvcPc, SetUp, TearDown, Kinds, EventCalls
  <2>2. MainInv' /\ PoolInv' /\ EventInv'
    BY DEF TypeOK, MainInv, PoolInv, EventInv, TearDown
  <2>3. TaskInv'
    BY TaskFrame
  <2>4. FaultInv'
    BY DEF FaultInv, EventCalls, TearDown
  <2> QED
    BY <2>1, <2>2, <2>3, <2>4
<1>4. CASE BindSocket
  <2> USE <1>4 DEF BindSocket, GoOn, StopThenGoOn, Fails, Faults
  <2>1. TypeOK'
    BY DEF TypeOK, SvcPc, SetUp, TearDown, Kinds, EventCalls
  <2>2. MainInv' /\ PoolInv' /\ EventInv'
    BY DEF TypeOK, MainInv, PoolInv, EventInv, TearDown
  <2>3. TaskInv'
    BY TaskFrame
  <2>4. FaultInv'
    BY DEF FaultInv, EventCalls, TearDown
  <2> QED
    BY <2>1, <2>2, <2>3, <2>4
<1>5. CASE SetCallback
  <2> USE <1>5 DEF SetCallback, Faults
  <2>1. TypeOK'
    BY DEF TypeOK, SvcPc, SetUp, TearDown
  <2>2. MainInv' /\ PoolInv' /\ EventInv'
    BY DEF TypeOK, MainInv, PoolInv, EventInv, TearDown
  <2>3. TaskInv'
    BY TaskFrame
  <2>4. FaultInv'
    BY DEF FaultInv, TearDown
  <2> QED
    BY <2>1, <2>2, <2>3, <2>4
<1>6. CASE Dispatch
  <2> USE <1>6 DEF Dispatch, Faults
  <2>1. TypeOK'
    BY DEF TypeOK, SvcPc, SetUp, TearDown
  <2>2. MainInv' /\ PoolInv' /\ EventInv'
    BY DEF TypeOK, MainInv, PoolInv, EventInv, TearDown
  <2>3. TaskInv'
    BY TaskFrame
  <2>4. FaultInv'
    BY DEF FaultInv, TearDown
  <2> QED
    BY <2>1, <2>2, <2>3, <2>4
<1> QED
  BY <1>1, <1>2, <1>3, <1>4, <1>5, <1>6 DEF SetUpStep

\* StopServer.
LEMMA StopStepInv ==
  ASSUME IInv, fault = "none", StopStep
  PROVE  IInv'
<1> USE DEF IInv, mainVars, eventVars, poolVars, taskVars, svcRest, callRest
<1>1. CASE FreeHttp
  <2> USE <1>1 DEF FreeHttp
  <2>1. TypeOK'
    BY DEF TypeOK, SvcPc, SetUp, TearDown
  <2>2. MainInv' /\ PoolInv' /\ EventInv'
    BY DEF TypeOK, MainInv, PoolInv, EventInv, TearDown
  <2>3. TaskInv'
    BY TaskFrame
  <2>4. FaultInv'
    BY DEF FaultInv, TearDown
  <2> QED
    BY <2>1, <2>2, <2>3, <2>4
<1>2. CASE FreeBase
  <2> USE <1>2 DEF FreeBase
  <2>1. TypeOK'
    BY DEF TypeOK, SvcPc, SetUp, TearDown
  <2>2. MainInv' /\ PoolInv' /\ EventInv'
    BY DEF TypeOK, MainInv, PoolInv, EventInv, TearDown
  <2>3. TaskInv'
    BY TaskFrame
  <2>4. FaultInv'
    BY DEF FaultInv, TearDown
  <2> QED
    BY <2>1, <2>2, <2>3, <2>4
<1>3. CASE DestroyPool
  <2> USE <1>3 DEF DestroyPool, PoolDestroyed, Pool!Close
  <2>1. TypeOK'
    BY DEF TypeOK, SvcPc, SetUp, TearDown
  <2>2. MainInv' /\ PoolInv' /\ EventInv'
    BY DEF TypeOK, MainInv, PoolInv, EventInv, TearDown
  <2>3. TaskInv'
    BY TaskFrame
  <2>4. FaultInv'
    BY DEF FaultInv, TearDown
  <2> QED
    BY <2>1, <2>2, <2>3, <2>4
<1>4. CASE DropPool
  <2> USE <1>4 DEF DropPool, PoolPointerCleared, Pool!Drop
  <2>1. TypeOK'
    BY DEF TypeOK, SvcPc, SetUp, TearDown
  <2>2. MainInv' /\ PoolInv' /\ EventInv'
    BY DEF TypeOK, MainInv, PoolInv, EventInv, TearDown
  <2>3. TaskInv'
    BY DEF TaskInv, Busy
  <2>4. FaultInv'
    BY DEF FaultInv, TearDown
  <2> QED
    BY <2>1, <2>2, <2>3, <2>4
<1>5. CASE JoinSelf
  <2> USE <1>5 DEF JoinSelf, JoinFails
  <2>1. TypeOK'
    BY DEF TypeOK, SvcPc, SetUp, TearDown
  <2>2. MainInv' /\ PoolInv' /\ EventInv'
    BY DEF TypeOK, MainInv, PoolInv, EventInv, TearDown
  <2>3. TaskInv'
    BY TaskFrame
  <2>4. FaultInv'
    BY DEF FaultInv, TearDown
  <2> QED
    BY <2>1, <2>2, <2>3, <2>4
<1>6. CASE ClearThread
  <2> USE <1>6 DEF ClearThread
  <2>1. TypeOK'
    BY DEF TypeOK, SvcPc, SetUp, TearDown
  <2>2. MainInv' /\ PoolInv' /\ EventInv'
    BY DEF TypeOK, MainInv, PoolInv, EventInv, TearDown
  <2>3. TaskInv'
    BY TaskFrame
  <2>4. FaultInv'
    BY DEF FaultInv, TearDown
  <2> QED
    BY <2>1, <2>2, <2>3, <2>4
<1> QED
  BY <1>1, <1>2, <1>3, <1>4, <1>5, <1>6 DEF StopStep

-----------------------------------------------------------------------------
(* Counting handlers *)

\* A request whose handler begins ...
LEMMA BusyGrows ==
  ASSUME tpc \in [Tasks -> TaskPc], NEW t \in Tasks, NEW pc \in Handled,
         IsFiniteSet(Busy), tpc[t] \notin Handled, Move(t, pc)
  PROVE  IsFiniteSet(Busy)' /\ Cardinality(Busy)' = Cardinality(Busy) + 1
<1>1. t \notin Busy /\ Busy' = Busy \cup {t}
  BY DEF Busy, Move
<1> QED
  BY <1>1, FS_AddElement

\* ... ends ...
LEMMA BusyShrinks ==
  ASSUME tpc \in [Tasks -> TaskPc], NEW t \in Tasks, NEW pc, pc \notin Handled,
         IsFiniteSet(Busy), tpc[t] \in Handled, Move(t, pc)
  PROVE  IsFiniteSet(Busy)' /\ Cardinality(Busy)' = Cardinality(Busy) - 1
<1>1. t \in Busy /\ Busy' = Busy \ {t}
  BY DEF Busy, Move
<1> QED
  BY <1>1, FS_RemoveElement

\* ... or neither.
LEMMA BusyStays ==
  ASSUME tpc \in [Tasks -> TaskPc], NEW t \in Tasks, NEW pc,
         tpc[t] \in Handled <=> pc \in Handled, Move(t, pc)
  PROVE  Busy' = Busy
BY DEF Busy, Move

-----------------------------------------------------------------------------
(* The event loop and the callback *)

\* event_base_dispatch returning an error, which calls StopServer, keeps it.
LEMMA LoopEndsInv ==
  ASSUME IInv, fault = "none", LoopEnds
  PROVE  IInv'
<1> USE DEF IInv, mainVars, eventVars, poolVars, taskVars, svcRest,
            LoopEnds, StopThenGoOn, Fails
<1>1. TypeOK'
  BY DEF TypeOK, SvcPc, TearDown, Kinds, EventCalls
<1>2. MainInv' /\ PoolInv' /\ EventInv'
  BY DEF TypeOK, MainInv, PoolInv, EventInv, TearDown
<1>3. TaskInv'
  BY TaskFrame
<1>4. FaultInv'
  BY DEF FaultInv, EventCalls
<1> QED
  BY <1>1, <1>2, <1>3, <1>4

\* A request that gets no further: it was new, and so no task is affected.
LEMMA DropsRequest ==
  ASSUME TypeOK, TaskInv, fault = "none", fault' = "none", NEW t \in Tasks,
         tpc[t] = "new", Move(t, "dropped"), UNCHANGED <<waiting, started, running>>,
         \A u \in Tasks : u # t => answer'[u] = answer[u]
  PROVE  TaskInv'
<1>1. Busy' = Busy
  BY BusyStays DEF TypeOK, Handled
<1>2. \A u \in Tasks : tpc'[u] = IF u = t THEN "dropped" ELSE tpc[u]
  BY DEF TypeOK, Move
<1>3. \A i \in DOMAIN waiting : waiting[i] \in Tasks
  BY DEF TypeOK
<1>4. \A i \in DOMAIN started : started[i] \in Tasks
  BY DEF TypeOK
<1>5. \A i \in DOMAIN waiting : tpc'[waiting[i]] = "given"
  <2>1. \A i \in DOMAIN waiting : tpc[waiting[i]] = "given"
    BY DEF TaskInv
  <2> QED
    BY ONLY <1>2, <1>3, <2>1, tpc[t] = "new"
<1>6. \A i \in DOMAIN started : tpc'[started[i]] # "new"
  <2>1. \A i \in DOMAIN started : tpc[started[i]] # "new"
    BY DEF TaskInv
  <2> QED
    BY ONLY <1>2, <1>4, <2>1
<1>7. \A u \in Tasks : tpc'[u] = "new" => answer'[u] = "none"
  BY <1>2 DEF TaskInv
<1> QED
  BY <1>1, <1>5, <1>6, <1>7 DEF TaskInv

\* A request that finds no pool is dropped, and takes no thread.
LEMMA NoPoolInv ==
  ASSUME IInv, fault = "none", NEW t \in Tasks, CallbackNoPool(t)
  PROVE  IInv'
<1> USE DEF IInv, mainVars, eventVars, poolVars, taskVars, callRest, CallbackNoPool
<1>1. TypeOK'
  BY DEF TypeOK, Move, TaskPc
<1>2. MainInv' /\ PoolInv' /\ EventInv'
  BY DEF TypeOK, MainInv, PoolInv, EventInv, TearDown
<1>3. TaskInv'
  BY DropsRequest
<1>4. FaultInv'
  BY DEF FaultInv, TypeOK, Move, Handled
<1> QED
  BY <1>1, <1>2, <1>3, <1>4

\* A request the pool has no memory for is refused, and dropped.
LEMMA NoMemoryInv ==
  ASSUME IInv, fault = "none", NEW t \in Tasks, CallbackNoMemory(t)
  PROVE  IInv'
<1> USE DEF IInv, mainVars, eventVars, poolVars, taskVars, callRest,
            CallbackNoMemory, Pool!Refuse, Fails
<1>1. TypeOK'
  BY DEF TypeOK, Move, TaskPc, Kinds
<1>2. MainInv' /\ PoolInv' /\ EventInv'
  BY DEF TypeOK, MainInv, PoolInv, EventInv, TearDown
<1>3. TaskInv'
  <2>1. \A u \in Tasks : u # t => answer'[u] = answer[u]
    BY DEF TypeOK
  <2> QED
    BY <2>1, DropsRequest
<1>4. FaultInv'
  BY DEF FaultInv, TypeOK, Move, Handled
<1> QED
  BY <1>1, <1>2, <1>3, <1>4

\* A line without repetitions, and a task that is not in it.
LEMMA JoinsOnce ==
  ASSUME NEW q \in Seq(Tasks), NEW e, NEW r, r = Append(q, e),
         \A i, j \in DOMAIN q : q[i] = q[j] => i = j, \A i \in DOMAIN q : q[i] # e
  PROVE  /\ \A i, j \in DOMAIN r : r[i] = r[j] => i = j
         /\ \A i \in DOMAIN r : r[i] = e \/ (i \in DOMAIN q /\ r[i] = q[i])
<1>1. /\ DOMAIN r = 1..(Len(q) + 1) /\ Len(q) \in Nat /\ DOMAIN q = 1..Len(q)
      /\ \A i \in 1..Len(q) : r[i] = q[i]
      /\ r[Len(q) + 1] = e
  OBVIOUS
<1>2. \A i \in DOMAIN r : i \in DOMAIN q \/ i = Len(q) + 1
  BY ONLY <1>1
<1> QED
  BY <1>1, <1>2

\* What joining the line makes of it.
LEMMA EnterQueue ==
  ASSUME TypeOK, TaskInv, fault = "none", NEW t \in Tasks, tpc[t] = "new",
         Pool!Enter(t), Move(t, "given")
  PROVE  /\ waiting' \in Seq(Tasks)
         /\ \A i, j \in DOMAIN waiting' : waiting'[i] = waiting'[j] => i = j
         /\ \A i \in DOMAIN waiting' : tpc'[waiting'[i]] = "given"
<1>1. waiting \in Seq(Tasks) /\ tpc \in [Tasks -> TaskPc]
  BY DEF TypeOK
<1>2. waiting' = Append(waiting, t) /\ \A i \in DOMAIN waiting : waiting[i] # t
  BY DEF Pool!Enter, Pool!Entered
<1>3. /\ \A i, j \in DOMAIN waiting : waiting[i] = waiting[j] => i = j
      /\ \A i \in DOMAIN waiting : tpc[waiting[i]] = "given"
  BY DEF TaskInv
<1>4. \A u \in Tasks : tpc'[u] = IF u = t THEN "given" ELSE tpc[u]
  BY <1>1 DEF Move
<1>5. /\ \A i, j \in DOMAIN waiting' : waiting'[i] = waiting'[j] => i = j
      /\ \A i \in DOMAIN waiting' :
           waiting'[i] = t \/ (i \in DOMAIN waiting /\ waiting'[i] = waiting[i])
  <2>1. waiting \in Seq(Tasks) /\ waiting' = Append(waiting, t)
    BY <1>1, <1>2
  <2>2. /\ \A i, j \in DOMAIN waiting : waiting[i] = waiting[j] => i = j
        /\ \A i \in DOMAIN waiting : waiting[i] # t
    BY <1>2, <1>3
  <2> QED
    BY ONLY <2>1, <2>2, JoinsOnce
<1>6. \A i \in DOMAIN waiting : waiting[i] \in Tasks
  BY <1>1
<1>7. \A i \in DOMAIN waiting' : tpc'[waiting'[i]] = "given"
  BY <1>3, <1>4, <1>5, <1>6
<1> QED
  BY <1>1, <1>2, <1>5, <1>7

\* A request handed to thrmgr_dispatch joins the queue.
LEMMA EnterInv ==
  ASSUME IInv, fault = "none", NEW t \in Tasks, CallbackEnter(t)
  PROVE  IInv'
<1>1. /\ svcpc = "loop" /\ svcpc' = "work" /\ tpc[t] = "new" /\ m_hThreadPool # "null"
      /\ Pool!Enter(t) /\ Move(t, "given") /\ held' = held \cup {t}
  BY DEF CallbackEnter
<1>2. UNCHANGED <<mainpc, m_sem, monitor, resume, m_hThread, m_pBase, m_evhttp, bound,
                  m_hThreadPool, hangs, failures, fault>>
  BY DEF CallbackEnter, callRest, mainVars, eventVars
<1>3. UNCHANGED <<open, gone, started, running, answer>>
  BY <1>1 DEF Pool!Enter
<1>4. TypeOK /\ MainInv /\ PoolInv /\ EventInv /\ TaskInv /\ FaultInv
  BY DEF IInv
<1>5. /\ waiting' \in Seq(Tasks)
      /\ \A i, j \in DOMAIN waiting' : waiting'[i] = waiting'[j] => i = j
      /\ \A i \in DOMAIN waiting' : tpc'[waiting'[i]] = "given"
  BY <1>1, <1>4, EnterQueue
<1>6. tpc \in [Tasks -> TaskPc] /\ m_hThreadPool = "live"
  BY <1>1, <1>4 DEF TypeOK
<1>7. tpc' \in [Tasks -> TaskPc] /\ \A u \in Tasks : tpc'[u] = IF u = t THEN "given" ELSE tpc[u]
  BY <1>1, <1>6 DEF Move, TaskPc
<1>8. TypeOK'
  BY ONLY <1>1, <1>2, <1>3, <1>4, <1>5, <1>7, t \in Tasks DEF TypeOK, SvcPc
<1>9. MainInv'
  BY <1>1, <1>2, <1>3, <1>4 DEF MainInv
<1>10. PoolInv'
  BY <1>1, <1>2, <1>3, <1>4, <1>6 DEF PoolInv
<1>11. EventInv'
  BY <1>1, <1>2, <1>4 DEF EventInv, TearDown
<1>12. TaskInv'
  <2>1. Busy' = Busy
    BY <1>1, <1>6, BusyStays DEF Handled
  <2>2. \A i \in DOMAIN started : started[i] \in Tasks /\ tpc[started[i]] # "new"
    <3>1. started \in Seq(Tasks)
      BY <1>4 DEF TypeOK
    <3>2. \A i \in DOMAIN started : started[i] \in Tasks
      BY ONLY <3>1
    <3> QED
      BY <1>4, <3>2 DEF TaskInv
  <2>3. \A i \in DOMAIN started : tpc'[started[i]] # "new"
    BY <1>7, <2>2
  <2>4. \A u \in Tasks : tpc'[u] = "new" => answer'[u] = "none"
    BY <1>3, <1>4, <1>7 DEF TaskInv
  <2> QED
    BY <1>2, <1>3, <1>4, <1>5, <2>1, <2>3, <2>4 DEF TaskInv
<1>13. FaultInv'
  BY <1>1, <1>2, <1>4, <1>7 DEF FaultInv, TearDown
<1> QED
  BY <1>8, <1>9, <1>10, <1>11, <1>12, <1>13 DEF IInv

\* swartz_threadpool_work returns, with any answer, for a task that entered.
LEMMA AnswerInv ==
  ASSUME IInv, fault = "none", NEW t \in Tasks, CallbackAccept(t) \/ CallbackRefuse(t)
  PROVE  IInv'
<1>1. /\ svcpc = "work" /\ svcpc' = "loop" /\ Pool!Entered(t)
      /\ failures' = failures \/ failures' = failures \cup {"refuse"}
  BY DEF CallbackAccept, CallbackRefuse, Pool!Accept, Fails
<1>2. UNCHANGED <<mainpc, m_sem, monitor, resume, m_hThread, m_pBase, m_evhttp, bound,
                  m_hThreadPool, tpc, held, hangs, fault>>
  BY DEF CallbackAccept, CallbackRefuse, RefusedKept, callRest, mainVars, eventVars, taskVars
<1>3. /\ UNCHANGED <<open, gone, waiting, started, running>>
      /\ \E a \in {"SWARTZ_OK", "SWARTZ_ERR"} : answer' = [answer EXCEPT ![t] = a]
  BY DEF CallbackAccept, CallbackRefuse, Pool!Accept, Pool!Refuse
<1>4. TypeOK /\ MainInv /\ PoolInv /\ EventInv /\ TaskInv /\ FaultInv
  BY DEF IInv
<1>5. TypeOK'
  <2>1. answer' \in [Tasks -> {"none", "SWARTZ_OK", "SWARTZ_ERR"}]
    BY <1>3, <1>4 DEF TypeOK
  <2>2. failures' \subseteq Kinds
    BY <1>1, <1>4 DEF TypeOK, Kinds
  <2> QED
    BY <1>1, <1>2, <1>3, <1>4, <2>1, <2>2 DEF TypeOK, SvcPc
<1>6. MainInv'
  BY <1>1, <1>2, <1>3, <1>4 DEF MainInv
<1>7. PoolInv'
  BY <1>1, <1>2, <1>3, <1>4 DEF PoolInv
<1>8. EventInv'
  BY <1>1, <1>2, <1>4 DEF EventInv, TearDown
<1>9. TaskInv'
  <2>1. tpc[t] # "new"
    BY <1>1, <1>4 DEF Pool!Entered, TaskInv
  <2>2. \A u \in Tasks : u # t => answer'[u] = answer[u]
    BY <1>3, <1>4 DEF TypeOK
  <2>3. \A u \in Tasks : tpc[u] = "new" => answer'[u] = "none"
    BY <1>4, <2>1, <2>2 DEF TaskInv
  <2>4. Busy' = Busy
    BY <1>2 DEF Busy
  <2> QED
    BY <1>2, <1>3, <1>4, <2>3, <2>4 DEF TaskInv
<1>10. FaultInv'
  BY <1>1, <1>2, <1>4 DEF FaultInv, TearDown
<1> QED
  BY <1>5, <1>6, <1>7, <1>8, <1>9, <1>10 DEF IInv

-----------------------------------------------------------------------------
(* The handlers *)

\* The first task in line is taken out of it.
LEMMA TakesFirst ==
  ASSUME waiting \in Seq(Tasks), started \in Seq(Tasks), Pool!Start
  PROVE  /\ Head(waiting) \in Tasks /\ waiting' \in Seq(Tasks) /\ started' \in Seq(Tasks)
         /\ DOMAIN waiting = 1..Len(waiting) /\ Len(waiting) \in Nat
         /\ DOMAIN waiting' = 1..(Len(waiting) - 1)
         /\ Head(waiting) = waiting[1] /\ 1 \in DOMAIN waiting
         /\ \A i \in DOMAIN waiting' : waiting'[i] = waiting[i + 1] /\ i + 1 \in DOMAIN waiting
         /\ \A i \in DOMAIN started' :
              (i \in DOMAIN started /\ started'[i] = started[i]) \/ started'[i] = Head(waiting)
BY DEF Pool!Start

\* A worker that takes the first request counts as one busy thread more.
LEMMA WorkBeginsInv ==
  ASSUME IInv, fault = "none", WorkBegins
  PROVE  IInv'
<1> DEFINE t == Head(waiting)
<1>0. UNCHANGED <<mainpc, m_sem, monitor, svcpc, resume, m_hThread, m_pBase, m_evhttp, bound,
                  m_hThreadPool, open, gone, answer, held, hangs, failures>>
  BY DEF WorkBegins, Pool!Start, callRest, mainVars, eventVars
<1>1. waiting \in Seq(Tasks) /\ started \in Seq(Tasks) /\ tpc \in [Tasks -> TaskPc]
  BY DEF IInv, TypeOK
<1>2. Pool!Start /\ waiting # <<>> /\ running' = running + 1
  BY DEF WorkBegins, Pool!Start
<1>3. /\ t \in Tasks
      /\ \/ TaskThere(t) /\ Move(t, "begin") /\ UNCHANGED fault
         \/ ~TaskThere(t) /\ Faults("begin") /\ UNCHANGED tpc
  BY <1>1, <1>2, TakesFirst DEF WorkBegins
<1>4. 1 \in DOMAIN waiting /\ waiting[1] = t
  BY <1>1, <1>2, TakesFirst
<1>5. tpc[t] = "given"
  BY <1>4 DEF IInv, TaskInv
<1>6. \A i \in DOMAIN waiting' : waiting'[i] = waiting[i + 1] /\ i + 1 \in DOMAIN waiting
  BY <1>1, <1>2, TakesFirst
<1>7. \A i \in DOMAIN waiting' : waiting'[i] # t
  <2>1. \A i \in DOMAIN waiting' : i \in Nat /\ i # 0
    BY <1>1, <1>2, TakesFirst
  <2>2. \A i \in DOMAIN waiting' : i + 1 # 1
    BY <2>1
  <2> QED
    BY <1>4, <1>6, <2>2 DEF IInv, TaskInv
<1>8. \A u \in Tasks : u # t => tpc'[u] = tpc[u]
  BY <1>1, <1>3 DEF Move
<1>9. tpc'[t] # "new"
  BY <1>1, <1>3, <1>5 DEF Move
<1> USE DEF IInv
<1>10. TypeOK'
  <2>1. waiting' \in Seq(Tasks) /\ started' \in Seq(Tasks)
    BY <1>1, <1>2, TakesFirst
  <2>2. running' \in 0..Limit
    <3>1. running < Limit
      BY <1>2 DEF Pool!Start
    <3>2. running \in 0..Limit /\ Limit \in Nat
      BY FrontAssumption DEF TypeOK
    <3> QED
      BY ONLY <1>2, <3>1, <3>2
  <2>3. tpc' \in [Tasks -> TaskPc] /\ fault' \in {"none", "begin"}
    BY <1>1, <1>3 DEF Move, Faults, TaskPc, Handled
  <2> QED
    BY <1>0, <2>1, <2>2, <2>3 DEF TypeOK
<1>11. MainInv' /\ PoolInv' /\ EventInv'
  <2>1. MainInv'
    BY <1>0 DEF MainInv
  <2>2. PoolInv'
    BY <1>0, <1>2 DEF PoolInv, TypeOK
  <2>3. EventInv'
    BY <1>0 DEF EventInv
  <2> QED
    BY <2>1, <2>2, <2>3
<1>12. TaskInv'
  <2>1. \A i, j \in DOMAIN waiting' : waiting'[i] = waiting'[j] => i = j
    <3>1. \A i \in DOMAIN waiting' : i \in Nat
      BY <1>1, <1>2, TakesFirst
    <3>2. \A i, j \in Nat : i + 1 = j + 1 => i = j
      OBVIOUS
    <3> QED
      BY <3>1, <3>2, <1>6 DEF TaskInv
  <2>2. \A i \in DOMAIN started' : tpc'[started'[i]] # "new"
    <3>1. \A i \in DOMAIN started' :
            (i \in DOMAIN started /\ started'[i] = started[i]) \/ started'[i] = t
      BY <1>1, <1>2, TakesFirst
    <3>2. \A i \in DOMAIN started : started[i] \in Tasks
      BY <1>1
    <3> QED
      BY <3>1, <3>2, <1>8, <1>9 DEF TaskInv
  <2>3. \A u \in Tasks : tpc'[u] = "new" => answer'[u] = "none"
    BY <1>8, <1>9 DEF TaskInv, WorkBegins, Pool!Start
  <2>4. ASSUME fault' = "none"
        PROVE  /\ IsFiniteSet(Busy)' /\ running' = Cardinality(Busy)'
               /\ \A i \in DOMAIN waiting' : tpc'[waiting'[i]] = "given"
    <3>1. Move(t, "begin")
      BY <1>3, <2>4 DEF Faults
    <3>2. IsFiniteSet(Busy)' /\ Cardinality(Busy)' = Cardinality(Busy) + 1
      BY <1>1, <1>3, <1>5, <3>1, BusyGrows DEF TaskInv, Handled
    <3>3. \A i \in DOMAIN waiting' : waiting'[i] \in Tasks
      BY <1>1, <1>6
    <3>4. \A i \in DOMAIN waiting' : tpc'[waiting'[i]] = "given"
      BY <1>6, <1>7, <1>8, <3>3 DEF TaskInv
    <3> QED
      BY <1>2, <3>2, <3>4 DEF TaskInv
  <2> QED
    BY <2>1, <2>2, <2>3, <2>4 DEF TaskInv
<1>13. FaultInv'
  <2> SUFFICES ASSUME failures \cap EventCalls = {}
               PROVE  FaultInv'
    BY <1>0 DEF FaultInv
  <2>1. t \in held
    BY <1>3, <1>5 DEF FaultInv
  <2>2. fault' = "none"
    BY ONLY <2>1, <1>3, <1>5, fault = "none" DEF TaskThere
  <2> QED
    BY <1>0, <2>1, <2>2, <1>8 DEF FaultInv
<1> QED
  BY <1>10, <1>11, <1>12, <1>13

\* A handler is at a place of its own: its request is in no line and not new.
LEMMA HandlerMoves ==
  ASSUME TypeOK, TaskInv, fault = "none", fault' = "none",
         NEW t \in Tasks, tpc[t] \in Handled,
         NEW pc, pc # "new", Move(t, pc), UNCHANGED <<waiting, started, answer>>,
         \/ pc \in Handled /\ UNCHANGED running
         \/ pc \notin Handled /\ running' = running - 1
  PROVE  TaskInv'
<1>1. IsFiniteSet(Busy)' /\ running' = Cardinality(Busy)'
  <2>1. CASE pc \in Handled
    BY <2>1, BusyStays DEF TypeOK, TaskInv
  <2>2. CASE pc \notin Handled
    BY <2>2, BusyShrinks DEF TypeOK, TaskInv
  <2> QED
    BY <2>1, <2>2
<1>2. \A u \in Tasks : tpc'[u] = IF u = t THEN pc ELSE tpc[u]
  BY DEF TypeOK, Move
<1>3. \A i \in DOMAIN waiting : waiting[i] \in Tasks /\ waiting[i] # t
  <2>0. waiting \in Seq(Tasks)
    BY DEF TypeOK
  <2>1. \A i \in DOMAIN waiting : waiting[i] \in Tasks
    BY ONLY <2>0
  <2>2. \A i \in DOMAIN waiting : tpc[waiting[i]] = "given"
    BY DEF TaskInv
  <2>3. tpc[t] # "given"
    BY DEF Handled
  <2>4. ASSUME NEW i \in DOMAIN waiting, waiting[i] = t
        PROVE  FALSE
    <3>1. tpc[waiting[i]] = tpc[t]
      BY <2>4
    <3> QED
      BY <2>2, <2>3, <3>1, Zenon
  <2> QED
    BY <2>1, <2>4, Zenon
<1>4. \A i \in DOMAIN started : started[i] \in Tasks
  BY DEF TypeOK
<1>5. \A i \in DOMAIN waiting : tpc'[waiting[i]] = "given"
  <2>1. \A i \in DOMAIN waiting : tpc[waiting[i]] = "given"
    BY DEF TaskInv
  <2> QED
    BY ONLY <1>2, <1>3, <2>1
<1>6. \A i \in DOMAIN started : tpc'[started[i]] # "new"
  <2>1. \A i \in DOMAIN started : tpc[started[i]] # "new"
    BY DEF TaskInv
  <2> QED
    BY ONLY <1>2, <1>4, <2>1, pc # "new"
<1>7. \A u \in Tasks : tpc'[u] = "new" => answer'[u] = "none"
  BY <1>2 DEF TaskInv
<1> QED
  BY <1>1, <1>5, <1>6, <1>7 DEF TaskInv

\* The two counters a handler changes stay within their bounds.
LEMMA HandlerCounts ==
  ASSUME TypeOK, NEW t \in Tasks
  PROVE  /\ CallReturns(t) => hangs' \in 0..MaxHangs
         /\ SendReply(t) => running' \in 0..Limit
<1>1. hangs \in 0..MaxHangs /\ running \in 0..Limit /\ MaxHangs \in Nat /\ Limit \in Nat
  BY FrontAssumption DEF TypeOK
<1>2. CallReturns(t) => hangs' = hangs \/ (hangs < MaxHangs /\ hangs' = hangs + 1)
  BY DEF CallReturns
<1>3. SendReply(t) => running' = running \/ (running > 0 /\ running' = running - 1)
  BY DEF SendReply, Pool!Finish, poolVars
<1> QED
  BY <1>1, <1>2, <1>3

\* A handler leaves the threads' places, the pointers and the line alone, and
\* where it ends a task of the pool was running.
LEMMA HandlerFrame ==
  ASSUME MainInv, PoolInv, EventInv,
         UNCHANGED <<callRest, svcpc, open, gone, waiting>>,
         running > 0 \/ UNCHANGED running, held' \subseteq held, TypeOK
  PROVE  MainInv' /\ PoolInv' /\ EventInv'
<1>1. UNCHANGED <<mainpc, m_sem, monitor, resume, m_hThread, m_pBase, m_evhttp, bound,
                  m_hThreadPool, svcpc, open, gone, waiting>>
  BY DEF callRest, mainVars, eventVars
<1>2. MainInv'
  BY <1>1 DEF MainInv
<1>3. PoolInv'
  <2>1. running \in Nat
    BY FrontAssumption DEF TypeOK
  <2> QED
    BY <1>1, <2>1 DEF PoolInv
<1>4. EventInv'
  BY <1>1 DEF EventInv
<1> QED
  BY <1>2, <1>3, <1>4

\* Nor does it disturb what FaultInv says: the request it works on is kept until
\* it has an answer.
LEMMA HandlerFaultFrame ==
  ASSUME TypeOK, FaultInv, NEW t \in Tasks, tpc[t] \in Handled,
         UNCHANGED <<callRest, svcpc>>, failures \subseteq failures',
         \/ UNCHANGED <<tpc, held>>
         \/ \E pc \in Handled : Move(t, pc) /\ UNCHANGED held
         \/ \E pc \in {"answered", "leaked"} : Move(t, pc) /\ (held' = held \/ held' = held \ {t}),
         t \in held => fault' = fault
  PROVE  FaultInv'
<1>1. UNCHANGED <<mainpc, m_hThread, m_pBase, m_evhttp, svcpc>>
  BY DEF callRest, mainVars, eventVars
<1> SUFFICES ASSUME failures' \cap EventCalls = {}
             PROVE  FaultInv'
  BY DEF FaultInv
<1>2. failures \cap EventCalls = {}
  OBVIOUS
<1>3. /\ fault = "none" /\ svcpc \notin TearDown \cup {"ended"}
      /\ mainpc = "fields" => m_hThread = "live"
      /\ svcpc \in {"evhttp", "bind", "gencb", "dispatch", "loop", "work"} => m_pBase = "live"
      /\ svcpc \in {"bind", "gencb", "dispatch", "loop", "work"} => m_evhttp = "live"
  BY <1>2 DEF FaultInv
<1>4. \A u \in Tasks : tpc[u] \in Handled \cup {"given"} => u \in held
  BY <1>2 DEF FaultInv
<1>5. t \in held /\ fault' = "none"
  BY <1>3, <1>4
<1>6. \A u \in Tasks : tpc'[u] \in Handled \cup {"given"} => u \in held'
  <2>1. tpc \in [Tasks -> TaskPc]
    BY DEF TypeOK
  <2>2. CASE UNCHANGED <<tpc, held>>
    BY <1>4, <2>2
  <2>3. ASSUME NEW pc \in Handled, Move(t, pc), UNCHANGED held
        PROVE  \A u \in Tasks : tpc'[u] \in Handled \cup {"given"} => u \in held'
    BY <1>4, <1>5, <2>1, <2>3 DEF Move
  <2>4. ASSUME NEW pc \in {"answered", "leaked"}, Move(t, pc), held' = held \/ held' = held \ {t}
        PROVE  \A u \in Tasks : tpc'[u] \in Handled \cup {"given"} => u \in held'
    BY <1>4, <2>1, <2>4 DEF Move, Handled
  <2> QED
    BY <2>2, <2>3, <2>4
<1> QED
  BY <1>1, <1>3, <1>5, <1>6 DEF FaultInv

\* The steps of a handler, to its reply and its return, keep it.
LEMMA HandlerStepInv ==
  ASSUME IInv, fault = "none", NEW t \in Tasks, HandlerStep(t)
  PROVE  IInv'
<1> USE DEF IInv, mainVars, eventVars, poolVars, taskVars, callRest
<1>1. CASE WorkService(t)
  <2> USE <1>1 DEF WorkService, BadRequest, Faults
  <2>1. TypeOK'
    BY DEF TypeOK, Move, TaskPc, Handled
  <2>2. MainInv' /\ PoolInv' /\ EventInv'
    BY HandlerFrame
  <2>3. TaskInv'
    <3>1. CASE fault' = "none"
      <4>1. Move(t, "reply") \/ Move(t, "call")
        BY <3>1
      <4> QED
        BY <3>1, <4>1, HandlerMoves DEF Handled
    <3>2. CASE fault' # "none"
      BY <3>2, TaskFrame
    <3> QED
      BY <3>1, <3>2
  <2>4. FaultInv'
    BY HandlerFaultFrame DEF Handled
  <2> QED
    BY <2>1, <2>2, <2>3, <2>4
<1>2. CASE CallReturns(t)
  <2> USE <1>2 DEF CallReturns
  <2>1. TypeOK'
    <3>1. hangs' \in 0..MaxHangs
      BY HandlerCounts
    <3> QED
      BY <3>1 DEF TypeOK, Move, TaskPc, Handled
  <2>2. MainInv' /\ PoolInv' /\ EventInv'
    BY HandlerFrame
  <2>3. TaskInv'
    <3>1. Move(t, "reply") \/ Move(t, "hung")
      OBVIOUS
    <3> QED
      BY <3>1, HandlerMoves DEF Handled
  <2>4. FaultInv'
    BY HandlerFaultFrame DEF Handled
  <2> QED
    BY <2>1, <2>2, <2>3, <2>4
<1>3. CASE SendReply(t)
  <2> USE <1>3 DEF SendReply, Faults, Fails, Pool!Finish
  <2>1. TypeOK'
    <3>1. running' \in 0..Limit
      BY HandlerCounts
    <3> QED
      BY <3>1 DEF TypeOK, Move, TaskPc, Kinds
  <2>2. MainInv' /\ PoolInv' /\ EventInv'
    BY HandlerFrame
  <2>3. TaskInv'
    <3>1. CASE fault' = "none"
      <4>1. /\ Move(t, "answered") \/ Move(t, "leaked")
            /\ running' = running - 1 /\ UNCHANGED <<waiting, started, answer>>
        BY <3>1
      <4> QED
        BY <3>1, <4>1, HandlerMoves DEF Handled
    <3>2. CASE fault' # "none"
      BY <3>2, TaskFrame
    <3> QED
      BY <3>1, <3>2
  <2>4. FaultInv'
    BY HandlerFaultFrame DEF Handled
  <2> QED
    BY <2>1, <2>2, <2>3, <2>4
<1> QED
  BY <1>1, <1>2, <1>3 DEF HandlerStep

-----------------------------------------------------------------------------
(* The theorems *)

\* Every step, and stuttering, keeps the invariant.
LEMMA NextInv == IInv /\ [Next]_vars => IInv'
<1> SUFFICES ASSUME IInv, [Next]_vars
             PROVE  IInv'
  OBVIOUS
<1>1. CASE UNCHANGED vars
  <2> USE <1>1 DEF IInv, vars, mainVars, eventVars, poolVars, taskVars
  <2>1. TypeOK'
    BY DEF TypeOK
  <2>2. MainInv' /\ PoolInv'
    BY DEF MainInv, PoolInv
  <2>3. EventInv' /\ FaultInv'
    BY DEF EventInv, FaultInv
  <2>4. TaskInv'
    BY DEF TaskInv, Busy
  <2> QED
    BY <2>1, <2>2, <2>3, <2>4
<1>2. CASE fault = "none" /\ (MainStep \/ SetUpStep \/ LoopEnds \/ StopStep \/ WorkBegins)
  BY <1>2, MainStepInv, SetUpStepInv, LoopEndsInv, StopStepInv, WorkBeginsInv
<1>3. ASSUME fault = "none", NEW t \in Tasks,
             Arrives(t) \/ CallbackAccept(t) \/ CallbackRefuse(t) \/ HandlerStep(t)
      PROVE  IInv'
  BY <1>3, NoPoolInv, EnterInv, NoMemoryInv, AnswerInv, HandlerStepInv DEF Arrives
<1> QED
  BY <1>1, <1>2, <1>3 DEF Next, Done

\* In every state of the front end the invariant holds.
LEMMA AlwaysIInv == Spec => []IInv
BY InitInv, NextInv, PTL DEF Spec

\* Type correctness of the front end.
THEOREM AlwaysTyped == Spec => []TypeOK
<1>1. IInv => TypeOK
  BY DEF IInv
<1> QED
  BY AlwaysIInv, <1>1, PTL

\* No access to a null pointer or to freed memory in HttpServer.cpp, unless one
\* of the calls of StartService has failed and StopServer has run beside it.
THEOREM FaultsNeedEventFailures == Spec => []FaultNeedsEventFailure
<1>1. IInv => FaultNeedsEventFailure
  BY DEF IInv, FaultInv, FaultNeedsEventFailure
<1> QED
  BY AlwaysIInv, <1>1, PTL

\* The end of StartService finds no handler and no request left.
THEOREM EndsTornDown == Spec => []TornDown
<1>1. IInv => TornDown
  BY DEF IInv, PoolInv, EventInv, TornDown
<1> QED
  BY AlwaysIInv, <1>1, PTL

\* HttpServer.cpp keeps its side of the contract of the thread pool.
THEOREM ContractIsKept == Spec => []PoolContractKept
<1>1. ASSUME IInv PROVE PoolContractKept
  <2> SUFFICES ASSUME fault = "none"
               PROVE  /\ svcpc = "loop" /\ m_hThreadPool # "null" =>
                           /\ open /\ ~gone
                           /\ \A t \in Tasks : tpc[t] = "new" =>
                                answer[t] = "none" /\ ~Pool!Entered(t)
                      /\ svcpc = "pool" /\ m_hThreadPool # "null" => open /\ ~gone
                      /\ \A t \in Tasks : tpc[t] \in Handled => running > 0
    BY DEF PoolContractKept
  <2>1. m_hThreadPool # "null" /\ svcpc # "drop" => open /\ ~gone
    BY <1>1 DEF IInv, TypeOK, PoolInv
  <2>2. \A t \in Tasks : tpc[t] = "new" => answer[t] = "none" /\ ~Pool!Entered(t)
    BY <1>1 DEF IInv, TaskInv, Pool!Entered
  <2>3. ASSUME NEW t \in Tasks, tpc[t] \in Handled
        PROVE  running > 0
    <3>1. IsFiniteSet(Busy) /\ t \in Busy /\ running = Cardinality(Busy)
      BY <1>1, <2>3 DEF IInv, TaskInv, Busy
    <3>2. running \in Nat /\ running # 0
      BY <3>1, FS_CardinalityType, FS_EmptySet
    <3> QED
      BY <3>2
  <2> QED
    BY <2>1, <2>2, <2>3
<1> QED
  BY AlwaysIInv, <1>1, PTL

-----------------------------------------------------------------------------
(* Each task runs once *)

Begun == Handled \cup {"answered", "leaked"}

\* What started has a handler that began, and nothing starts twice; a task that
\* was handed over and has not begun is in line as long as there is a pool.
OnceInv ==
  fault = "none" =>
    /\ \A i, j \in DOMAIN started : started[i] = started[j] => i = j
    /\ \A i \in DOMAIN started : tpc[started[i]] \in Begun
    /\ \A t \in Tasks : tpc[t] = "given" => gone \/ \E i \in DOMAIN waiting : waiting[i] = t

\* A step that leaves the tasks' places alone, and the line unless it drops it.
LEMMA OnceFrame ==
  ASSUME OnceInv, fault = "none", UNCHANGED <<started, tpc>>,
         gone' \/ UNCHANGED <<waiting, gone>>
  PROVE  OnceInv'
BY DEF OnceInv

\* A task moves outside the line, and not back before its handler's begin.
LEMMA OnceMove ==
  ASSUME TypeOK, OnceInv, fault = "none", NEW t \in Tasks, NEW pc, pc # "given", Move(t, pc),
         tpc[t] \in Begun => pc \in Begun, UNCHANGED <<waiting, started, gone>>
  PROVE  OnceInv'
<1>1. \A u \in Tasks : tpc'[u] = IF u = t THEN pc ELSE tpc[u]
  BY DEF TypeOK, Move
<1>2. \A i \in DOMAIN started : started[i] \in Tasks
  BY DEF TypeOK
<1>3. \A i \in DOMAIN started : tpc'[started[i]] \in Begun
  <2>1. \A i \in DOMAIN started : tpc[started[i]] \in Begun
    BY DEF OnceInv
  <2> QED
    BY ONLY <1>1, <1>2, <2>1, tpc[t] \in Begun => pc \in Begun
<1>4. \A u \in Tasks : tpc'[u] = "given" => gone \/ \E i \in DOMAIN waiting : waiting[i] = u
  BY <1>1 DEF OnceInv
<1> QED
  BY <1>3, <1>4 DEF OnceInv

\* A task that joins the line is in it.
LEMMA OnceEnter ==
  ASSUME TypeOK, OnceInv, fault = "none", NEW t \in Tasks, tpc[t] = "new",
         Pool!Enter(t), Move(t, "given")
  PROVE  OnceInv'
<1>0. waiting \in Seq(Tasks) /\ waiting' = Append(waiting, t) /\ UNCHANGED <<started, gone>>
  BY DEF TypeOK, Pool!Enter
<1>1. \A u \in Tasks : tpc'[u] = IF u = t THEN "given" ELSE tpc[u]
  BY DEF TypeOK, Move
<1>2. \A i \in DOMAIN started : started[i] \in Tasks
  BY DEF TypeOK
<1>3. \A i \in DOMAIN started : tpc'[started[i]] \in Begun
  <2>1. \A i \in DOMAIN started : tpc[started[i]] \in Begun
    BY DEF OnceInv
  <2>2. tpc[t] \notin Begun
    BY DEF Begun, Handled
  <2> QED
    BY ONLY <1>1, <1>2, <2>1, <2>2
<1>4. /\ \A i \in DOMAIN waiting : i \in DOMAIN waiting' /\ waiting'[i] = waiting[i]
      /\ \E i \in DOMAIN waiting' : waiting'[i] = t
  <2>1. /\ Len(waiting) + 1 \in DOMAIN waiting' /\ waiting'[Len(waiting) + 1] = t
        /\ \A i \in DOMAIN waiting : i \in DOMAIN waiting' /\ waiting'[i] = waiting[i]
    BY ONLY <1>0
  <2> QED
    BY ONLY <2>1
<1>5. \A u \in Tasks : tpc'[u] = "given" => gone \/ \E i \in DOMAIN waiting' : waiting'[i] = u
  <2>1. \A u \in Tasks : tpc[u] = "given" => gone \/ \E i \in DOMAIN waiting : waiting[i] = u
    BY DEF OnceInv
  <2> QED
    BY ONLY <1>1, <1>4, <2>1
<1>6. \A i, j \in DOMAIN started : started[i] = started[j] => i = j
  BY DEF OnceInv
<1> QED
  BY <1>0, <1>3, <1>5, <1>6 DEF OnceInv

\* The first task in line begins: it has not begun before.
LEMMA OnceBegin ==
  ASSUME IInv, OnceInv, fault = "none", fault' = "none", WorkBegins
  PROVE  OnceInv'
<1> DEFINE t == Head(waiting)
<1>0. /\ waiting \in Seq(Tasks) /\ started \in Seq(Tasks) /\ tpc \in [Tasks -> TaskPc]
      /\ Pool!Start /\ UNCHANGED gone /\ started' = Append(started, t)
  BY DEF IInv, TypeOK, WorkBegins, Pool!Start
<1>1. t \in Tasks /\ waiting[1] = t /\ tpc[t] = "given" /\ Move(t, "begin")
  <2>1. t \in Tasks /\ 1 \in DOMAIN waiting /\ waiting[1] = t
    BY <1>0, TakesFirst
  <2>2. tpc[t] = "given"
    BY <2>1 DEF IInv, TaskInv
  <2> QED
    BY <2>1, <2>2 DEF WorkBegins, Faults
<1>2. \A i \in DOMAIN waiting : i = 1 \/ \E j \in DOMAIN waiting' : waiting'[j] = waiting[i]
  <2>1. /\ waiting' = Tail(waiting) /\ waiting # <<>>
    BY <1>0 DEF Pool!Start
  <2>2. \A i \in DOMAIN waiting : i = 1 \/ (i - 1 \in DOMAIN waiting' /\ waiting'[i - 1] = waiting[i])
    BY ONLY <2>1, <1>0
  <2> QED
    BY ONLY <2>2
<1> HIDE DEF t
<1>3. \A u \in Tasks : tpc'[u] = IF u = t THEN "begin" ELSE tpc[u]
  BY <1>0, <1>1 DEF Move
<1>4. \A u \in Tasks : tpc'[u] = "given" => gone \/ \E i \in DOMAIN waiting' : waiting'[i] = u
  <2>1. \A u \in Tasks : tpc[u] = "given" => gone \/ \E i \in DOMAIN waiting : waiting[i] = u
    BY DEF OnceInv
  <2> QED
    BY ONLY <1>1, <1>2, <1>3, <2>1
<1>5. \A i \in DOMAIN started : started[i] \in Tasks /\ started[i] # t /\ tpc[started[i]] \in Begun
  <2>1. \A i \in DOMAIN started : tpc[started[i]] \in Begun
    BY DEF OnceInv
  <2>2. tpc[t] \notin Begun
    BY <1>1 DEF Begun, Handled
  <2> QED
    BY ONLY <1>0, <2>1, <2>2
<1>6. /\ \A i, j \in DOMAIN started' : started'[i] = started'[j] => i = j
      /\ \A i \in DOMAIN started' :
           started'[i] = t \/ (i \in DOMAIN started /\ started'[i] = started[i])
  <2>1. \A i, j \in DOMAIN started : started[i] = started[j] => i = j
    BY DEF OnceInv
  <2> QED
    BY ONLY <1>0, <1>5, <2>1, JoinsOnce
<1>7. \A i \in DOMAIN started' : tpc'[started'[i]] \in Begun
  <2>1. "begin" \in Begun
    BY DEF Begun, Handled
  <2> QED
    BY ONLY <1>1, <1>3, <1>5, <1>6, <2>1
<1> QED
  BY <1>0, <1>4, <1>6, <1>7 DEF OnceInv

\* The steps of the main and the service thread, and the arrivals.
LEMMA OnceFront ==
  ASSUME IInv, OnceInv, fault = "none",
         \/ MainStep \/ SetUpStep \/ LoopEnds \/ StopStep
         \/ \E t \in Tasks : Arrives(t) \/ CallbackAccept(t) \/ CallbackRefuse(t)
  PROVE  OnceInv'
<1>0. TypeOK
  BY DEF IInv
<1>1. CASE MainStep
  <2>1. UNCHANGED <<started, tpc, waiting, gone>>
    BY ONLY <1>1 DEF MainStep, CreateSem, CreateService, StoreFields, CreatePool,
                     CreateMonitor, poolVars, taskVars
  <2> QED
    BY <2>1, OnceFrame
<1>2. CASE SetUpStep \/ LoopEnds
  <2>1. UNCHANGED <<started, tpc, waiting, gone>>
    BY ONLY <1>2 DEF SetUpStep, UseThreads, NewBase, NewHttp, BindSocket, SetCallback,
                     Dispatch, LoopEnds, svcRest, poolVars, taskVars
  <2> QED
    BY <2>1, OnceFrame
<1>3. CASE StopStep
  <2>1. UNCHANGED <<started, tpc>> /\ (gone' \/ UNCHANGED <<waiting, gone>>)
    BY ONLY <1>3 DEF StopStep, FreeHttp, FreeBase, DestroyPool, PoolDestroyed, Pool!Close,
                     DropPool, Pool!Drop, JoinSelf, ClearThread, svcRest, poolVars, taskVars
  <2> QED
    BY <2>1, OnceFrame
<1>4. ASSUME NEW t \in Tasks, Arrives(t) PROVE OnceInv'
  <2>1. CASE CallbackEnter(t)
    BY <1>0, <2>1, OnceEnter DEF CallbackEnter
  <2>2. CASE CallbackNoPool(t) \/ CallbackNoMemory(t)
    <3>1. tpc[t] = "new" /\ Move(t, "dropped") /\ UNCHANGED <<waiting, started, gone>>
      BY ONLY <2>2 DEF CallbackNoPool, CallbackNoMemory, Pool!Refuse, poolVars
    <3> QED
      BY <1>0, <3>1, OnceMove DEF Begun, Handled
  <2> QED
    BY <1>4, <2>1, <2>2 DEF Arrives
<1>5. ASSUME NEW t \in Tasks, CallbackAccept(t) \/ CallbackRefuse(t) PROVE OnceInv'
  <2>1. UNCHANGED <<started, tpc, waiting, gone>>
    BY ONLY <1>5 DEF CallbackAccept, CallbackRefuse, RefusedKept, Pool!Accept, Pool!Refuse, taskVars
  <2> QED
    BY <2>1, OnceFrame
<1> QED
  BY <1>1, <1>2, <1>3, <1>4, <1>5

\* The steps of a handler that has begun.
LEMMA OnceHandler ==
  ASSUME TypeOK, OnceInv, fault = "none", NEW t \in Tasks, HandlerStep(t)
  PROVE  OnceInv'
<1>1. UNCHANGED <<waiting, started, gone>>
  BY DEF HandlerStep, WorkService, CallReturns, SendReply, BadRequest, Pool!Finish, poolVars
<1>2. \/ UNCHANGED tpc
      \/ \E pc \in {"reply", "call", "hung", "answered", "leaked"} : Move(t, pc)
  BY DEF HandlerStep, WorkService, CallReturns, SendReply, BadRequest
<1> QED
  BY <1>1, <1>2, OnceMove, OnceFrame DEF Begun, Handled

\* Whatever the pool answers and whatever fails, HttpCallback's tasks stay in
\* line until they begin, and none is run twice or without having entered.
THEOREM TasksAlwaysRunOnce == Spec => []TasksRunOnce
<1>1. Init => OnceInv
  BY DEF Init, Pool!Init, OnceInv
<1>2. IInv /\ OnceInv /\ [Next]_vars => OnceInv'
  <2> SUFFICES ASSUME IInv, OnceInv, [Next]_vars, fault' = "none"
               PROVE  OnceInv'
    BY DEF OnceInv
  <2>1. CASE UNCHANGED vars
    BY <2>1 DEF OnceInv, vars, poolVars, taskVars
  <2>2. CASE ~UNCHANGED vars
    <3>1. fault = "none"
      BY <2>2 DEF Next, Done
    <3>2. TypeOK
      BY DEF IInv
    <3> QED
      BY <2>2, <3>1, <3>2, OnceFront, OnceBegin, OnceHandler DEF Next, Done
  <2> QED
    BY <2>1, <2>2
<1>3. ASSUME IInv, OnceInv PROVE TasksRunOnce
  <2> SUFFICES ASSUME fault = "none" PROVE TasksRunOnce
    BY DEF TasksRunOnce
  <2>1. \A i \in DOMAIN started : tpc[started[i]] \in Begun
    BY <1>3 DEF OnceInv
  <2>2. \A i \in DOMAIN waiting : tpc[waiting[i]] = "given"
    BY <1>3 DEF IInv, TaskInv
  <2>3. \A i \in DOMAIN started, j \in DOMAIN waiting : started[i] # waiting[j]
    BY ONLY <2>1, <2>2 DEF Begun, Handled
  <2>4. \A t \in Tasks : tpc[t] \in {"new", "dropped"} => ~Pool!Entered(t)
    BY ONLY <2>1, <2>2 DEF Begun, Handled, Pool!Entered
  <2> QED
    BY <1>3, <2>3, <2>4 DEF IInv, TaskInv, OnceInv, TasksRunOnce
<1> QED
  BY <1>1, <1>2, <1>3, AlwaysIInv, PTL DEF Spec
=============================================================================
