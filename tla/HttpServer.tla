----------------------------- MODULE HttpServer -----------------------------
(***************************************************************************)
(* The HTTP front end's life: how DcServer's main thread starts it, how    *)
(* the service thread sets libevent up, serves and tears down, and how     *)
(* requests go through the pool to their replies.  Sources:                *)
(* src/DcServer/src/HttpServer.cpp, DcServer.cpp.                          *)
(*                                                                         *)
(* The pool is TaskPool, which ThrMgr implements.  What a handler does with *)
(* the node table is in module DcServer; here it matters that it may call  *)
(* a node, that such a call has no time limit, and that it replies through *)
(* libevent (external) to a request that libevent owns.                    *)
(*                                                                         *)
(* The use of a null pointer or of freed memory is recorded in `fault' and *)
(* ends the behaviour.                                                     *)
(***************************************************************************)
EXTENDS Integers, FiniteSets, Sequences

CONSTANTS
  Tasks,        \* HTTP requests, each with its http_task_t
  Limit,        \* the 300 threads of the pool
  MaxFailures,  \* bound on the kinds of failing calls in one behaviour
  MaxHangs      \* bound on the ClusterWork calls that never return

ASSUME FrontAssumption ==
  Limit \in Nat \ {0} /\ MaxFailures \in Nat /\ MaxHangs \in Nat

VARIABLES
  mainpc,         \* the main thread, in DcServer::StartServer
  svcpc,          \* the service thread, in StartService and StopServer
  resume,         \* where StartService goes on after StopServer
  m_sem, monitor, \* DcServer's semaphore; the monitor thread that waits on it
  m_hThread, m_pBase, m_evhttp, m_hThreadPool,  \* "null", "live" or "freed"
  bound,          \* evhttp listens
  open, gone, waiting, started, running, answer,  \* the pool
  tpc,            \* where each request is
  held,           \* requests that libevent keeps for a reply
  hangs,          \* calls that never return
  failures,       \* kinds of calls that have failed
  fault           \* the undefined access that ended the behaviour

mainVars == <<mainpc, m_sem, monitor>>
eventVars == <<m_pBase, m_evhttp, bound>>
poolVars == <<open, gone, waiting, started, running, answer>>
taskVars == <<tpc, held, hangs>>
\* What the set-up of libevent, and what the handling of requests, leave alone.
svcRest == <<mainVars, m_hThread, m_hThreadPool, poolVars, taskVars>>
callRest == <<mainVars, resume, m_hThread, eventVars, m_hThreadPool>>
vars == <<mainVars, svcpc, resume, m_hThread, eventVars, m_hThreadPool,
          poolVars, taskVars, failures, fault>>

Pool == INSTANCE TaskPool

\* "http" to "monitor": StartServer's calls, in order; "serve": in
\* server.serve(); "returned": in main's getchar().
MainPc == {"sem", "http", "fields", "pool", "monitor", "serve", "returned"}
\* "none": no thread; StartService's calls; "loop": in event_base_dispatch;
\* "work": in swartz_threadpool_work; the parts of StopServer; "ended".
SetUp == {"evthread", "event_base", "evhttp", "bind", "gencb", "dispatch"}
TearDown == {"free_http", "free_base", "pool", "drop", "join", "clear"}
SvcPc == {"none", "loop", "work", "ended"} \cup SetUp \cup TearDown
\* "new"; "given": a task handed to the pool; "begin", "call", "hung", "reply":
\* its handler; "answered", or never to be: "dropped", "leaked".
Handled == {"begin", "call", "hung", "reply"}
TaskPc == {"new", "given", "answered", "dropped", "leaked"} \cup Handled

\* The calls whose failure StartService answers with StopServer.
EventCalls == {"evthread", "event_base", "evhttp", "bind", "dispatch"}
Kinds == EventCalls \cup {"sem", "thread", "pool", "monitor", "refuse", "evbuffer"}

Fails(k) ==
  /\ Cardinality(failures \cup {k}) <= MaxFailures
  /\ failures' = failures \cup {k}
Faults(f) == fault' = f
Move(t, pc) == tpc' = [tpc EXCEPT ![t] = pc]

Init ==
  /\ mainpc = "sem" /\ svcpc = "none" /\ resume = "none"
  /\ m_sem = "null" /\ monitor = FALSE
  /\ m_hThread = "null" /\ m_pBase = "null" /\ m_evhttp = "null"
  /\ m_hThreadPool = "null" /\ bound = FALSE
  /\ Pool!Init
  /\ tpc = [t \in Tasks |-> "new"] /\ held = {} /\ hangs = 0
  /\ failures = {} /\ fault = "none"

-----------------------------------------------------------------------------
(* The main thread: DcServer::StartServer *)

\* swartz_sem_create(&m_sem): without it the server is not started.
CreateSem ==
  /\ mainpc = "sem"
  /\ \/ mainpc' = "http" /\ m_sem' = "live" /\ UNCHANGED failures
     \/ mainpc' = "returned" /\ Fails("sem") /\ UNCHANGED m_sem
  /\ UNCHANGED <<monitor, svcpc, resume, m_hThread, eventVars, m_hThreadPool,
                 poolVars, taskVars, fault>>

\* HttpServer::StartServer: the service thread runs before swartz_thread_create
\* returns.  Without it StopServer finds nothing to stop, and DcServer ignores
\* the error.
CreateService ==
  /\ mainpc = "http"
  /\ \/ mainpc' = "fields" /\ m_hThread' = "live" /\ svcpc' = "evthread" /\ UNCHANGED failures
     \/ mainpc' = "monitor" /\ Fails("thread") /\ UNCHANGED <<svcpc, m_hThread>>
  /\ UNCHANGED <<m_sem, monitor, resume, eventVars, m_hThreadPool, poolVars,
                 taskVars, fault>>

\* swartz_thread_create stores arg, fn and priority through the handle.
StoreFields ==
  /\ mainpc = "fields"
  /\ \/ m_hThread = "live" /\ mainpc' = "pool" /\ UNCHANGED fault
     \/ m_hThread # "live" /\ Faults("fields") /\ UNCHANGED mainpc
  /\ UNCHANGED <<m_sem, monitor, svcpc, resume, m_hThread, eventVars,
                 m_hThreadPool, poolVars, taskVars, failures>>

\* swartz_threadpool_create, after the thread that uses the pool has started.
CreatePool ==
  /\ mainpc = "pool" /\ mainpc' = "monitor"
  /\ \/ m_hThreadPool' = "live" /\ UNCHANGED failures
     \/ Fails("pool") /\ UNCHANGED m_hThreadPool
  /\ UNCHANGED <<m_sem, monitor, svcpc, resume, m_hThread, eventVars, poolVars,
                 taskVars, fault>>

\* DcServer::StopServer: post and destroy m_sem; there is no monitor to wait for.
DcStopServer == m_sem' = "null"

\* The monitor thread, then the Thrift server; or StopServer, SWARTZ_ERR.
CreateMonitor ==
  /\ mainpc = "monitor"
  /\ \/ mainpc' = "serve" /\ monitor' = TRUE /\ UNCHANGED <<m_sem, failures>>
     \/ mainpc' = "returned" /\ Fails("monitor") /\ DcStopServer /\ UNCHANGED monitor
  /\ UNCHANGED <<svcpc, resume, m_hThread, eventVars, m_hThreadPool, poolVars,
                 taskVars, fault>>

MainStep == CreateSem \/ CreateService \/ StoreFields \/ CreatePool \/ CreateMonitor

-----------------------------------------------------------------------------
(* The service thread: StartService *)

\* A call of StartService succeeds, or its failure calls StopServer; either way
\* StartService goes on with the next line.
GoOn(next) == svcpc' = next /\ UNCHANGED <<resume, failures>>
StopThenGoOn(k, next) == Fails(k) /\ svcpc' = "free_http" /\ resume' = next

UseThreads ==
  /\ svcpc = "evthread"
  /\ GoOn("event_base") \/ StopThenGoOn("evthread", "event_base")
  /\ UNCHANGED <<svcRest, eventVars, fault>>

NewBase ==
  /\ svcpc = "event_base"
  /\ \/ m_pBase' = "live" /\ GoOn("evhttp")
     \/ m_pBase' = "null" /\ StopThenGoOn("event_base", "evhttp")
  /\ UNCHANGED <<svcRest, m_evhttp, bound, fault>>

\* evhttp_new takes a null base, too.
NewHttp ==
  /\ svcpc = "evhttp"
  /\ \/ m_evhttp' = "live" /\ GoOn("bind")
     \/ m_evhttp' = "null" /\ StopThenGoOn("evhttp", "bind")
  /\ UNCHANGED <<svcRest, m_pBase, bound, fault>>

BindSocket ==
  /\ svcpc = "bind"
  /\ \/ m_evhttp = "live" /\ bound' = TRUE /\ GoOn("gencb") /\ UNCHANGED fault
     \/ m_evhttp = "live" /\ StopThenGoOn("bind", "gencb") /\ UNCHANGED <<bound, fault>>
     \/ m_evhttp # "live" /\ Faults("bind") /\ UNCHANGED <<svcpc, resume, bound, failures>>
  /\ UNCHANGED <<svcRest, m_pBase, m_evhttp>>

SetCallback ==
  /\ svcpc = "gencb"
  /\ \/ m_evhttp = "live" /\ svcpc' = "dispatch" /\ UNCHANGED fault
     \/ m_evhttp # "live" /\ Faults("gencb") /\ UNCHANGED svcpc
  /\ UNCHANGED <<svcRest, resume, eventVars, failures>>

Dispatch ==
  /\ svcpc = "dispatch"
  /\ \/ m_pBase = "live" /\ svcpc' = "loop" /\ UNCHANGED fault
     \/ m_pBase # "live" /\ Faults("dispatch") /\ UNCHANGED svcpc
  /\ UNCHANGED <<svcRest, resume, eventVars, failures>>

\* event_base_dispatch returns an error.
LoopEnds ==
  /\ svcpc = "loop" /\ StopThenGoOn("dispatch", "ended")
  /\ UNCHANGED <<svcRest, eventVars, fault>>

-----------------------------------------------------------------------------
(* HttpCallback, on the service thread *)

\* swartz_threadpool_work finds no pool: SWARTZ_ERR, which is only logged.
CallbackNoPool(t) ==
  /\ svcpc = "loop" /\ bound /\ tpc[t] = "new" /\ m_hThreadPool = "null"
  /\ Move(t, "dropped") /\ held' = held \cup {t}
  /\ UNCHANGED <<callRest, svcpc, poolVars, hangs, failures, fault>>

\* The task enters the pool, whose answer is still to come ...
CallbackEnter(t) ==
  /\ svcpc = "loop" /\ bound /\ tpc[t] = "new" /\ m_hThreadPool # "null"
  /\ Pool!Enter(t)
  /\ svcpc' = "work"
  /\ Move(t, "given") /\ held' = held \cup {t}
  /\ UNCHANGED <<callRest, hangs, failures, fault>>

CallbackAccept(t) ==
  /\ svcpc = "work" /\ Pool!Accept(t)
  /\ svcpc' = "loop"
  /\ UNCHANGED <<callRest, taskVars, failures, fault>>

\* A refused task is not deleted: the pool may have kept it.  (Mutant: it is.)
RefusedDeleted(t) == Move(t, "dropped")
RefusedKept(t) == UNCHANGED tpc

\* ... or it is refused after it entered, for want of a first thread, ...
CallbackRefuse(t) ==
  /\ svcpc = "work" /\ Pool!Entered(t) /\ Fails("refuse") /\ Pool!Refuse(t)
  /\ svcpc' = "loop" /\ RefusedKept(t)
  /\ UNCHANGED <<callRest, held, hangs, fault>>

\* ... or at once, for want of memory.
CallbackNoMemory(t) ==
  /\ svcpc = "loop" /\ bound /\ tpc[t] = "new" /\ m_hThreadPool # "null"
  /\ Fails("refuse") /\ Pool!Refuse(t)
  /\ Move(t, "dropped") /\ held' = held \cup {t}
  /\ UNCHANGED <<callRest, svcpc, hangs, fault>>

-----------------------------------------------------------------------------
(* StopServer, on the service thread *)

\* evhttp_free: libevent frees the requests it keeps with their connections.
FreeHttp ==
  /\ svcpc = "free_http" /\ svcpc' = "free_base"
  /\ \/ m_evhttp = "live" /\ m_evhttp' = "null" /\ bound' = FALSE /\ held' = {}
     \/ m_evhttp = "null" /\ UNCHANGED <<m_evhttp, bound, held>>
  /\ UNCHANGED <<mainVars, resume, m_hThread, m_pBase, m_hThreadPool, poolVars,
                 tpc, hangs, failures, fault>>

FreeBase ==
  /\ svcpc = "free_base" /\ svcpc' = "pool" /\ m_pBase' = "null"
  /\ UNCHANGED <<svcRest, resume, m_evhttp, bound, failures, fault>>

\* if (NULL != m_hThreadPool).  (Mutant: the pool is left alone.)
PoolLeftAlone == svcpc' = "join" /\ UNCHANGED poolVars
PoolDestroyed == svcpc' = "drop" /\ Pool!Close

DestroyPool ==
  /\ svcpc = "pool"
  /\ \/ m_hThreadPool = "live" /\ PoolDestroyed
     \/ m_hThreadPool = "null" /\ svcpc' = "join" /\ UNCHANGED poolVars
  /\ UNCHANGED <<callRest, taskVars, failures, fault>>

\* m_hThreadPool = NULL.  (Mutant: the line is missing.)
PoolPointerKept == "freed"
PoolPointerCleared == "null"

\* swartz_threadpool_destroy has waited for the handlers.
DropPool ==
  /\ svcpc = "drop" /\ Pool!Drop
  /\ svcpc' = "join" /\ m_hThreadPool' = PoolPointerCleared
  /\ UNCHANGED <<mainVars, resume, m_hThread, eventVars, taskVars, failures, fault>>

\* swartz_thread_wait on its own thread: pthread_join fails and the handle is
\* freed all the same.  (Mutant: it waits for the thread to end.)
JoinWaits == UNCHANGED <<m_hThread, svcpc>>
JoinFails == m_hThread' = "freed" /\ svcpc' = "clear"

JoinSelf ==
  /\ svcpc = "join"
  /\ \/ m_hThread = "live" /\ JoinFails
     \/ m_hThread = "null" /\ svcpc' = resume /\ UNCHANGED m_hThread
  /\ UNCHANGED <<mainVars, resume, eventVars, m_hThreadPool, poolVars,
                 taskVars, failures, fault>>

ClearThread ==
  /\ svcpc = "clear" /\ svcpc' = resume /\ m_hThread' = "null"
  /\ UNCHANGED <<mainVars, resume, eventVars, m_hThreadPool, poolVars,
                 taskVars, failures, fault>>

StopStep == FreeHttp \/ FreeBase \/ DestroyPool \/ DropPool \/ JoinSelf \/ ClearThread
SetUpStep == UseThreads \/ NewBase \/ NewHttp \/ BindSocket \/ SetCallback \/ Dispatch

-----------------------------------------------------------------------------
(* The handlers, on threads of the pool *)

\* The task and its request are there.
TaskThere(t) == t \in held /\ tpc[t] = "given"

\* A thread takes the task; WorkService reads the request's uri and command.
WorkBegins ==
  /\ Pool!Start
  /\ LET t == Head(waiting)
     IN  \/ TaskThere(t) /\ Move(t, "begin") /\ UNCHANGED fault
         \/ ~TaskThere(t) /\ Faults("begin") /\ UNCHANGED tpc
  /\ UNCHANGED <<callRest, svcpc, held, hangs, failures>>

\* A request that cannot be served is answered too.  (Mutant: it is not.)
BadRequestIgnored(t) == Move(t, "leaked") /\ Pool!Finish
BadRequest(t) == Move(t, "reply") /\ UNCHANGED poolVars

\* WorkService: not a POST, another url, a bad body, or no node; or the call.
WorkService(t) ==
  /\ tpc[t] = "begin"
  /\ \/ t \in held /\ BadRequest(t) /\ UNCHANGED fault
     \/ t \in held /\ Move(t, "call") /\ UNCHANGED <<poolVars, fault>>
     \/ t \notin held /\ Faults("begin") /\ UNCHANGED <<poolVars, tpc>>
  /\ UNCHANGED <<callRest, svcpc, held, hangs, failures>>

\* ClusterWorkProc returns, or its peer never answers: the sockets of
\* ClusterWorkProc have no time limits.
CallReturns(t) ==
  /\ tpc[t] = "call"
  /\ \/ Move(t, "reply") /\ UNCHANGED hangs
     \/ hangs < MaxHangs /\ hangs' = hangs + 1 /\ Move(t, "hung")
  /\ UNCHANGED <<callRest, svcpc, poolVars, held, failures, fault>>

\* SendReply: evhttp_send_reply and delete(task); without an evbuffer neither.
SendReply(t) ==
  /\ tpc[t] = "reply"
  /\ \/ /\ t \in held /\ Move(t, "answered") /\ held' = held \ {t} /\ Pool!Finish
        /\ UNCHANGED <<failures, fault>>
     \/ t \notin held /\ Faults("reply") /\ UNCHANGED <<poolVars, tpc, held, failures>>
     \/ Fails("evbuffer") /\ Move(t, "leaked") /\ Pool!Finish /\ UNCHANGED <<held, fault>>
  /\ UNCHANGED <<callRest, svcpc, hangs>>

-----------------------------------------------------------------------------
ServiceStep ==
  \/ SetUpStep \/ StopStep
  \/ \E t \in Tasks : CallbackAccept(t) \/ CallbackRefuse(t)

Arrives(t) == CallbackNoPool(t) \/ CallbackEnter(t) \/ CallbackNoMemory(t)

HandlerStep(t) == WorkService(t) \/ CallReturns(t) \/ SendReply(t)

\* Nothing is said about what follows a fault; a process that is set up stays.
Done == (fault # "none" \/ svcpc \in {"none", "loop", "drop", "ended"}) /\ UNCHANGED vars

Next ==
  \/ /\ fault = "none"
     /\ \/ MainStep \/ SetUpStep \/ LoopEnds \/ StopStep \/ WorkBegins
        \/ \E t \in Tasks :
             Arrives(t) \/ CallbackAccept(t) \/ CallbackRefuse(t) \/ HandlerStep(t)
  \/ Done

Spec == Init /\ [][Next]_vars

\* The threads run.  Requests need not arrive, nothing has to fail, and the pool
\* need not take a task from its line: it may have no thread or no signal for it
\* (ThrMgr's ThreadAvailable and SignalPerTask).
Fairness ==
  /\ WF_vars(fault = "none" /\ MainStep) /\ WF_vars(fault = "none" /\ ServiceStep)
  /\ \A t \in Tasks : WF_vars(fault = "none" /\ HandlerStep(t))

FairSpec == Spec /\ Fairness

-----------------------------------------------------------------------------
(* Properties *)

\* Type invariant of the front end.
TypeOK ==
  /\ mainpc \in MainPc /\ svcpc \in SvcPc /\ resume \in SvcPc
  /\ {m_sem, m_pBase, m_evhttp, m_hThreadPool} \subseteq {"null", "live"}
  /\ m_hThread \in {"null", "live", "freed"}
  /\ {monitor, bound, open, gone} \subseteq BOOLEAN
  /\ waiting \in Seq(Tasks) /\ started \in Seq(Tasks) /\ running \in 0..Limit
  /\ answer \in [Tasks -> {"none", "SWARTZ_OK", "SWARTZ_ERR"}]
  /\ tpc \in [Tasks -> TaskPc] /\ held \subseteq Tasks /\ hangs \in 0..MaxHangs
  /\ failures \subseteq Kinds
  /\ fault \in {"none", "fields", "bind", "gencb", "dispatch", "begin", "reply"}

\* Only a failure inside StartService can lead to an undefined access.  Requests
\* that arrive before the pool exists, a pool, thread, monitor or buffer that
\* cannot be had, tasks that are refused after they entered the pool, calls
\* that never return: none of them does.
FaultNeedsEventFailure == fault # "none" => failures \cap EventCalls # {}

\* A task that HttpCallback handed to the pool stays in line, once, until its
\* handler begins or the pool is destroyed, whatever the pool answered: one that
\* was refused after it was queued is run like any other.  No task is run twice,
\* and one that never entered the pool is never run.
TasksRunOnce ==
  fault = "none" =>
    /\ \A i, j \in DOMAIN started : started[i] = started[j] => i = j
    /\ \A i, j \in DOMAIN waiting : waiting[i] = waiting[j] => i = j
    /\ \A i \in DOMAIN started, j \in DOMAIN waiting : started[i] # waiting[j]
    /\ \A t \in Tasks : tpc[t] = "given" => gone \/ \E i \in DOMAIN waiting : waiting[i] = t
    /\ \A t \in Tasks : tpc[t] \in {"new", "dropped"} => ~Pool!Entered(t)

\* When StopServer has returned to the end of StartService, no handler is at
\* work and libevent keeps no request.
TornDown == svcpc = "ended" /\ fault = "none" => running = 0 /\ held = {}

\* The front end asks of the pool only what its contract allows: a request comes
\* to a pool that is open, with a task that is new to it; the pool is destroyed
\* once; and a handler that returns is one the pool has started.  This also
\* shows that no guard of TaskPool hides a call that the code would make.
PoolContractKept ==
  fault = "none" =>
    /\ svcpc = "loop" /\ m_hThreadPool # "null" =>
         /\ open /\ ~gone
         /\ \A t \in Tasks : tpc[t] = "new" => answer[t] = "none" /\ ~Pool!Entered(t)
    /\ svcpc = "pool" /\ m_hThreadPool # "null" => open /\ ~gone
    /\ \A t \in Tasks : tpc[t] \in Handled => running > 0

\* The pool does not leave a task in line for ever while fewer tasks run than it
\* has threads.  ThrMgr's AcceptedRuns is where this holds, and ThreadAvailable and
\* SignalPerTask are how it fails until another request comes.
PoolServes == []<>(waiting = <<>> \/ running = Limit)

\* As long as the pool serves its line and fewer calls hang than it has threads,
\* every request that entered the pool, refused or not, is answered, unless no
\* buffer could be had, its own call hangs, or the event loop failed.
RequestsAnswered ==
  PoolServes =>
    \A t \in Tasks :
      tpc[t] = "given" ~> tpc[t] \in {"answered", "hung"} \/ failures \cap (EventCalls \cup {"evbuffer"}) # {}

\* StopServer, which waits for the pool's handlers and then joins the thread it
\* runs on, comes back, whatever is left in line, unless a handler's call to a
\* node hangs or a handler has used a request that is freed.
StopReturns ==
  svcpc \in TearDown ~>
    svcpc \notin TearDown \/ fault # "none" \/ \E t \in Tasks : tpc[t] = "hung"
=============================================================================
