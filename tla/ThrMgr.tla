------------------------------- MODULE ThrMgr -------------------------------
(***************************************************************************)
(* The thread pool of src/utils/src/swartz_thrmgr.cpp, at the grain of its *)
(* accesses to shared data: one action per locked section, per atomic      *)
(* operation on thr_idle, per unlocked read of `state' and per semaphore   *)
(* operation.  Threads are the detached workers, the callers of            *)
(* thrmgr_dispatch and one caller of thrmgr_destroy.                       *)
(*                                                                         *)
(* A locked section that reads only data its mutex protects is one step,   *)
(* guarded by the mutex being free.  thrmgr_dispatch holds the mutex over  *)
(* two steps, because inside it reads thr_idle, which no mutex protects.   *)
(***************************************************************************)
EXTENDS Integers, FiniteSets, Sequences, SemTime

CONSTANTS
  Workers,        \* identities of worker threads, reused after a thread ends
  Dispatchers,    \* threads that call thrmgr_dispatch
  Jobs,           \* the user_data pointers; each is dispatched at most once
  thr_max,        \* the pool's limit on live workers
  IdleExpires,    \* idle_timeout is finite (it is SWARTZ_INFINITE if FALSE)
  SpawnFails,     \* pthread_create may fail
  OverlapDestroy, \* thrmgr_destroy may overlap calls of thrmgr_dispatch
  Nobody, NoJob   \* the owner of a free mutex, the job of an idle caller

\* thrmgr_new refuses max_threads <= 0.  One identity more than thr_max is
\* enough: at most one thread that no longer counts as alive still runs.
ASSUME PoolAssumption ==
  /\ thr_max \in Nat \ {0}
  /\ IsFiniteSet(Workers) /\ Cardinality(Workers) > thr_max
  /\ IsFiniteSet(Dispatchers) /\ IsFiniteSet(Jobs)
  /\ Nobody \notin Dispatchers /\ NoJob \notin Jobs
  /\ {IdleExpires, SpawnFails, OverlapDestroy} \subseteq BOOLEAN

VARIABLES
  state, thr_alive, thr_idle, queue,  \* fields of threadpool_t
  pool_sig_sem, pool_sem,             \* values of the two semaphores
  pool_mutex,                         \* dispatcher holding it across steps
  freed,                              \* thrmgr_destroy has freed the pool
  wpc,      \* where each worker is in thrmgr_worker
  dpc,      \* where each dispatcher is in thrmgr_dispatch
  djob,     \* its user_data
  xpc,      \* where the caller of thrmgr_destroy is
  result,   \* what thrmgr_dispatch returned for each job
  added,    \* history: jobs in the order work_queue_add appended them
  popped    \* history: jobs in the order work_queue_pop returned them

poolVars == <<state, thr_alive, thr_idle, queue, pool_sig_sem, pool_sem,
              pool_mutex, freed>>
vars == <<poolVars, wpc, dpc, djob, xpc, result, added, popped>>

\* "none": no thread; "loop": at the while test; "inc": before the increment
\* of thr_idle; "wait": in sem_wait; "woken" and "expired": sem_wait returned
\* OK or ERR; "check": at the if; "pop", "run"; "exit": before the last lock;
\* "signal": before the post of pool_sem.
WorkerPc == {"none", "loop", "inc", "wait", "woken", "expired", "check",
             "pop", "run", "exit", "signal"}
\* Program points at which a worker is counted in thr_alive.
Counted == WorkerPc \ {"none", "signal"}

At(S) == {w \in Workers : wpc[w] \in S}
DispatchersAt(S) == {d \in Dispatchers : dpc[d] \in S}
JobsWith(r) == {j \in Jobs : result[j] = r}
Goto(w, pc) == wpc' = [wpc EXCEPT ![w] = pc]
MutexFree == pool_mutex = Nobody

\* swartz_sem_post: a counting semaphore remembers every post.
\* (Mutant: an event, which remembers one.)
SemPostAsEvent(value) == 1
SemPost(value) == value + 1
\* swartz_sem_wait returns once the value is positive, and takes one.
SemReady(value) == value > 0
SemTake(value) == value - 1

\* thrmgr_new: an empty pool, no threads yet.  Its mutex and semaphores are there:
\* thrmgr_new does not look at the results of their creation.
Init ==
  /\ state = "POOL_VALID" /\ thr_alive = 0 /\ thr_idle = 0 /\ queue = <<>>
  /\ pool_sig_sem = 0 /\ pool_sem = 0 /\ pool_mutex = Nobody /\ freed = FALSE
  /\ wpc = [w \in Workers |-> "none"]
  /\ dpc = [d \in Dispatchers |-> "idle"]
  /\ djob = [d \in Dispatchers |-> NoJob]
  /\ xpc = "no"
  /\ result = [j \in Jobs |-> "new"]
  /\ added = <<>> /\ popped = <<>>

-----------------------------------------------------------------------------
(* thrmgr_worker *)

\* while (threadpool->state != POOL_EXIT)
WorkerLoop(w) ==
  /\ wpc[w] = "loop"
  /\ Goto(w, IF state # "POOL_EXIT" THEN "inc" ELSE "exit")
  /\ UNCHANGED <<poolVars, dpc, djob, xpc, result, added, popped>>

\* swartz_atomic_inc(&thr_idle).  (Mutant: it is missing.)
IdleNotCounted == thr_idle
IdleBeforeWait == thr_idle + 1

WorkerIdle(w) ==
  /\ wpc[w] = "inc"
  /\ thr_idle' = IdleBeforeWait
  /\ Goto(w, "wait")
  /\ UNCHANGED <<state, thr_alive, queue, pool_sig_sem, pool_sem, pool_mutex,
                 freed, dpc, djob, xpc, result, added, popped>>

\* swartz_sem_wait(pool_sig_sem, idle_timeout) takes a signal ...
WorkerWake(w) ==
  /\ wpc[w] = "wait" /\ SemReady(pool_sig_sem)
  /\ pool_sig_sem' = SemTake(pool_sig_sem)
  /\ Goto(w, "woken")
  /\ UNCHANGED <<state, thr_alive, thr_idle, queue, pool_sem, pool_mutex,
                 freed, dpc, djob, xpc, result, added, popped>>

\* ... or times out; a post may come after the expiry, before the decrement.
WorkerExpire(w) ==
  /\ wpc[w] = "wait" /\ IdleExpires /\ ~SemReady(pool_sig_sem)
  /\ Goto(w, "expired")
  /\ UNCHANGED <<poolVars, dpc, djob, xpc, result, added, popped>>

\* swartz_atomic_dec(&thr_idle), whichever way the wait ended.  (Mutant: the
\* code before the change noted at line 293, which kept expired workers counted.)
IdleKeptOnExpiry(w) == IF wpc[w] = "woken" THEN thr_idle - 1 ELSE thr_idle
IdleAfterWait(w) == thr_idle - 1

\* The decrement; a worker whose wait failed then breaks.
WorkerUnidle(w) ==
  /\ wpc[w] \in {"woken", "expired"}
  /\ thr_idle' = IdleAfterWait(w)
  /\ Goto(w, IF wpc[w] = "woken" THEN "check" ELSE "exit")
  /\ UNCHANGED <<state, thr_alive, queue, pool_sig_sem, pool_sem, pool_mutex,
                 freed, dpc, djob, xpc, result, added, popped>>

\* if (... || threadpool->state == POOL_EXIT) break.  (Mutant: only the wait's
\* result is tested.)
CheckResultOnly == "pop"
AfterCheck == IF state = "POOL_EXIT" THEN "exit" ELSE "pop"

WorkerCheck(w) ==
  /\ wpc[w] = "check"
  /\ Goto(w, AfterCheck)
  /\ UNCHANGED <<poolVars, dpc, djob, xpc, result, added, popped>>

\* work_queue_pop under the mutex; without data the worker loops.
WorkerPop(w) ==
  /\ wpc[w] = "pop" /\ MutexFree
  /\ IF queue # <<>>
       THEN /\ popped' = Append(popped, Head(queue))
            /\ queue' = Tail(queue)
            /\ Goto(w, "run")
       ELSE Goto(w, "loop") /\ UNCHANGED <<popped, queue>>
  /\ UNCHANGED <<state, thr_alive, thr_idle, pool_sig_sem, pool_sem,
                 pool_mutex, freed, dpc, djob, xpc, result, added>>

\* threadpool->handler(job_data) returns.
WorkerHandled(w) ==
  /\ wpc[w] = "run"
  /\ Goto(w, "loop")
  /\ UNCHANGED <<poolVars, dpc, djob, xpc, result, added, popped>>

\* bSingal: the last worker of a pool being destroyed reports its exit.
\* (Mutant: the last one always does, as before the change noted at line 323.)
LastAlwaysSignals == IF thr_alive = 1 THEN "signal" ELSE "none"
AfterExit == IF thr_alive = 1 /\ state = "POOL_EXIT" THEN "signal" ELSE "none"

\* The locked section after the loop: --thr_alive and the decision on bSingal.
WorkerExit(w) ==
  /\ wpc[w] = "exit" /\ MutexFree
  /\ thr_alive' = thr_alive - 1
  /\ Goto(w, AfterExit)
  /\ UNCHANGED <<state, thr_idle, queue, pool_sig_sem, pool_sem, pool_mutex,
                 freed, dpc, djob, xpc, result, added, popped>>

\* if (bSingal) swartz_sem_post(pool_sem, 1): a worker that reaches a pool
\* already freed takes no further step here (see FreedAfterLastThread).
WorkerSignal(w) ==
  /\ wpc[w] = "signal" /\ ~freed
  /\ pool_sem' = SemPost(pool_sem)
  /\ Goto(w, "none")
  /\ UNCHANGED <<state, thr_alive, thr_idle, queue, pool_sig_sem, pool_mutex,
                 freed, dpc, djob, xpc, result, added, popped>>

-----------------------------------------------------------------------------
(* thrmgr_dispatch *)

\* A dispatcher may call while the pool exists: OverlapDestroy says whether it
\* may still do so once thrmgr_destroy was called.
MayCall(d, j) ==
  /\ dpc[d] = "idle" /\ result[j] = "new" /\ ~freed
  /\ OverlapDestroy \/ xpc = "no"

\* Lock; the pool is not valid, or work_queue_add finds no memory: SWARTZ_FALSE.
DispatchRefuse(d, j) ==
  /\ MayCall(d, j) /\ MutexFree
  /\ result' = [result EXCEPT ![j] = "refused"]
  /\ UNCHANGED <<poolVars, wpc, dpc, djob, xpc, added, popped>>

\* work_queue_add: behind the tail.  (Mutant: in front of the head.)
QueueAddFront(j) == <<j>> \o queue
QueueAdd(j) == Append(queue, j)

\* Lock; the pool is valid; work_queue_add has memory.
DispatchAdd(d, j) ==
  /\ MayCall(d, j) /\ MutexFree /\ state = "POOL_VALID"
  /\ pool_mutex' = d
  /\ queue' = QueueAdd(j)
  /\ added' = Append(added, j)
  /\ dpc' = [dpc EXCEPT ![d] = "spawn"]
  /\ djob' = [djob EXCEPT ![d] = j]
  /\ result' = [result EXCEPT ![j] = "calling"]
  /\ UNCHANGED <<state, thr_alive, thr_idle, pool_sig_sem, pool_sem, freed,
                 wpc, xpc, popped>>

\* The test for a new thread.
WantsThread == thr_idle = 0 /\ thr_alive < thr_max

\* ++ thr_alive.  (Mutant: it is missing.)
SpawnNotCounted == thr_alive
AliveAfterSpawn == thr_alive + 1

\* Create a worker if none is idle and there is room, then unlock.
DispatchSpawn(d) ==
  /\ dpc[d] = "spawn" /\ WantsThread
  /\ \E w \in At({"none"}) : Goto(w, "loop")
  /\ thr_alive' = AliveAfterSpawn
  /\ pool_mutex' = Nobody
  /\ dpc' = [dpc EXCEPT ![d] = "post"]
  /\ UNCHANGED <<state, thr_idle, queue, pool_sig_sem, pool_sem, freed,
                 djob, xpc, result, added, popped>>

\* No worker wanted, or none could be created but some are alive: unlock.
DispatchNoSpawn(d) ==
  /\ dpc[d] = "spawn"
  /\ ~WantsThread \/ (SpawnFails /\ thr_alive > 0)
  /\ pool_mutex' = Nobody
  /\ dpc' = [dpc EXCEPT ![d] = "post"]
  /\ UNCHANGED <<state, thr_alive, thr_idle, queue, pool_sig_sem, pool_sem,
                 freed, wpc, djob, xpc, result, added, popped>>

\* The first worker could not be created: unlock, SWARTZ_FALSE.  The job
\* stays in the queue and gets no signal.
DispatchSpawnFail(d) ==
  /\ dpc[d] = "spawn" /\ WantsThread /\ SpawnFails /\ thr_alive = 0
  /\ pool_mutex' = Nobody
  /\ dpc' = [dpc EXCEPT ![d] = "idle"]
  /\ djob' = [djob EXCEPT ![d] = NoJob]
  /\ result' = [result EXCEPT ![djob[d]] = "unsignalled"]
  /\ UNCHANGED <<state, thr_alive, thr_idle, queue, pool_sig_sem, pool_sem,
                 freed, wpc, xpc, added, popped>>

\* swartz_sem_post(pool_sig_sem, 1) after the unlock, SWARTZ_TRUE.
DispatchPost(d) ==
  /\ dpc[d] = "post" /\ ~freed
  /\ pool_sig_sem' = SemPost(pool_sig_sem)
  /\ dpc' = [dpc EXCEPT ![d] = "idle"]
  /\ djob' = [djob EXCEPT ![d] = NoJob]
  /\ result' = [result EXCEPT ![djob[d]] = "accepted"]
  /\ UNCHANGED <<state, thr_alive, thr_idle, queue, pool_sem, pool_mutex,
                 freed, wpc, xpc, added, popped>>

-----------------------------------------------------------------------------
(* thrmgr_destroy *)

\* state = POOL_EXIT, written before the lock is taken.
DestroyBegin ==
  /\ xpc = "no"
  /\ OverlapDestroy \/ DispatchersAt({"idle"}) = Dispatchers
  /\ state' = "POOL_EXIT"
  /\ xpc' = "lock"
  /\ UNCHANGED <<thr_alive, thr_idle, queue, pool_sig_sem, pool_sem,
                 pool_mutex, freed, wpc, dpc, djob, result, added, popped>>

\* One signal for each live worker.  (Mutant: one signal for all.)
OneExitSignal == pool_sig_sem + 1
ExitSignals == pool_sig_sem + thr_alive

\* bNeedWait: wait if there was a worker.  (Mutant: never.)
NeverWait == "free"
AfterNotify == IF thr_alive > 0 THEN "wait" ELSE "free"

\* The locked section of thrmgr_destroy.
DestroyNotify ==
  /\ xpc = "lock" /\ MutexFree
  /\ pool_sig_sem' = ExitSignals
  /\ xpc' = AfterNotify
  /\ UNCHANGED <<state, thr_alive, thr_idle, queue, pool_sem, pool_mutex,
                 freed, wpc, dpc, djob, result, added, popped>>

\* swartz_sem_wait(pool_sem, SWARTZ_INFINITE)
DestroyWait ==
  /\ xpc = "wait" /\ SemReady(pool_sem)
  /\ pool_sem' = SemTake(pool_sem)
  /\ xpc' = "free"
  /\ UNCHANGED <<state, thr_alive, thr_idle, queue, pool_sig_sem, pool_mutex,
                 freed, wpc, dpc, djob, result, added, popped>>

\* Destroy the semaphores and the mutex, drop the queued jobs, free the pool.
DestroyFree ==
  /\ xpc = "free"
  /\ freed' = TRUE
  /\ queue' = <<>>
  /\ xpc' = "done"
  /\ UNCHANGED <<state, thr_alive, thr_idle, pool_sig_sem, pool_sem,
                 pool_mutex, wpc, dpc, djob, result, added, popped>>

-----------------------------------------------------------------------------
WorkerStep(w) ==
  \/ WorkerLoop(w) \/ WorkerIdle(w) \/ WorkerWake(w) \/ WorkerExpire(w)
  \/ WorkerUnidle(w) \/ WorkerCheck(w) \/ WorkerPop(w) \/ WorkerHandled(w)
  \/ WorkerExit(w) \/ WorkerSignal(w)

DispatchStep(d) ==
  \/ \E j \in Jobs : DispatchRefuse(d, j) \/ DispatchAdd(d, j)
  \/ DispatchSpawn(d) \/ DispatchNoSpawn(d) \/ DispatchSpawnFail(d)
  \/ DispatchPost(d)

DestroyStep == DestroyBegin \/ DestroyNotify \/ DestroyWait \/ DestroyFree

Next ==
  \/ \E w \in Workers : WorkerStep(w)
  \/ \E d \in Dispatchers : DispatchStep(d)
  \/ DestroyStep

Spec == Init /\ [][Next]_vars

\* Every thread keeps running: its own steps are taken when they stay enabled.
\* A handler returns; nobody is obliged to dispatch or to destroy.
Fairness ==
  /\ \A w \in Workers : WF_vars(WorkerStep(w))
  /\ \A d \in Dispatchers :
       WF_vars(DispatchSpawn(d) \/ DispatchNoSpawn(d) \/ DispatchSpawnFail(d)
                 \/ DispatchPost(d))
  /\ WF_vars(DestroyNotify \/ DestroyWait \/ DestroyFree)

FairSpec == Spec /\ Fairness

-----------------------------------------------------------------------------
(* Properties *)

\* Type invariant of the pool and of its threads' program points.
TypeOK ==
  /\ state \in {"POOL_VALID", "POOL_EXIT"}
  /\ thr_alive \in Nat /\ thr_idle \in Nat
  /\ queue \in Seq(Jobs)
  /\ pool_sig_sem \in Nat /\ pool_sem \in Nat
  /\ pool_mutex \in Dispatchers \cup {Nobody}
  /\ freed \in BOOLEAN
  /\ wpc \in [Workers -> WorkerPc]
  /\ dpc \in [Dispatchers -> {"idle", "spawn", "post"}]
  /\ djob \in [Dispatchers -> Jobs \cup {NoJob}]
  /\ xpc \in {"no", "lock", "wait", "free", "done"}
  /\ result \in [Jobs -> {"new", "calling", "refused", "unsignalled", "accepted"}]
  /\ added \in Seq(Jobs) /\ popped \in Seq(Jobs)

\* thr_alive is exactly the number of threads between their creation and the
\* locked decrement in thrmgr_worker, and never exceeds thr_max.
AliveCount == thr_alive = Cardinality(At(Counted)) /\ thr_alive <= thr_max

\* thr_idle is exactly the number of workers between the atomic increment and
\* the atomic decrement around sem_wait, whichever way the wait ended: the
\* defect described at line 293 (an idle exit that stayed counted) is absent.
IdleCount == thr_idle = Cardinality(At({"wait", "woken", "expired"}))

\* No wake-up is lost or invented while the pool is valid: every queued job is
\* matched by a pending signal, by a worker that took one and has not popped
\* yet, or by a dispatcher that will post.  The jobs of dispatches that failed
\* to create the first thread are the only ones without a signal.
SignalBalance ==
  state = "POOL_VALID" =>
    Len(queue) = pool_sig_sem + Cardinality(At({"woken", "check", "pop"}))
                 + Cardinality(DispatchersAt({"spawn", "post"}))
                 + Cardinality(JobsWith("unsignalled"))

\* A worker that reaches work_queue_pop always finds a job, also when the pool
\* is being destroyed: the get_data test never fails.
PopFindsJob == Cardinality(At({"pop"})) <= Len(queue)

\* Jobs leave the queue in the order they entered it, each at most once, and
\* none disappears before thrmgr_destroy drops the rest.
FifoOnce ==
  /\ ~freed => added = popped \o queue
  /\ \A i, j \in DOMAIN added : added[i] = added[j] => i = j
  /\ \A i \in DOMAIN popped : i \in DOMAIN added /\ popped[i] = added[i]

\* pool_sem is posted only by the last worker of a pool being destroyed, so
\* thrmgr_destroy cannot take a stray signal for the last exit (line 301).
LastSignal ==
  pool_sem > 0 \/ At({"signal"}) # {} => thr_alive = 0 /\ state = "POOL_EXIT"

\* Once thrmgr_destroy has passed its wait no thread runs a handler and none
\* can start one.
DestroyQuiet ==
  xpc \in {"free", "done"} =>
    /\ At(Counted) = {}
    /\ DispatchersAt({"spawn"}) = {}

\* A worker that waits has a deadline sem_timedwait accepts, exactly its wait
\* away, whenever it begins: or else it would expire at once, or late.
DeadlineExact ==
  At({"wait"}) # {} => \A usec \in Micros, timeout \in Waits : Exact(0, usec, timeout)

\* thrmgr_destroy returns: the signals of line 201 and the last worker's post
\* are enough, also for dispatches that overlap it (line 193).
DestroyReturns == xpc = "lock" ~> freed

\* The pool always catches up, until it is destroyed: as many jobs are handed to
\* workers as were accepted, also after creations of threads failed.  Holds for
\* a pool whose workers do not expire.
AcceptedRuns ==
  []<>(Len(popped) >= Cardinality(JobsWith("accepted")) \/ state = "POOL_EXIT")

-----------------------------------------------------------------------------
(* What the pool promises *)

\* What the caller of thrmgr_dispatch is told: nothing yet, success or failure.
AnswerOf(r) ==
  IF r = "accepted" THEN "SWARTZ_OK"
  ELSE IF r \in {"refused", "unsignalled"} THEN "SWARTZ_ERR" ELSE "none"
Answers == [j \in Jobs |-> AnswerOf(result[j])]

\* Workers that are in the handler.
Running == Cardinality(At({"run"}))

TP == INSTANCE TaskPool WITH
        Tasks <- Jobs, Limit <- thr_max,
        open <- state = "POOL_VALID", gone <- freed,
        waiting <- queue, started <- popped,
        running <- Running, answer <- Answers

\* The pool, with all its threads and interleavings, implements the abstract
\* task pool: jobs start in the order of work_queue_add, at most thr_max run,
\* each dispatch has one answer, nothing starts after thrmgr_destroy's free.
ImplementsTaskPool == TP!Spec

-----------------------------------------------------------------------------
(* What comments of the code say, and the code does not do *)

\* Line 369: "if the very first thread cannot be created return failure; at any
\* other time at least one thread is available".  Once a first job has been
\* handed out, a queued job whose signal is posted has a worker that is not on
\* its way out.
ThreadAvailable ==
  state = "POOL_VALID" /\ popped # <<>> /\ queue # <<>> /\ pool_sig_sem > 0 =>
    At(Counted \ {"expired", "exit"}) # {}

\* Line 384: "every task that comes in gives one signal": outside a dispatch,
\* every job in the queue has had its signal posted.
SignalPerTask ==
  state = "POOL_VALID" =>
    Len(queue) <= pool_sig_sem + Cardinality(At({"woken", "check", "pop"}))
                  + Cardinality(DispatchersAt({"spawn", "post"}))

\* Line 206: thrmgr_destroy "waits here for the last thread to exit": when the
\* pool is freed no worker has an access to it left.
FreedAfterLastThread == freed => At(WorkerPc \ {"none"}) = {}
=============================================================================
