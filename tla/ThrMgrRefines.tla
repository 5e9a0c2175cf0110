---------------------------- MODULE ThrMgrRefines ---------------------------
(***************************************************************************)
(* The thread pool implements the abstract task pool, for every value of   *)
(* the constants: every step of a thread is a step of TaskPool or changes  *)
(* nothing that TaskPool shows.  Then, from the same invariant: when two   *)
(* comments of the source hold, and that thrmgr_destroy's wait never has   *)
(* everyone blocked.                                                       *)
(***************************************************************************)
EXTENDS ThrMgrProofs

\* The job of a call in progress has been queued.
CallsAdded ==
  \A d \in Dispatchers :
    dpc[d] # "idle" => \E i \in DOMAIN added : added[i] = djob[d]

RInv == IInv /\ CallsAdded

\* The abstract pool does not move.
Still == UNCHANGED <<state, freed, queue, popped, Running, Answers>>

-----------------------------------------------------------------------------
(* The mapped variables *)

\* The answer to one caller when one dispatch gets its result.
LEMMA AnswerMoves ==
  ASSUME TypeOK, NEW j \in Jobs, NEW v, Returns(j, v)
  PROVE  /\ Answers' = [Answers EXCEPT ![j] = AnswerOf(v)]
         /\ Answers[j] = AnswerOf(result[j])
BY Zenon DEF TypeOK, Returns, Answers

\* What a caller of Dispatch is told, by how its Dispatch ended.
LEMMA AnswerValues ==
  /\ AnswerOf("accepted") = "SWARTZ_OK"
  /\ AnswerOf("refused") = "SWARTZ_ERR" /\ AnswerOf("unsignalled") = "SWARTZ_ERR"
  /\ AnswerOf("new") = "none" /\ AnswerOf("calling") = "none"
BY DEF AnswerOf

\* The number of running handlers when one worker moves.
LEMMA RunningMoves ==
  ASSUME TypeOK, NEW w \in Workers, NEW pc, Goto(w, pc)
  PROVE  /\ Running \in Nat /\ Running' \in Nat
         /\ Running' = Running + One(pc, {"run"}) - One(wpc[w], {"run"})
BY WorkerMoves DEF Running

\* A step that moves no worker leaves the running tasks alone.
LEMMA RunningStays ==
  ASSUME UNCHANGED wpc PROVE Running' = Running
BY DEF Running, At

\* A step that returns nothing leaves the answers alone.
LEMMA AnswersStay ==
  ASSUME UNCHANGED result PROVE Answers' = Answers
BY DEF Answers

\* While the pool exists, what entered it is what was added.
LEMMA EnteredAdded ==
  ASSUME IInv, ~freed, NEW j
  PROVE  TP!Entered(j) <=> \E i \in DOMAIN added : added[i] = j
<1>1. /\ popped \in Seq(Jobs) /\ queue \in Seq(Jobs) /\ added = popped \o queue
  BY DEF IInv, TypeOK, FifoOnce
<1>2. /\ Len(added) = Len(popped) + Len(queue)
      /\ \A i \in 1..Len(popped) : added[i] = popped[i]
      /\ \A i \in 1..Len(queue) : added[Len(popped) + i] = queue[i]
      /\ DOMAIN added = 1..Len(added) /\ DOMAIN popped = 1..Len(popped)
      /\ DOMAIN queue = 1..Len(queue)
      /\ Len(popped) \in Nat /\ Len(queue) \in Nat
  BY <1>1, SeqConcat, SeqLength
<1>3. ASSUME NEW i \in DOMAIN added, added[i] = j
      PROVE  TP!Entered(j)
  <2>1. CASE i <= Len(popped)
    BY <1>2, <1>3, <2>1 DEF TP!Entered
  <2>2. CASE i > Len(popped)
    <3>1. i - Len(popped) \in 1..Len(queue) /\ Len(popped) + (i - Len(popped)) = i
      BY <1>2, <2>2
    <3>2. queue[i - Len(popped)] = j
      BY <1>2, <1>3, <3>1
    <3> QED
      BY <1>2, <3>1, <3>2 DEF TP!Entered
  <2> QED
    BY <1>2, <2>1, <2>2
<1>4. ASSUME NEW i \in DOMAIN popped, popped[i] = j
      PROVE  \E k \in DOMAIN added : added[k] = j
  BY <1>2, <1>4
<1>5. ASSUME NEW i \in DOMAIN queue, queue[i] = j
      PROVE  \E k \in DOMAIN added : added[k] = j
  <2>1. Len(popped) + i \in DOMAIN added /\ added[Len(popped) + i] = j
    BY <1>2, <1>5
  <2> QED
    BY <2>1
<1> QED
  BY <1>3, <1>4, <1>5 DEF TP!Entered

\* A job that is new has not entered, one that is being dispatched has.
LEMMA EnteredKnown ==
  ASSUME RInv, ~freed, NEW j \in Jobs
  PROVE  /\ result[j] = "new" => ~TP!Entered(j)
         /\ \A d \in Dispatchers : dpc[d] # "idle" /\ djob[d] = j => TP!Entered(j)
BY EnteredAdded DEF RInv, IInv, AddedKnown, CallsAdded

-----------------------------------------------------------------------------
(* Steps of a worker *)

\* work_queue_pop starts the first job in line ...
LEMMA PopStarts ==
  ASSUME RInv, RInv', NEW w \in Workers, WorkerPop(w)
  PROVE  TP!Start \/ Still
<1>1. CASE queue = <<>>
  <2>1. Running' = Running
    BY <1>1, RunningMoves DEF RInv, IInv, WorkerPop, One
  <2> QED
    BY <1>1, <2>1, AnswersStay DEF WorkerPop, Still
<1>2. CASE queue # <<>>
  <2>1. Running \in Nat /\ Running' = Running + 1
    BY <1>2, RunningMoves DEF RInv, IInv, WorkerPop, One
  <2>2. Running' <= thr_max
    <3>1. At({"run"})' \subseteq At(Counted)'
      BY DEF At, Counted, WorkerPc
    <3>2. IsFiniteSet(At(Counted)')
      BY PoolAssumption, FS_Subset DEF At
    <3>3. Running' <= Cardinality(At(Counted)')
      BY <3>1, <3>2, FS_Subset DEF Running
    <3>4. Cardinality(At(Counted)') <= thr_max
      BY DEF RInv, IInv, AliveCount
    <3>5. Cardinality(At(Counted)') \in Nat /\ Running' \in Nat
      BY <2>1, <3>2, FS_CardinalityType
    <3> QED
      BY <3>3, <3>4, <3>5, PoolAssumption
  <2>3. ~freed
    <3>1. w \in At(Counted)
      BY DEF WorkerPop, At, Counted, WorkerPc
    <3> QED
      BY <3>1 DEF RInv, IInv, Shutdown, ExitMarked, DestroyQuiet
  <2>4. Running < thr_max
    BY <2>1, <2>2, PoolAssumption
  <2> QED
    BY <1>2, <2>1, <2>3, <2>4, AnswersStay DEF WorkerPop, TP!Start
<1> QED
  BY <1>1, <1>2

\* ... the end of the handler finishes one, and the rest is hidden.
LEMMA WorkerRefines ==
  ASSUME RInv, RInv', NEW w \in Workers, WorkerStep(w)
  PROVE  TP!Next \/ Still
<1>1. CASE WorkerPop(w)
  BY <1>1, PopStarts DEF TP!Next
<1>2. CASE WorkerHandled(w)
  <2>1. Running \in Nat /\ Running' \in Nat /\ Running' = Running - 1
    BY <1>2, RunningMoves DEF RInv, IInv, WorkerHandled, One
  <2>2. TP!Finish
    BY <1>2, <2>1, AnswersStay DEF WorkerHandled, TP!Finish, poolVars
  <2> QED
    BY <2>2 DEF TP!Next
<1>3. CASE ~WorkerPop(w) /\ ~WorkerHandled(w)
  <2>1. /\ UNCHANGED <<state, freed, queue, popped, result>>
        /\ wpc[w] # "run" /\ \E pc : pc # "run" /\ Goto(w, pc)
    BY <1>3, WorkerEdges, WorkerKeeps DEF AfterCheck, AfterExit
  <2>2. Running' = Running
    BY <2>1, RunningMoves DEF RInv, IInv, One
  <2> QED
    BY <2>1, <2>2, AnswersStay DEF Still
<1> QED
  BY <1>1, <1>2, <1>3

-----------------------------------------------------------------------------
(* Steps of a dispatcher *)

\* A call that is refused before its job is queued.
LEMMA RefuseRefines ==
  ASSUME RInv, NEW d \in Dispatchers, NEW j \in Jobs, DispatchRefuse(d, j)
  PROVE  TP!Refuse(j)
<1>1. /\ ~freed /\ result[j] = "new" /\ Returns(j, "refused")
      /\ UNCHANGED <<state, freed, queue, popped, wpc>>
  BY DEF DispatchRefuse, MayCall, Returns, poolVars
<1>2. ~TP!Entered(j)
  BY <1>1, EnteredKnown
<1>3. Answers[j] = "none" /\ Answers' = [Answers EXCEPT ![j] = "SWARTZ_ERR"]
  BY <1>1, AnswerMoves, AnswerValues DEF RInv, IInv
<1> QED
  BY <1>1, <1>2, <1>3, RunningStays DEF TP!Refuse

\* work_queue_add lets the job enter.
LEMMA AddRefines ==
  ASSUME RInv, NEW d \in Dispatchers, NEW j \in Jobs, DispatchAdd(d, j)
  PROVE  TP!Enter(j)
<1>1. /\ ~freed /\ result[j] = "new" /\ Returns(j, "calling") /\ state = "POOL_VALID"
      /\ queue' = Append(queue, j) /\ UNCHANGED <<state, freed, popped, wpc>>
  BY DEF DispatchAdd, MayCall, Returns, QueueAdd
<1>2. ~TP!Entered(j)
  BY <1>1, EnteredKnown
<1>3. Answers[j] = "none" /\ Answers' = [Answers EXCEPT ![j] = "none"]
  BY <1>1, AnswerMoves, AnswerValues DEF RInv, IInv
<1>4. Answers' = Answers
  BY <1>3, Zenon DEF Answers
<1> QED
  BY <1>1, <1>2, <1>3, <1>4, RunningStays DEF TP!Enter

\* The first thread cannot be created: the queued job is refused, nothing runs.
LEMMA SpawnFailRefines ==
  ASSUME RInv, NEW d \in Dispatchers, DispatchSpawnFail(d)
  PROVE  djob[d] \in Jobs /\ TP!Refuse(djob[d])
<1> DEFINE j == djob[d]
<1>1. j \in Jobs /\ result[j] = "calling"
  BY DEF RInv, IInv, CallsDistinct, DispatchSpawnFail
<1>2. /\ Returns(j, "unsignalled") /\ thr_alive = 0
      /\ UNCHANGED <<state, freed, queue, popped, wpc>>
  BY DEF DispatchSpawnFail, Returns
<1>3. ~freed
  <2>1. d \in DispatchersAt({"spawn"})
    BY DEF DispatchSpawnFail, DispatchersAt
  <2> QED
    BY <2>1 DEF RInv, IInv, Shutdown, ExitMarked, DestroyQuiet
<1>4. Running = 0
  <2>1. At(Counted) = {}
    BY <1>2, NoneAlive DEF RInv, IInv
  <2>2. At({"run"}) = {}
    BY <2>1 DEF At, Counted, WorkerPc
  <2> QED
    BY <2>2, FS_EmptySet DEF Running
<1>5. Answers[j] = "none" /\ Answers' = [Answers EXCEPT ![j] = "SWARTZ_ERR"]
  BY <1>1, <1>2, AnswerMoves, AnswerValues DEF RInv, IInv
<1> QED
  BY <1>1, <1>2, <1>3, <1>4, <1>5, RunningStays DEF TP!Refuse

\* The post after the unlock: the caller is told its job was accepted.
LEMMA PostRefines ==
  ASSUME RInv, NEW d \in Dispatchers, DispatchPost(d)
  PROVE  djob[d] \in Jobs /\ TP!Accept(djob[d])
<1> DEFINE j == djob[d]
<1>1. j \in Jobs /\ result[j] = "calling" /\ dpc[d] # "idle"
  BY DEF RInv, IInv, CallsDistinct, DispatchPost
<1>2. /\ ~freed /\ Returns(j, "accepted")
      /\ UNCHANGED <<state, freed, queue, popped, wpc>>
  BY DEF DispatchPost, Returns
<1>3. TP!Entered(j)
  BY <1>1, <1>2, EnteredKnown
<1>4. Answers[j] = "none" /\ Answers' = [Answers EXCEPT ![j] = "SWARTZ_OK"]
  BY <1>1, <1>2, AnswerMoves, AnswerValues DEF RInv, IInv
<1> QED
  BY <1>1, <1>2, <1>3, <1>4, RunningStays DEF TP!Accept

\* A step of a caller of Dispatch is a step of the abstract pool, or none.
LEMMA DispatchRefines ==
  ASSUME RInv, NEW d \in Dispatchers, DispatchStep(d)
  PROVE  TP!Next \/ Still
<1>1. CASE \E j \in Jobs : DispatchRefuse(d, j) \/ DispatchAdd(d, j)
  BY <1>1, RefuseRefines, AddRefines DEF TP!Next
<1>2. CASE DispatchSpawn(d)
  <2>1. PICK w \in Workers : wpc[w] = "none" /\ Goto(w, "loop")
    BY <1>2 DEF DispatchSpawn, At
  <2>2. Running' = Running
    BY <2>1, RunningMoves DEF RInv, IInv, One
  <2> QED
    BY <1>2, <2>2, AnswersStay DEF DispatchSpawn, Still
<1>3. CASE DispatchNoSpawn(d)
  BY <1>3, RunningStays, AnswersStay DEF DispatchNoSpawn, Still
<1>4. CASE DispatchSpawnFail(d)
  BY <1>4, SpawnFailRefines DEF TP!Next
<1>5. CASE DispatchPost(d)
  BY <1>5, PostRefines DEF TP!Next
<1> QED
  BY <1>1, <1>2, <1>3, <1>4, <1>5 DEF DispatchStep

-----------------------------------------------------------------------------
(* thrmgr_destroy *)

\* A step of Destroy is a step of the abstract pool, or none.
LEMMA DestroyRefines ==
  ASSUME RInv, DestroyStep
  PROVE  TP!Next \/ Still
<1>0. UNCHANGED <<wpc, result>>
  BY DEF DestroyStep, DestroyBegin, DestroyNotify, DestroyWait, DestroyFree
<1>1. Running' = Running /\ Answers' = Answers
  BY <1>0, RunningStays, AnswersStay
<1>2. CASE DestroyBegin
  <2>1. state = "POOL_VALID"
    BY <1>2 DEF DestroyBegin, RInv, IInv, Shutdown, ExitMarked, TypeOK
  <2>2. TP!Close
    BY <1>1, <1>2, <2>1 DEF DestroyBegin, TP!Close
  <2> QED
    BY <2>2 DEF TP!Next
<1>3. CASE DestroyNotify \/ DestroyWait
  BY <1>1, <1>3 DEF DestroyNotify, DestroyWait, Still
<1>4. CASE DestroyFree
  <2>1. state # "POOL_VALID" /\ ~freed /\ At(Counted) = {}
    BY <1>4 DEF DestroyFree, RInv, IInv, Shutdown, ExitMarked, DestroyQuiet
  <2>2. At({"run"}) = {}
    BY <2>1 DEF At, Counted, WorkerPc
  <2>3. Running = 0
    BY <2>2, FS_EmptySet DEF Running
  <2>4. TP!Drop
    BY <1>1, <1>4, <2>1, <2>3 DEF DestroyFree, TP!Drop
  <2> QED
    BY <2>4 DEF TP!Next
<1> QED
  BY <1>2, <1>3, <1>4 DEF DestroyStep

-----------------------------------------------------------------------------
(* The refinement *)

\* Every step keeps the jobs of calls in progress among those added.
LEMMA CallsAddedInv ==
  ASSUME RInv, [Next]_vars
  PROVE  CallsAdded'
<1>1. ASSUME NEW w \in Workers, WorkerStep(w)
      PROVE  UNCHANGED <<dpc, djob, added>>
  BY <1>1, WorkerKeeps
<1>2. ASSUME DestroyStep \/ UNCHANGED vars
      PROVE  UNCHANGED <<dpc, djob, added>>
  BY <1>2, DestroyKeeps DEF vars
<1>3. ASSUME NEW d \in Dispatchers, DispatchStep(d)
      PROVE  CallsAdded'
  <2>1. ASSUME NEW j \in Jobs, DispatchAdd(d, j)
        PROVE  CallsAdded'
    <3>1. /\ added \in Seq(Jobs) /\ dpc \in [Dispatchers -> {"idle", "spawn", "post"}]
          /\ djob \in [Dispatchers -> Jobs \cup {NoJob}]
      BY DEF RInv, IInv, TypeOK
    <3>2. /\ \A i \in DOMAIN added : i \in DOMAIN added' /\ added'[i] = added[i]
          /\ \E i \in DOMAIN added' : added'[i] = j
      BY <2>1, <3>1, SeqAppend DEF DispatchAdd
    <3> QED
      BY <2>1, <3>1, <3>2 DEF RInv, CallsAdded, DispatchAdd
  <2>2. ASSUME ~(\E j \in Jobs : DispatchAdd(d, j))
        PROVE  /\ UNCHANGED added
               /\ \A e \in Dispatchers : dpc'[e] # "idle" => dpc[e] # "idle" /\ djob'[e] = djob[e]
    <3>1. dpc \in [Dispatchers -> {"idle", "spawn", "post"}]
          /\ djob \in [Dispatchers -> Jobs \cup {NoJob}]
      BY DEF RInv, IInv, TypeOK
    <3> QED
      BY <1>3, <2>2, <3>1 DEF DispatchStep, DispatchRefuse, DispatchSpawn, DispatchNoSpawn,
         DispatchSpawnFail, DispatchPost
  <2> QED
    BY <2>1, <2>2 DEF RInv, CallsAdded
<1> QED
  BY <1>1, <1>2, <1>3 DEF RInv, CallsAdded, Next

\* The facts the mapping needs hold in every state.
LEMMA AlwaysRInv == Spec => []RInv
<1>1. Init => RInv
  BY InitInv DEF Init, RInv, CallsAdded
<1>2. RInv /\ [Next]_vars => RInv'
  BY NextInv, CallsAddedInv DEF RInv
<1> QED
  BY <1>1, <1>2, PTL DEF Spec

\* A step of the pool is a step of the abstract pool, or is hidden.
LEMMA StepRefines == RInv /\ RInv' /\ [Next]_vars => [TP!Next]_TP!vars
<1> SUFFICES ASSUME RInv, RInv', [Next]_vars
             PROVE  TP!Next \/ Still
  BY DEF Still, TP!vars
<1>1. CASE UNCHANGED vars
  BY <1>1, RunningStays, AnswersStay DEF vars, poolVars, Still
<1> QED
  BY <1>1, WorkerRefines, DispatchRefines, DestroyRefines DEF Next

\* A new pool is a new abstract pool.
LEMMA InitRefines == Init => TP!Init
<1> SUFFICES ASSUME Init PROVE TP!Init
  OBVIOUS
<1>1. At({"run"}) = {}
  BY DEF Init, At
<1>2. Running = 0
  BY <1>1, FS_EmptySet DEF Running
<1>3. Answers = [j \in Jobs |-> "none"]
  BY AnswerValues DEF Init, Answers
<1> QED
  BY <1>2, <1>3 DEF Init, TP!Init

\* swartz_thrmgr.cpp implements TaskPool: whatever the interleaving of workers,
\* dispatchers and destruction, tasks start in order, at most thr_max run, every
\* dispatch gets one answer, and nothing starts once the pool is freed.
THEOREM PoolRefines == Spec => ImplementsTaskPool
BY AlwaysRInv, InitRefines, StepRefines, PTL DEF Spec, ImplementsTaskPool, TP!Spec

-----------------------------------------------------------------------------
(* How far two comments of the source hold *)

\* No dispatch has left its job without a signal.
AllSignalled == JobsWith("unsignalled") = {}

\* Only a dispatch that cannot create the first worker leaves its job without a
\* signal.
LEMMA AllSignalledInv ==
  ASSUME TypeOK, AllSignalled, [Next]_vars, ~SpawnFails
  PROVE  AllSignalled'
<1>1. result \in [Jobs -> {"new", "calling", "refused", "unsignalled", "accepted"}]
  BY DEF TypeOK
<1>2. ASSUME NEW d \in Dispatchers, DispatchStep(d)
      PROVE  \A j \in Jobs : result'[j] # "unsignalled" \/ result'[j] = result[j]
  <2>1. \/ UNCHANGED result
        \/ \E j \in Jobs, v \in {"refused", "calling"} : result' = [result EXCEPT ![j] = v]
        \/ result' = [result EXCEPT ![djob[d]] = "accepted"]
    BY <1>2 DEF DispatchStep, DispatchRefuse, DispatchAdd, DispatchSpawn, DispatchNoSpawn,
                DispatchSpawnFail, DispatchPost
  <2> QED
    BY ONLY <1>1, <2>1
<1>3. ASSUME \/ \E w \in Workers : WorkerStep(w)
             \/ DestroyStep
             \/ UNCHANGED vars
      PROVE  UNCHANGED result
  BY <1>3, WorkerKeeps, DestroyKeeps DEF vars
<1> QED
  BY <1>2, <1>3 DEF AllSignalled, JobsWith, Next

\* The comment at line 384 holds in exactly the states in which no dispatch has
\* failed to create the first worker: that failure is its only exception.
THEOREM SignalsMissExactlyFailures ==
  Spec => [](state = "POOL_VALID" => (SignalPerTask <=> AllSignalled))
<1>1. ASSUME IInv, state = "POOL_VALID"
      PROVE  SignalPerTask <=> AllSignalled
  <2>1. IsFiniteSet(JobsWith("unsignalled"))
    BY PoolAssumption, FS_Subset DEF JobsWith
  <2>2. Cardinality(JobsWith("unsignalled")) = 0 <=> AllSignalled
    BY <2>1, FS_EmptySet DEF AllSignalled
  <2>3. /\ Cardinality(At({"woken", "check", "pop"})) \in Nat
        /\ Cardinality(DispatchersAt({"spawn", "post"})) \in Nat
        /\ Cardinality(JobsWith("unsignalled")) \in Nat
        /\ pool_sig_sem \in Nat
    BY <1>1, CountsNat DEF IInv, TypeOK
  <2> QED
    BY <1>1, <2>2, <2>3 DEF IInv, SignalBalance, SignalPerTask
<1>2. IInv => (state = "POOL_VALID" => (SignalPerTask <=> AllSignalled))
  BY <1>1
<1> QED
  BY <1>2, AlwaysIInv, PTL

\* Where the system never refuses a thread, every task does give one signal
\* (line 384).
THEOREM EveryTaskSignals ==
  ASSUME ~SpawnFails
  PROVE  Spec => []SignalPerTask
<1>1. Init => AllSignalled
  BY DEF Init, AllSignalled, JobsWith
<1>2. IInv /\ AllSignalled /\ [Next]_vars => AllSignalled'
  BY AllSignalledInv DEF IInv
<1>3. AllSignalled /\ (state = "POOL_VALID" => (SignalPerTask <=> AllSignalled))
        => SignalPerTask
  BY DEF SignalPerTask
<1> QED
  BY <1>1, <1>2, <1>3, AlwaysIInv, SignalsMissExactlyFailures, PTL DEF Spec

\* While the pool is valid no worker is on its way out, and a signal posted, or
\* about to be, means that there is a worker.
WorkersStay ==
  state = "POOL_VALID" =>
    /\ At({"expired", "exit"}) = {}
    /\ pool_sig_sem > 0 \/ DispatchersAt({"post"}) # {} => thr_alive > 0

\* A worker step of a valid pool whose waits never expire keeps every worker.
LEMMA WorkerStays ==
  ASSUME IInv, WorkersStay, ~IdleExpires, NEW w \in Workers, WorkerStep(w)
  PROVE  WorkersStay'
<1> SUFFICES ASSUME state' = "POOL_VALID" PROVE WorkersStay'
  BY SMTT(20) DEF WorkersStay
<1>1. state = "POOL_VALID" /\ UNCHANGED dpc
  BY WorkerKeeps
<1>2. wpc[w] \notin {"expired", "exit"}
  BY <1>1 DEF WorkersStay, At
<1>3. PICK pc : Goto(w, pc) /\ pc \notin {"expired", "exit"}
  BY <1>1, <1>2, WorkerEdges DEF AfterCheck
<1>4. At({"expired", "exit"})' = {}
  <2>1. wpc \in [Workers -> WorkerPc] /\ At({"expired", "exit"}) = {}
    BY <1>1 DEF IInv, TypeOK, WorkersStay
  <2> QED
    BY <1>3, <2>1 DEF At, Goto
<1>5. thr_alive' = thr_alive /\ (pool_sig_sem' > 0 => pool_sig_sem > 0)
  <2>1. ~WorkerExit(w) /\ (WorkerWake(w) => pool_sig_sem > 0)
    BY <1>2 DEF WorkerExit, WorkerWake, SemReady
  <2> QED
    BY <2>1, WorkerKeeps
<1> QED
  BY <1>1, <1>4, <1>5 DEF WorkersStay, DispatchersAt

\* A dispatch reaches its post with a worker alive: an idle one, one of a full
\* pool, or the one it created.
LEMMA DispatchStays ==
  ASSUME IInv, WorkersStay, NEW d \in Dispatchers, DispatchStep(d)
  PROVE  WorkersStay'
<1> SUFFICES ASSUME state' = "POOL_VALID" PROVE WorkersStay'
  BY DEF WorkersStay
<1>1. state = "POOL_VALID"
  BY DEF DispatchStep, DispatchRefuse, DispatchAdd, DispatchSpawn, DispatchNoSpawn,
     DispatchSpawnFail, DispatchPost, poolVars
<1>2. /\ thr_alive \in Nat /\ pool_sig_sem \in Nat
      /\ wpc \in [Workers -> WorkerPc] /\ dpc \in [Dispatchers -> {"idle", "spawn", "post"}]
  BY DEF IInv, TypeOK
<1>3. thr_alive = 0 => thr_idle = 0
  <2>1. IsFiniteSet(At({"wait", "woken", "expired"}))
    BY CountsNat DEF IInv
  <2>2. At({"wait", "woken", "expired"}) \subseteq At(Counted)
    BY DEF At, Counted, WorkerPc
  <2> QED
    BY <2>1, <2>2, NoneAlive, FS_EmptySet DEF IInv, IdleCount
<1>4. At({"expired", "exit"})' = {}
  BY <1>1, <1>2 DEF DispatchStep, DispatchRefuse, DispatchAdd, DispatchSpawn, DispatchNoSpawn,
     DispatchSpawnFail, DispatchPost, poolVars, WorkersStay, At, Goto
<1>5. CASE DispatchSpawn(d) \/ DispatchNoSpawn(d)
  <2>1. thr_alive' > 0
    BY <1>2, <1>3, <1>5, PoolAssumption DEF DispatchSpawn, DispatchNoSpawn, WantsThread,
       AliveAfterSpawn
  <2> QED
    BY <1>4, <2>1 DEF WorkersStay
<1>6. CASE DispatchPost(d)
  <2>1. d \in DispatchersAt({"post"}) /\ thr_alive' = thr_alive
    BY <1>6 DEF DispatchPost, DispatchersAt
  <2> QED
    BY <1>1, <1>4, <2>1 DEF WorkersStay
<1>7. CASE DispatchSpawnFail(d) \/ \E j \in Jobs : DispatchRefuse(d, j) \/ DispatchAdd(d, j)
  <2>1. /\ UNCHANGED <<thr_alive, pool_sig_sem>>
        /\ DispatchersAt({"post"})' \subseteq DispatchersAt({"post"})
    BY <1>2, <1>7 DEF DispatchRefuse, DispatchSpawnFail, DispatchAdd, poolVars, DispatchersAt
  <2> QED
    BY <1>1, <1>4, <2>1 DEF WorkersStay
<1> QED
  BY <1>5, <1>6, <1>7 DEF DispatchStep

\* Where idle workers never expire, a valid pool with a signal pending always
\* has a worker to take it: the comment at line 369 needs no more than that,
\* also when threads cannot always be created and destruction overlaps.
THEOREM WorkersStayAvailable ==
  ASSUME ~IdleExpires
  PROVE  Spec => []ThreadAvailable
<1>1. Init => WorkersStay
  BY DEF Init, WorkersStay, At, DispatchersAt
<1>2. ASSUME IInv, WorkersStay, [Next]_vars
      PROVE  WorkersStay'
  <2>1. CASE DestroyStep
    <3>1. state' = "POOL_EXIT" \/ (state' = state /\ state # "POOL_VALID")
      BY <1>2, <2>1 DEF DestroyStep, DestroyBegin, DestroyNotify, DestroyWait, DestroyFree,
         IInv, TypeOK, Shutdown, ExitMarked
    <3> QED
      BY <3>1 DEF WorkersStay
  <2>2. CASE UNCHANGED vars
    BY <1>2, <2>2 DEF vars, poolVars, WorkersStay, At, DispatchersAt
  <2> QED
    BY <1>2, <2>1, <2>2, WorkerStays, DispatchStays DEF Next
<1>3. ASSUME IInv, WorkersStay
      PROVE  ThreadAvailable
  <2> SUFFICES ASSUME state = "POOL_VALID", pool_sig_sem > 0
               PROVE  At(Counted \ {"expired", "exit"}) # {}
    BY DEF ThreadAvailable
  <2>1. thr_alive > 0
    BY <1>3 DEF WorkersStay
  <2>2. At(Counted) # {}
    BY <1>3, <2>1, NoneAlive DEF IInv
  <2> QED
    BY <1>3, <2>2 DEF WorkersStay, At
<1>4. (IInv /\ WorkersStay /\ [Next]_vars => WorkersStay')
      /\ (IInv /\ WorkersStay => ThreadAvailable)
  BY <1>2, <1>3
<1> QED
  BY <1>1, <1>4, AlwaysIInv, PTL DEF Spec

-----------------------------------------------------------------------------
(* thrmgr_destroy is never left waiting *)

\* While thrmgr_destroy waits for the last worker, every worker that is in the
\* wait, or about to be, has a signal left to wake it; and the last worker's
\* post is still to come, or there.
Roused ==
  xpc = "wait" =>
    /\ Cardinality(At({"inc", "wait"})) <= pool_sig_sem
    /\ thr_alive > 0 \/ At({"signal"}) # {} \/ pool_sem > 0

\* A step of a worker keeps this: once the pool is exiting no worker goes back
\* to the wait, and each takes at most one signal.
LEMMA WorkerRoused ==
  ASSUME IInv, Roused, NEW w \in Workers, WorkerStep(w)
  PROVE  Roused'
<1> DEFINE S == {"inc", "wait"}
<1> SUFFICES ASSUME xpc' = "wait" PROVE Roused'
  BY DEF Roused
<1>1. xpc = "wait" /\ UNCHANGED <<state, freed>>
  BY WorkerKeeps
<1>2. TypeOK /\ state = "POOL_EXIT" /\ pool_sig_sem \in Nat /\ pool_sem \in Nat
      /\ thr_alive \in Nat /\ wpc \in [Workers -> WorkerPc]
  BY <1>1 DEF IInv, TypeOK, Shutdown, ExitMarked
<1>3. Cardinality(At(S))' <= pool_sig_sem'
  <2>1. CASE WorkerWake(w)
    <3>1. Goto(w, "woken") /\ One("woken", S) = 0 /\ One(wpc[w], S) = 1
      BY <2>1 DEF WorkerWake, One
    <3>2. pool_sig_sem' = pool_sig_sem - 1
      BY <2>1 DEF WorkerWake, SemTake
    <3> QED
      BY <1>1, <1>2, <3>1, <3>2, WorkerMoves DEF Roused
  <2>2. CASE ~WorkerWake(w)
    <3>1. PICK pc \in WorkerPc : Goto(w, pc) /\ (pc \in S => wpc[w] \in S)
      BY <1>2, <2>2, WorkerEdges DEF AfterCheck, AfterExit, WorkerPc
    <3>2. pool_sig_sem' = pool_sig_sem
      BY <2>2, WorkerKeeps
    <3>3. One(pc, S) <= One(wpc[w], S) /\ One(pc, S) \in Nat /\ One(wpc[w], S) \in Nat
      BY <3>1 DEF One
    <3>4. /\ Cardinality(At(S)) \in Nat
          /\ Cardinality(At(S))' = Cardinality(At(S)) + One(pc, S) - One(wpc[w], S)
      BY <1>2, <3>1, WorkerMoves
    <3> QED
      BY <1>1, <1>2, <3>2, <3>3, <3>4 DEF Roused
  <2> QED
    BY <2>1, <2>2
<1>4. (thr_alive > 0 \/ At({"signal"}) # {} \/ pool_sem > 0)'
  <2>1. CASE WorkerExit(w)
    <3>1. CASE thr_alive = 1
      BY <1>2, <2>1, <3>1 DEF WorkerExit, AfterExit, Goto, At
    <3>2. CASE thr_alive # 1
      <4>1. w \in At(Counted)
        BY <2>1 DEF WorkerExit, At, Counted, WorkerPc
      <4>2. thr_alive > 0
        BY <1>2, <4>1, NoneAlive DEF IInv
      <4> QED
        BY <1>2, <2>1, <3>2, <4>2 DEF WorkerExit
    <3> QED
      BY <3>1, <3>2
  <2>2. CASE WorkerSignal(w)
    BY <1>2, <2>2 DEF WorkerSignal, SemPost
  <2>3. CASE ~WorkerExit(w) /\ ~WorkerSignal(w)
    <3>1. UNCHANGED <<thr_alive, pool_sem>>
      BY <2>3, WorkerKeeps
    <3>2. wpc[w] # "signal" /\ \E pc : Goto(w, pc)
      BY <2>3, WorkerEdges
    <3>3. At({"signal"}) \subseteq At({"signal"})'
      BY <1>2, <3>2 DEF At, Goto
    <3> QED
      BY <1>1, <3>1, <3>3 DEF Roused
  <2> QED
    BY <2>1, <2>2, <2>3
<1> QED
  BY <1>3, <1>4 DEF Roused

\* A dispatch that overlaps keeps it: a worker it creates finds the pool exiting.
LEMMA DispatchRoused ==
  ASSUME IInv, Roused, NEW d \in Dispatchers, DispatchStep(d)
  PROVE  Roused'
<1> SUFFICES ASSUME xpc' = "wait" PROVE Roused'
  BY DEF Roused
<1>1. /\ xpc = "wait" /\ pool_sig_sem' >= pool_sig_sem /\ pool_sem' = pool_sem
      /\ thr_alive' >= thr_alive
      /\ pool_sig_sem \in Nat /\ thr_alive \in Nat /\ pool_sig_sem' \in Nat /\ thr_alive' \in Nat
  <2>1. pool_sig_sem \in Nat /\ thr_alive \in Nat
    BY DEF IInv, TypeOK
  <2>2. /\ DispatchSpawn(d) => thr_alive' = thr_alive + 1
        /\ DispatchPost(d) => pool_sig_sem' = pool_sig_sem + 1
    BY DEF DispatchSpawn, AliveAfterSpawn, DispatchPost, SemPost
  <2> QED
    BY <2>1, <2>2, DispatchKeeps
<1>2. At({"inc", "wait"})' = At({"inc", "wait"}) /\ At({"signal"})' = At({"signal"})
  <2>1. wpc \in [Workers -> WorkerPc]
    BY DEF IInv, TypeOK
  <2>2. CASE UNCHANGED wpc
    BY <2>2 DEF At
  <2>3. CASE DispatchSpawn(d)
    <3>1. PICK w \in Workers : wpc[w] = "none" /\ Goto(w, "loop")
      BY <2>3 DEF DispatchSpawn, At
    <3> QED
      BY <2>1, <3>1 DEF At, Goto
  <2> QED
    BY <2>2, <2>3, DispatchKeeps
<1>3. Cardinality(At({"inc", "wait"})) \in Nat
  BY CountsNat DEF IInv
<1>4. /\ Cardinality(At({"inc", "wait"})) <= pool_sig_sem
      /\ thr_alive > 0 \/ At({"signal"}) # {} \/ pool_sem > 0
  BY <1>1 DEF Roused
<1>5. /\ Cardinality(At({"inc", "wait"})') <= pool_sig_sem'
      /\ thr_alive' > 0 \/ At({"signal"})' # {} \/ pool_sem' > 0
  BY ONLY <1>1, <1>2, <1>3, <1>4
<1> QED
  BY <1>5 DEF Roused

\* thrmgr_destroy itself brings it about: it waits only if there is a worker,
\* and posts one signal for each.
LEMMA DestroyRoused ==
  ASSUME IInv, Roused, DestroyStep
  PROVE  Roused'
<1> SUFFICES ASSUME xpc' = "wait" PROVE Roused'
  BY DEF Roused
<1>1. DestroyNotify /\ thr_alive > 0
  BY DEF DestroyStep, DestroyBegin, DestroyNotify, AfterNotify, DestroyWait, DestroyFree
<1>2. /\ Cardinality(At({"inc", "wait"})) \in Nat /\ IsFiniteSet(At(Counted))
      /\ pool_sig_sem \in Nat /\ thr_alive \in Nat
  BY CountsNat DEF IInv, TypeOK
<1>3. At({"inc", "wait"}) \subseteq At(Counted)
  BY DEF At, Counted, WorkerPc
<1>4. Cardinality(At({"inc", "wait"})) <= thr_alive
  BY <1>2, <1>3, FS_Subset DEF IInv, AliveCount
<1>5. At({"inc", "wait"})' = At({"inc", "wait"})
  BY <1>1 DEF DestroyNotify, At
<1> QED
  BY <1>1, <1>2, <1>4, <1>5 DEF DestroyNotify, ExitSignals, Roused

\* While thrmgr_destroy waits, it has its post; or a caller holds the mutex and
\* is about to release it; or the mutex is free and a worker can go on, one in
\* the wait because there is a signal for it.  Nobody waits for everybody.
DestroyCanMove ==
  xpc = "wait" =>
    \/ SemReady(pool_sem)
    \/ \E d \in Dispatchers : dpc[d] = "spawn"
    \/ /\ MutexFree /\ ~freed
       /\ \E w \in Workers :
            \/ wpc[w] \notin {"none", "wait"}
            \/ wpc[w] = "wait" /\ SemReady(pool_sig_sem)

\* The safety half of thrmgr_destroy's return, for every number of threads and
\* calls: at no point of its wait (line 206) is everyone blocked, whatever
\* expiries, failed creations and overlapping dispatches came before.
THEOREM DestroyNeverStuck == Spec => []DestroyCanMove
<1>1. Init => Roused
  BY DEF Init, Roused
<1>2. ASSUME IInv, Roused, [Next]_vars
      PROVE  Roused'
  <2>1. CASE UNCHANGED vars
    BY <1>2, <2>1 DEF vars, poolVars, Roused, At
  <2> QED
    BY <1>2, <2>1, WorkerRoused, DispatchRoused, DestroyRoused DEF Next
<1>3. ASSUME IInv, Roused
      PROVE  DestroyCanMove
  <2> SUFFICES ASSUME xpc = "wait", ~SemReady(pool_sem),
                      ~\E d \in Dispatchers : dpc[d] = "spawn"
               PROVE  /\ MutexFree /\ ~freed
                      /\ \E w \in Workers :
                           \/ wpc[w] \notin {"none", "wait"}
                           \/ wpc[w] = "wait" /\ SemReady(pool_sig_sem)
    BY DEF DestroyCanMove
  <2>1. MutexFree /\ ~freed
    BY <1>3 DEF IInv, TypeOK, MutexOwner, MutexFree, Shutdown, ExitMarked
  <2>2. PICK w \in Workers : wpc[w] # "none"
    <3>1. thr_alive > 0 \/ At({"signal"}) # {}
      BY <1>3 DEF Roused, SemReady
    <3>2. At(Counted) # {} \/ At({"signal"}) # {}
      BY <1>3, <3>1, NoneAlive DEF IInv
    <3> QED
      BY <3>2 DEF At, Counted, WorkerPc
  <2>3. CASE wpc[w] = "wait"
    <3>1. w \in At({"inc", "wait"}) /\ IsFiniteSet(At({"inc", "wait"}))
      BY <1>3, <2>3, CountsNat DEF At, IInv
    <3>2. Cardinality(At({"inc", "wait"})) # 0 /\ Cardinality(At({"inc", "wait"})) \in Nat
      BY <3>1, FS_EmptySet, FS_CardinalityType
    <3>3. pool_sig_sem > 0
      BY <1>3, <3>2 DEF Roused, IInv, TypeOK
    <3> QED
      BY <2>1, <2>3, <3>3 DEF SemReady
  <2> QED
    BY <2>1, <2>2, <2>3
<1>4. (IInv /\ Roused /\ [Next]_vars => Roused') /\ (IInv /\ Roused => DestroyCanMove)
  BY <1>2, <1>3
<1> QED
  BY <1>1, <1>4, AlwaysIInv, PTL DEF Spec
=============================================================================
