---------------------------- MODULE ThrMgrProofs ----------------------------
(***************************************************************************)
(* Proofs about the thread pool, for any number of workers, dispatchers    *)
(* and jobs, any thr_max, and whether or not waits expire, thread creation *)
(* fails or destruction overlaps dispatches.                               *)
(***************************************************************************)
EXTENDS ThrMgr, FiniteSetTheorems, TLAPS

-----------------------------------------------------------------------------
(* Sequences *)

\* A sequence is a function on the numbers up to its length.
LEMMA SeqLength ==
  ASSUME NEW S, NEW q \in Seq(S)
  PROVE  /\ Len(q) \in Nat /\ DOMAIN q = 1..Len(q)
         /\ \A i \in 1..Len(q) : q[i] \in S
         /\ q = <<>> <=> Len(q) = 0
OBVIOUS

\* The empty one.
LEMMA SeqEmpty ==
  ASSUME NEW S
  PROVE  <<>> \in Seq(S) /\ Len(<<>>) = 0 /\ DOMAIN <<>> = {} /\ <<>> \o <<>> = <<>>
OBVIOUS

\* What is left without the first element.
LEMMA SeqTail ==
  ASSUME NEW S, NEW q \in Seq(S), q # <<>>
  PROVE  Head(q) \in S /\ Tail(q) \in Seq(S) /\ Len(Tail(q)) = Len(q) - 1
OBVIOUS

\* A new last element.
LEMMA SeqAppend ==
  ASSUME NEW S, NEW q \in Seq(S), NEW e \in S
  PROVE  /\ Append(q, e) \in Seq(S) /\ Len(Append(q, e)) = Len(q) + 1
         /\ \A i \in 1..Len(q) : Append(q, e)[i] = q[i]
         /\ Append(q, e)[Len(q) + 1] = e
OBVIOUS

\* Two in a row; the elements of the left one come first.
LEMMA SeqConcat ==
  ASSUME NEW S, NEW q \in Seq(S), NEW r \in Seq(S)
  PROVE  /\ q \o r \in Seq(S) /\ Len(q \o r) = Len(q) + Len(r)
         /\ \A i \in DOMAIN q : i \in DOMAIN (q \o r) /\ (q \o r)[i] = q[i]
OBVIOUS

\* A new last element that was not there yet.
LEMMA SeqJoinsOnce ==
  ASSUME NEW S, NEW q \in Seq(S), NEW e \in S,
         \A i, j \in DOMAIN q : q[i] = q[j] => i = j, \A i \in DOMAIN q : q[i] # e
  PROVE  /\ \A i, j \in DOMAIN Append(q, e) : Append(q, e)[i] = Append(q, e)[j] => i = j
         /\ \A i \in DOMAIN q : i \in DOMAIN Append(q, e) /\ Append(q, e)[i] = q[i]
         /\ \A i \in DOMAIN Append(q, e) : i \in DOMAIN q \/ Append(q, e)[i] = e
<1>1. /\ DOMAIN Append(q, e) = 1..(Len(q) + 1) /\ Len(q) \in Nat /\ DOMAIN q = 1..Len(q)
      /\ \A i \in 1..Len(q) : Append(q, e)[i] = q[i]
      /\ Append(q, e)[Len(q) + 1] = e
  OBVIOUS
<1>2. \A i \in DOMAIN Append(q, e) : i \in DOMAIN q \/ i = Len(q) + 1
  BY <1>1
<1> QED
  BY <1>1, <1>2

\* The head of the right part of a concatenation may move to the left one.
LEMMA HeadMoves ==
  ASSUME NEW S, NEW q \in Seq(S), NEW r \in Seq(S), r # <<>>
  PROVE  q \o r = Append(q, Head(r)) \o Tail(r)
OBVIOUS

-----------------------------------------------------------------------------
(* The deadline of a timed wait *)

\* Whatever the clock reads and however long the wait, the deadline is exact.
THEOREM DeadlineIsExact ==
  \A sec, usec, timeout \in Nat : usec < 1000000 => Exact(sec, usec, timeout)
<1> SUFFICES ASSUME NEW sec \in Nat, NEW usec \in Nat, NEW timeout \in Nat, usec < 1000000
             PROVE  Exact(sec, usec, timeout)
  BY SMTT(30)
<1> DEFINE q == timeout \div 1000
           r == timeout % 1000
<1>1. q \in Nat /\ r \in Nat /\ r < 1000 /\ timeout = 1000 * q + r
  BY SMTT(30)
<1> HIDE DEF q, r
<1> DEFINE u == usec + 1000 * r
<1>2. Nanos(usec, timeout) = 1000 * u
  BY SMTT(30), <1>1 DEF Nanos, r
<1>3. usec + timeout * 1000 = u + q * 1000000 /\ u \in Nat /\ u < 2000000
  BY SMTT(30), <1>1
<1> HIDE DEF u
<1>4. CASE u < 1000000
  <2>1. Carry(1000 * u) = 0 /\ (1000 * u) % 1000000000 = 1000 * u
    BY SMTT(30), <1>3, <1>4 DEF Carry
  <2>2. (u + q * 1000000) \div 1000000 = q /\ (u + q * 1000000) % 1000000 = u
    BY SMTT(30), <1>1, <1>3, <1>4
  <2> QED
    BY SMTT(30), <1>1, <1>2, <1>3, <1>4, <2>1, <2>2 DEF Exact, tv_sec, tv_nsec, q
<1>5. CASE u >= 1000000
  <2>1. Carry(1000 * u) = 1 /\ (1000 * u) % 1000000000 = 1000 * (u - 1000000)
    BY SMTT(30), <1>3, <1>5 DEF Carry
  <2>2. /\ (u + q * 1000000) \div 1000000 = q + 1
        /\ (u + q * 1000000) % 1000000 = u - 1000000
    BY SMTT(30), <1>1, <1>3, <1>5
  <2> QED
    BY SMTT(30), <1>1, <1>2, <1>3, <1>5, <2>1, <2>2 DEF Exact, tv_sec, tv_nsec, q
<1> QED
  BY SMTT(30), <1>3, <1>4, <1>5

\* So no worker's wait expires early or late, whenever it begins.
THEOREM DeadlinesAreExact == Spec => []DeadlineExact
<1>1. DeadlineExact
  <2> SUFFICES ASSUME NEW usec \in Micros, NEW timeout \in Waits
               PROVE  Exact(0, usec, timeout)
    BY DEF DeadlineExact
  <2>1. usec \in Nat /\ usec < 1000000 /\ timeout \in Nat /\ 0 \in Nat
    BY TimeAssumption, SMT
  <2> QED
    BY <2>1, DeadlineIsExact, SMT
<1> QED
  BY <1>1, PTL

-----------------------------------------------------------------------------
(* Frames: what the steps of each thread change, and leave alone *)

\* Every worker step moves that worker; the points it can move between.
LEMMA WorkerEdges ==
  ASSUME NEW w \in Workers, WorkerStep(w)
  PROVE  \/ wpc[w] = "loop" /\ Goto(w, IF state # "POOL_EXIT" THEN "inc" ELSE "exit")
         \/ wpc[w] = "inc" /\ WorkerIdle(w) /\ Goto(w, "wait")
         \/ wpc[w] = "wait" /\ WorkerWake(w) /\ Goto(w, "woken")
         \/ wpc[w] = "wait" /\ IdleExpires /\ Goto(w, "expired")
         \/ wpc[w] = "woken" /\ WorkerUnidle(w) /\ Goto(w, "check")
         \/ wpc[w] = "expired" /\ WorkerUnidle(w) /\ Goto(w, "exit")
         \/ wpc[w] = "check" /\ Goto(w, AfterCheck)
         \/ wpc[w] = "pop" /\ WorkerPop(w) /\ (Goto(w, "run") \/ Goto(w, "loop"))
         \/ wpc[w] = "run" /\ WorkerHandled(w) /\ Goto(w, "loop")
         \/ wpc[w] = "exit" /\ WorkerExit(w) /\ Goto(w, AfterExit)
         \/ wpc[w] = "signal" /\ WorkerSignal(w) /\ Goto(w, "none")
<1>1. CASE WorkerLoop(w)
  BY <1>1 DEF WorkerLoop
<1>2. CASE WorkerIdle(w)
  BY <1>2 DEF WorkerIdle
<1>3. CASE WorkerWake(w)
  BY <1>3 DEF WorkerWake
<1>4. CASE WorkerExpire(w)
  BY <1>4 DEF WorkerExpire
<1>5. CASE WorkerUnidle(w)
  BY <1>5 DEF WorkerUnidle
<1>6. CASE WorkerCheck(w)
  BY <1>6 DEF WorkerCheck
<1>7. CASE WorkerPop(w)
  BY <1>7 DEF WorkerPop
<1>8. CASE WorkerHandled(w)
  BY <1>8 DEF WorkerHandled
<1>9. CASE WorkerExit(w)
  BY <1>9 DEF WorkerExit
<1>10. CASE WorkerSignal(w)
  BY <1>10 DEF WorkerSignal
<1> QED
  BY <1>1, <1>2, <1>3, <1>4, <1>5, <1>6, <1>7, <1>8, <1>9, <1>10 DEF WorkerStep

\* A worker leaves the dispatchers and thrmgr_destroy alone, and each of the
\* pool's fields has the worker steps that change it.
LEMMA WorkerKeeps ==
  ASSUME NEW w \in Workers, WorkerStep(w)
  PROVE  /\ UNCHANGED <<state, pool_mutex, freed, dpc, djob, xpc, result, added>>
         /\ WorkerPop(w) \/ UNCHANGED <<queue, popped>>
         /\ WorkerWake(w) \/ UNCHANGED pool_sig_sem
         /\ WorkerSignal(w) \/ UNCHANGED pool_sem
         /\ WorkerExit(w) \/ UNCHANGED thr_alive
         /\ WorkerIdle(w) \/ WorkerUnidle(w) \/ UNCHANGED thr_idle
<1>1. CASE WorkerLoop(w) \/ WorkerExpire(w) \/ WorkerCheck(w) \/ WorkerHandled(w)
  BY <1>1 DEF WorkerLoop, WorkerExpire, WorkerCheck, WorkerHandled, poolVars
<1>2. CASE WorkerIdle(w)
  BY <1>2 DEF WorkerIdle
<1>3. CASE WorkerWake(w)
  BY <1>3 DEF WorkerWake
<1>4. CASE WorkerUnidle(w)
  BY <1>4 DEF WorkerUnidle
<1>5. CASE WorkerPop(w)
  BY <1>5 DEF WorkerPop
<1>6. CASE WorkerExit(w)
  BY <1>6 DEF WorkerExit
<1>7. CASE WorkerSignal(w)
  BY <1>7 DEF WorkerSignal
<1> QED
  BY <1>1, <1>2, <1>3, <1>4, <1>5, <1>6, <1>7 DEF WorkerStep

\* The same of a dispatcher ...
LEMMA DispatchKeeps ==
  ASSUME NEW d \in Dispatchers, DispatchStep(d)
  PROVE  /\ UNCHANGED <<state, xpc, freed, pool_sem, popped, thr_idle>>
         /\ DispatchSpawn(d) \/ UNCHANGED <<wpc, thr_alive>>
         /\ (\E j \in Jobs : DispatchAdd(d, j)) \/ UNCHANGED <<queue, added>>
         /\ DispatchPost(d) \/ UNCHANGED pool_sig_sem
BY DEF DispatchStep, DispatchRefuse, DispatchAdd, DispatchSpawn,
       DispatchNoSpawn, DispatchSpawnFail, DispatchPost, poolVars

\* ... and of thrmgr_destroy.
LEMMA DestroyKeeps ==
  ASSUME DestroyStep
  PROVE  /\ UNCHANGED <<wpc, thr_alive, thr_idle, pool_mutex, dpc, djob, result,
                        added, popped>>
         /\ DestroyFree \/ UNCHANGED <<queue, freed>>
         /\ DestroyFree => freed'
BY DEF DestroyStep, DestroyBegin, DestroyNotify, DestroyWait, DestroyFree

-----------------------------------------------------------------------------
(* The inductive invariant *)

\* Only the owner of the mutex is inside the locked part of thrmgr_dispatch.
MutexOwner == \A d \in Dispatchers : dpc[d] = "spawn" <=> pool_mutex = d

\* Callers inside thrmgr_dispatch have a job each, and no two the same.
CallsDistinct ==
  /\ \A d \in Dispatchers :
       dpc[d] # "idle" => djob[d] \in Jobs /\ result[djob[d]] = "calling"
  /\ \A d, e \in Dispatchers :
       dpc[d] # "idle" /\ dpc[e] # "idle" /\ djob[d] = djob[e] => d = e

\* The pool is marked as exiting by thrmgr_destroy alone, and freed at its end.
ExitMarked == /\ (state = "POOL_EXIT" <=> xpc # "no")
              /\ freed => xpc = "done"

\* After the last worker's decision no dispatcher can still create a worker.
NoLateSpawn ==
  pool_sem > 0 \/ At({"signal"}) # {} => DispatchersAt({"spawn"}) = {}

\* A job that was ever queued is not new.
AddedKnown == \A i \in DOMAIN added : result[added[i]] # "new"

Shutdown == ExitMarked /\ NoLateSpawn /\ LastSignal /\ DestroyQuiet

IInv ==
  /\ TypeOK /\ AliveCount /\ IdleCount
  /\ MutexOwner /\ CallsDistinct
  /\ SignalBalance /\ PopFindsJob
  /\ Shutdown
  /\ FifoOnce /\ AddedKnown

\* The invariant holds of a new pool.
LEMMA InitInv == Init => IInv
<1> SUFFICES ASSUME Init PROVE IInv
  OBVIOUS
<1>1. TypeOK
  BY SeqEmpty DEF Init, TypeOK, WorkerPc
<1>2. /\ At(Counted) = {} /\ At({"wait", "woken", "expired"}) = {}
      /\ At({"woken", "check", "pop"}) = {} /\ At({"pop"}) = {} /\ At({"signal"}) = {}
      /\ DispatchersAt({"spawn", "post"}) = {} /\ JobsWith("unsignalled") = {}
  BY DEF Init, At, DispatchersAt, JobsWith, Counted, WorkerPc
<1>3. /\ Cardinality(At(Counted)) = 0
      /\ Cardinality(At({"wait", "woken", "expired"})) = 0
      /\ Cardinality(At({"woken", "check", "pop"})) = 0
      /\ Cardinality(At({"pop"})) = 0
      /\ Cardinality(DispatchersAt({"spawn", "post"})) = 0
      /\ Cardinality(JobsWith("unsignalled")) = 0
  BY <1>2, FS_EmptySet, Zenon
<1>4. AliveCount /\ IdleCount /\ SignalBalance /\ PopFindsJob
  <2>1. thr_alive = 0 /\ thr_idle = 0 /\ Len(queue) = 0 /\ pool_sig_sem = 0
    BY SeqEmpty DEF Init
  <2> QED
    BY <1>3, <2>1, PoolAssumption DEF AliveCount, IdleCount, SignalBalance, PopFindsJob
<1>5. MutexOwner /\ CallsDistinct
  BY PoolAssumption DEF Init, MutexOwner, CallsDistinct
<1>6. Shutdown
  BY <1>2 DEF Init, Shutdown, ExitMarked, NoLateSpawn, LastSignal, DestroyQuiet
<1>7. FifoOnce /\ AddedKnown
  <2>1. queue = <<>> /\ popped = <<>> /\ added = <<>>
    BY DEF Init
  <2> QED
    BY <2>1, SeqEmpty DEF FifoOnce, AddedKnown
<1> QED
  BY <1>1, <1>4, <1>5, <1>6, <1>7 DEF IInv

-----------------------------------------------------------------------------
(* The queue *)

\* None of the results a dispatch can get makes its job new again.
LEMMA ResultsNotNew == "refused" # "new" /\ "unsignalled" # "new" /\ "accepted" # "new"
BY SMT

\* What was added is what was popped followed by what is queued.
LEMMA FifoInv ==
  ASSUME TypeOK, Shutdown, FifoOnce, AddedKnown, CallsDistinct, Next
  PROVE  FifoOnce' /\ AddedKnown'
<1> USE DEF FifoOnce, AddedKnown
<1>0. queue \in Seq(Jobs) /\ popped \in Seq(Jobs) /\ added \in Seq(Jobs)
  BY DEF TypeOK
<1>1. ASSUME NEW w \in Workers, WorkerPop(w)
      PROVE  FifoOnce' /\ AddedKnown'
  <2>1. UNCHANGED <<added, result, freed>> /\ ~freed
    BY ZenonT(30), <1>1 DEF WorkerPop, Shutdown, ExitMarked, DestroyQuiet, At, Counted, WorkerPc
  <2>2. CASE queue = <<>>
    <3>1. UNCHANGED <<queue, popped>>
      BY <1>1, <2>2 DEF WorkerPop
    <3> QED
      BY <2>1, <3>1
  <2>3. CASE queue # <<>>
    <3>1. /\ popped' = Append(popped, Head(queue)) /\ queue' = Tail(queue)
          /\ popped' \in Seq(Jobs) /\ queue' \in Seq(Jobs)
      <4>1. popped' = Append(popped, Head(queue)) /\ queue' = Tail(queue)
        BY <1>1, <2>3 DEF WorkerPop
      <4>2. Head(queue) \in Jobs /\ Tail(queue) \in Seq(Jobs)
        BY <1>0, <2>3, SeqTail
      <4>3. Append(popped, Head(queue)) \in Seq(Jobs)
        BY <1>0, <4>2, SeqAppend
      <4> QED
        BY <4>1, <4>2, <4>3
    <3>2. added = popped' \o queue'
      <4>1. popped \o queue = Append(popped, Head(queue)) \o Tail(queue)
        BY <1>0, <2>3, HeadMoves
      <4> QED
        BY <2>1, <3>1, <4>1
    <3>3. \A i \in DOMAIN popped' : i \in DOMAIN added /\ popped'[i] = added[i]
      BY <3>1, <3>2, SeqConcat
    <3> QED
      BY <2>1, <3>2, <3>3
  <2> QED
    BY ZenonT(30), <2>2, <2>3
<1>2. ASSUME NEW d \in Dispatchers, NEW j \in Jobs, DispatchAdd(d, j)
      PROVE  FifoOnce' /\ AddedKnown'
  <2>1. /\ added' = Append(added, j) /\ queue' = Append(queue, j)
        /\ UNCHANGED <<popped, freed>> /\ ~freed
        /\ result' = [result EXCEPT ![j] = "calling"] /\ result[j] = "new"
    BY <1>2 DEF DispatchAdd, MayCall, QueueAdd
  <2>2. added' = popped' \o queue'
    <3>1. added = popped \o queue
      BY <2>1
    <3>2. popped \in Seq(Jobs) /\ queue \in Seq(Jobs)
      BY <1>0
    <3>3. Append(popped \o queue, j) = popped \o Append(queue, j)
      BY ONLY <3>2, j \in Jobs
    <3> QED
      BY ONLY <2>1, <3>1, <3>3
  <2>3. \A i \in DOMAIN added : added[i] # j /\ added[i] \in Jobs
    BY <1>0, <2>1, SeqLength
  <2>4. /\ \A i, k \in DOMAIN added' : added'[i] = added'[k] => i = k
        /\ \A i \in DOMAIN added : i \in DOMAIN added' /\ added'[i] = added[i]
        /\ \A i \in DOMAIN added' : i \in DOMAIN added \/ added'[i] = j
    <3>1. \A i, k \in DOMAIN added : added[i] = added[k] => i = k
      OBVIOUS
    <3>2. /\ \A i, k \in DOMAIN Append(added, j) :
               Append(added, j)[i] = Append(added, j)[k] => i = k
          /\ \A i \in DOMAIN added :
               i \in DOMAIN Append(added, j) /\ Append(added, j)[i] = added[i]
          /\ \A i \in DOMAIN Append(added, j) :
               i \in DOMAIN added \/ Append(added, j)[i] = j
      BY ONLY <1>0, <2>3, <3>1, SeqJoinsOnce, j \in Jobs
    <3> QED
      BY ONLY <2>1, <3>2
  <2>5. AddedKnown'
    <3>1. result'[j] # "new" /\ \A k \in Jobs : k # j => result'[k] = result[k]
      BY <2>1 DEF TypeOK
    <3> QED
      BY <2>3, <2>4, <3>1
  <2>6. \A i \in DOMAIN popped : i \in DOMAIN added' /\ popped[i] = added'[i]
    <3>1. \A i \in DOMAIN popped : i \in DOMAIN added /\ popped[i] = added[i]
      OBVIOUS
    <3> QED
      BY ONLY <2>4, <3>1
  <2> QED
    BY <2>1, <2>2, <2>4, <2>5, <2>6
<1>3. ASSUME UNCHANGED <<added, popped>>,
             freed' \/ UNCHANGED <<queue, freed>>,
             UNCHANGED result \/ \E j, v : result' = [result EXCEPT ![j] = v] /\ v # "new"
      PROVE  FifoOnce' /\ AddedKnown'
  <2>1. FifoOnce'
    BY <1>3
  <2>2. \A j \in Jobs : result[j] # "new" => result'[j] # "new"
    <3>1. ASSUME NEW i, NEW v, result' = [result EXCEPT ![i] = v], v # "new", NEW j \in Jobs,
                 result[j] # "new"
          PROVE  result'[j] # "new"
      <4>1. j \in DOMAIN result
        BY DEF TypeOK
      <4> QED
        BY ONLY <3>1, <4>1
    <3> QED
      BY <1>3, <3>1
  <2>3. AddedKnown'
    <3>1. \A i \in DOMAIN added : added[i] \in Jobs
      BY <1>0, SeqLength
    <3>2. \A i \in DOMAIN added : result[added[i]] # "new"
      OBVIOUS
    <3>3. \A i \in DOMAIN added : result'[added[i]] # "new"
      BY ONLY <2>2, <3>1, <3>2
    <3> QED
      BY <1>3, <3>3
  <2> QED
    BY <2>1, <2>3
<1>4. ASSUME NEW w \in Workers, WorkerStep(w), ~WorkerPop(w)
      PROVE  UNCHANGED <<added, popped, queue, freed, result>>
  BY <1>4, WorkerKeeps
<1>5. ASSUME NEW d \in Dispatchers, DispatchStep(d),
             \A j \in Jobs : ~DispatchAdd(d, j)
      PROVE  /\ UNCHANGED <<added, popped, queue, freed>>
             /\ UNCHANGED result \/ \E j, v : result' = [result EXCEPT ![j] = v] /\ v # "new"
  <2>1. UNCHANGED <<added, popped, queue, freed>>
    BY <1>5, DispatchKeeps
  <2>2. \/ UNCHANGED result
        \/ \E j \in Jobs : result' = [result EXCEPT ![j] = "refused"]
        \/ result' = [result EXCEPT ![djob[d]] = "unsignalled"]
        \/ result' = [result EXCEPT ![djob[d]] = "accepted"]
    BY ZenonT(30), <1>5 DEF DispatchStep, DispatchRefuse, DispatchSpawn, DispatchNoSpawn,
                DispatchSpawnFail, DispatchPost
  <2> QED
    BY <2>1, <2>2, ResultsNotNew, Zenon
<1>6. ASSUME DestroyStep
      PROVE  UNCHANGED <<added, popped, result>> /\ (freed' \/ UNCHANGED <<queue, freed>>)
  BY <1>6, DestroyKeeps
<1> QED
  BY ZenonT(30), <1>1, <1>2, <1>3, <1>4, <1>5, <1>6 DEF Next

-----------------------------------------------------------------------------
(* The dispatchers and their lock *)

\* Workers and thrmgr_destroy change nothing that belongs to a dispatcher.
LEMMA OthersKeepCalls ==
  ASSUME (\E w \in Workers : WorkerStep(w)) \/ DestroyStep
  PROVE  UNCHANGED <<pool_mutex, dpc, djob, result, added>>
BY WorkerKeeps, DestroyKeeps

\* The mutex has the owner its dispatcher's program point says, and callers
\* inside thrmgr_dispatch keep jobs of their own.
LEMMA CallsInv ==
  ASSUME TypeOK, MutexOwner, CallsDistinct, Next
  PROVE  MutexOwner' /\ CallsDistinct'
<1>0. /\ dpc \in [Dispatchers -> {"idle", "spawn", "post"}]
      /\ djob \in [Dispatchers -> Jobs \cup {NoJob}]
      /\ result \in [Jobs -> {"new", "calling", "refused", "unsignalled", "accepted"}]
      /\ Nobody \notin Dispatchers
  BY PoolAssumption DEF TypeOK
<1>1. ASSUME (\E w \in Workers : WorkerStep(w)) \/ DestroyStep
      PROVE  MutexOwner' /\ CallsDistinct'
  <2>1. UNCHANGED <<pool_mutex, dpc, djob, result>>
    BY <1>1, OthersKeepCalls
  <2> QED
    BY <2>1 DEF MutexOwner, CallsDistinct
<1>2. ASSUME NEW d \in Dispatchers, DispatchStep(d)
      PROVE  MutexOwner' /\ CallsDistinct'
  <2>1. ASSUME NEW j \in Jobs, DispatchRefuse(d, j)
        PROVE  MutexOwner' /\ CallsDistinct'
    <3>1. /\ UNCHANGED <<pool_mutex, dpc, djob>> /\ result[j] = "new"
          /\ result' = [result EXCEPT ![j] = "refused"]
      BY <2>1 DEF DispatchRefuse, MayCall, poolVars
    <3> QED
      BY ONLY <1>0, <3>1, MutexOwner, CallsDistinct, j \in Jobs DEF MutexOwner, CallsDistinct
  <2>2. ASSUME NEW j \in Jobs, DispatchAdd(d, j)
        PROVE  MutexOwner' /\ CallsDistinct'
    <3>1. /\ pool_mutex = Nobody /\ pool_mutex' = d /\ result[j] = "new"
          /\ dpc' = [dpc EXCEPT ![d] = "spawn"] /\ djob' = [djob EXCEPT ![d] = j]
          /\ result' = [result EXCEPT ![j] = "calling"]
      BY <2>2 DEF DispatchAdd, MayCall, MutexFree
    <3>2. MutexOwner'
      BY ONLY <1>0, <3>1, MutexOwner, d \in Dispatchers DEF MutexOwner
    <3>3. CallsDistinct'
      BY ONLY <1>0, <3>1, CallsDistinct, d \in Dispatchers, j \in Jobs DEF CallsDistinct
    <3> QED
      BY <3>2, <3>3
  <2>3. CASE DispatchSpawn(d) \/ DispatchNoSpawn(d)
    <3>1. UNCHANGED <<djob, result>>
      BY <2>3 DEF DispatchSpawn, DispatchNoSpawn
    <3>2. /\ dpc[d] = "spawn" /\ pool_mutex' = Nobody
          /\ dpc' = [dpc EXCEPT ![d] = "post"]
      BY <2>3 DEF DispatchSpawn, DispatchNoSpawn
    <3>3. MutexOwner'
      BY ONLY <1>0, <3>2, MutexOwner, d \in Dispatchers DEF MutexOwner
    <3>4. CallsDistinct'
      BY ONLY <1>0, <3>1, <3>2, CallsDistinct, d \in Dispatchers DEF CallsDistinct
    <3> QED
      BY <3>3, <3>4
  <2>4. CASE DispatchSpawnFail(d) \/ DispatchPost(d)
    <3>1. /\ \/ dpc[d] = "spawn" /\ pool_mutex' = Nobody
             \/ dpc[d] = "post" /\ pool_mutex' = pool_mutex
          /\ dpc' = [dpc EXCEPT ![d] = "idle"] /\ djob' = [djob EXCEPT ![d] = NoJob]
      BY <2>4 DEF DispatchSpawnFail, DispatchPost
    <3>2. \E v : result' = [result EXCEPT ![djob[d]] = v]
      BY <2>4 DEF DispatchSpawnFail, DispatchPost
    <3>3. MutexOwner'
      BY ONLY <1>0, <3>1, MutexOwner, d \in Dispatchers DEF MutexOwner
    <3>4. CallsDistinct'
      BY ONLY <1>0, <3>1, <3>2, CallsDistinct, d \in Dispatchers DEF CallsDistinct
    <3> QED
      BY <3>3, <3>4
  <2> QED
    BY <1>2, <2>1, <2>2, <2>3, <2>4 DEF DispatchStep
<1> QED
  BY <1>1, <1>2 DEF Next

-----------------------------------------------------------------------------
(* Counting *)

One(v, S) == IF v \in S THEN 1 ELSE 0

\* Dispatcher d goes to pc; the dispatch of job j has the result v.
CallGoto(d, pc) == dpc' = [dpc EXCEPT ![d] = pc]
Returns(j, v) == result' = [result EXCEPT ![j] = v]

\* B differs from the finite set A in x alone, and its size accordingly.
Moved(A, B, x) ==
  /\ Cardinality(A) \in Nat /\ Cardinality(B) \in Nat
  /\ Cardinality(B) = Cardinality(A) + One(x, B) - One(x, A)

\* The size of a set after one element joined it, left it or neither.
LEMMA SetMoves ==
  ASSUME NEW A, NEW B, NEW x, IsFiniteSet(A), B \ {x} = A \ {x}
  PROVE  Moved(A, B, x)
<1>1. B = IF x \in B THEN A \cup {x} ELSE A \ {x}
  OBVIOUS
<1>2. /\ Cardinality(A) \in Nat
      /\ IsFiniteSet(A \cup {x}) /\ IsFiniteSet(A \ {x})
      /\ Cardinality(A \cup {x}) = IF x \in A THEN Cardinality(A) ELSE Cardinality(A) + 1
      /\ Cardinality(A \ {x}) = IF x \in A THEN Cardinality(A) - 1 ELSE Cardinality(A)
  BY FS_CardinalityType, FS_AddElement, FS_RemoveElement
<1>3. Cardinality(B) \in Nat
  BY <1>1, <1>2, FS_CardinalityType
<1>4. Cardinality(B) = IF x \in B THEN Cardinality(A \cup {x}) ELSE Cardinality(A \ {x})
  BY <1>1
<1>5. Cardinality(B) = Cardinality(A) + One(x, B) - One(x, A)
  BY ONLY <1>2, <1>4, IsFiniteSet(A) DEF One
<1> QED
  BY <1>2, <1>3, <1>5 DEF Moved

\* The number of workers at some points when one worker moves ...
LEMMA WorkerMoves ==
  ASSUME TypeOK, NEW w \in Workers, NEW pc, Goto(w, pc), NEW S
  PROVE  /\ Cardinality(At(S)) \in Nat /\ Cardinality(At(S))' \in Nat
         /\ Cardinality(At(S))' = Cardinality(At(S)) + One(pc, S) - One(wpc[w], S)
<1>1. IsFiniteSet(At(S))
  BY PoolAssumption, FS_Subset DEF At
<1>2. /\ At(S)' \ {w} = At(S) \ {w}
      /\ w \in At(S) <=> wpc[w] \in S
      /\ w \in At(S)' <=> pc \in S
  BY DEF TypeOK, At, Goto
<1>3. Moved(At(S), At(S)', w)
  BY <1>1, <1>2, SetMoves
<1> QED
  BY <1>2, <1>3 DEF Moved, One

\* ... of dispatchers when one dispatcher moves ...
LEMMA DispatcherMoves ==
  ASSUME TypeOK, NEW d \in Dispatchers, NEW pc, CallGoto(d, pc), NEW S
  PROVE  /\ Cardinality(DispatchersAt(S)) \in Nat /\ Cardinality(DispatchersAt(S))' \in Nat
         /\ Cardinality(DispatchersAt(S))' = Cardinality(DispatchersAt(S)) + One(pc, S) - One(dpc[d], S)
<1>1. IsFiniteSet(DispatchersAt(S))
  BY PoolAssumption, FS_Subset DEF DispatchersAt
<1>2. /\ DispatchersAt(S)' \ {d} = DispatchersAt(S) \ {d}
      /\ d \in DispatchersAt(S) <=> dpc[d] \in S
      /\ d \in DispatchersAt(S)' <=> pc \in S
  BY DEF TypeOK, DispatchersAt, CallGoto
<1>3. Moved(DispatchersAt(S), DispatchersAt(S)', d)
  BY <1>1, <1>2, SetMoves
<1> QED
  BY <1>2, <1>3 DEF Moved, One

\* ... and of jobs with some result when one result is set.
LEMMA ResultMoves ==
  ASSUME TypeOK, NEW j \in Jobs, NEW v, Returns(j, v), NEW r
  PROVE  /\ Cardinality(JobsWith(r)) \in Nat /\ Cardinality(JobsWith(r))' \in Nat
         /\ Cardinality(JobsWith(r))' = Cardinality(JobsWith(r)) + One(v, {r}) - One(result[j], {r})
<1>1. IsFiniteSet(JobsWith(r))
  BY PoolAssumption, FS_Subset DEF JobsWith
<1>2. /\ JobsWith(r)' \ {j} = JobsWith(r) \ {j}
      /\ j \in JobsWith(r) <=> result[j] \in {r}
      /\ j \in JobsWith(r)' <=> v \in {r}
  BY DEF TypeOK, JobsWith, Returns
<1>3. Moved(JobsWith(r), JobsWith(r)', j)
  BY <1>1, <1>2, SetMoves
<1> QED
  BY <1>2, <1>3 DEF Moved, One

\* The counts are natural numbers.
LEMMA CountsNat ==
  ASSUME TypeOK, NEW S, NEW r
  PROVE  /\ IsFiniteSet(At(S)) /\ Cardinality(At(S)) \in Nat
         /\ IsFiniteSet(DispatchersAt(S)) /\ Cardinality(DispatchersAt(S)) \in Nat
         /\ Cardinality(JobsWith(r)) \in Nat
BY PoolAssumption, FS_Subset, FS_CardinalityType DEF At, DispatchersAt, JobsWith

-----------------------------------------------------------------------------
(* Counters *)

\* thr_alive follows the threads that are alive.
LEMMA AliveInv ==
  ASSUME TypeOK, AliveCount, Next
  PROVE  AliveCount' /\ thr_alive' \in Nat
<1>1. ASSUME NEW w \in Workers, WorkerStep(w)
      PROVE  AliveCount' /\ thr_alive' \in Nat
  <2>1. CASE WorkerExit(w)
    <3>1. PICK pc \in {"signal", "none"} : Goto(w, pc)
      BY <2>1 DEF WorkerExit, AfterExit
    <3>2. One(pc, Counted) = 0 /\ One(wpc[w], Counted) = 1
      BY <2>1 DEF WorkerExit, One, Counted, WorkerPc
    <3>3. thr_alive' = thr_alive - 1
      BY <2>1 DEF WorkerExit
    <3> QED
      BY <3>1, <3>2, <3>3, WorkerMoves, PoolAssumption DEF AliveCount
  <2>2. CASE ~WorkerExit(w)
    <3>1. PICK pc \in WorkerPc : Goto(w, pc) /\ (pc \in Counted <=> wpc[w] \in Counted)
      BY <1>1, <2>2, WorkerEdges DEF AfterCheck, Counted, WorkerPc
    <3>2. thr_alive' = thr_alive
      BY <1>1, <2>2, WorkerKeeps
    <3>3. One(pc, Counted) = One(wpc[w], Counted)
      BY <3>1 DEF One
    <3> QED
      BY <3>1, <3>2, <3>3, WorkerMoves DEF AliveCount, TypeOK, One
  <2> QED
    BY <2>1, <2>2
<1>2. ASSUME NEW d \in Dispatchers, DispatchSpawn(d)
      PROVE  AliveCount' /\ thr_alive' \in Nat
  <2>1. PICK w \in Workers : wpc[w] = "none" /\ Goto(w, "loop")
    BY <1>2 DEF DispatchSpawn, At
  <2>2. One("loop", Counted) = 1 /\ One(wpc[w], Counted) = 0
    BY <2>1 DEF One, Counted, WorkerPc
  <2>3. thr_alive' = thr_alive + 1 /\ thr_alive < thr_max
    BY <1>2 DEF DispatchSpawn, WantsThread, AliveAfterSpawn
  <2> QED
    BY <2>1, <2>2, <2>3, WorkerMoves, PoolAssumption DEF AliveCount, TypeOK
<1>3. ASSUME UNCHANGED <<wpc, thr_alive>>
      PROVE  AliveCount' /\ thr_alive' \in Nat
  BY <1>3 DEF AliveCount, At, TypeOK
<1>4. ASSUME NEW d \in Dispatchers, DispatchStep(d), ~DispatchSpawn(d)
      PROVE  UNCHANGED <<wpc, thr_alive>>
  BY <1>4, DispatchKeeps
<1>5. ASSUME DestroyStep
      PROVE  UNCHANGED <<wpc, thr_alive>>
  BY <1>5, DestroyKeeps
<1> QED
  BY <1>1, <1>2, <1>3, <1>4, <1>5 DEF Next

\* thr_idle follows the threads around the wait.
LEMMA IdleInv ==
  ASSUME TypeOK, IdleCount, Next
  PROVE  IdleCount' /\ thr_idle' \in Nat
<1> DEFINE S == {"wait", "woken", "expired"}
<1>1. ASSUME NEW w \in Workers, WorkerIdle(w)
      PROVE  IdleCount' /\ thr_idle' \in Nat
  <2>1. Goto(w, "wait") /\ One("wait", S) = 1 /\ One(wpc[w], S) = 0
    BY <1>1 DEF WorkerIdle, One
  <2>2. thr_idle' = thr_idle + 1
    BY <1>1 DEF WorkerIdle, IdleBeforeWait
  <2> QED
    BY <2>1, <2>2, WorkerMoves DEF IdleCount, TypeOK
<1>2. ASSUME NEW w \in Workers, WorkerUnidle(w)
      PROVE  IdleCount' /\ thr_idle' \in Nat
  <2>1. PICK pc \in {"check", "exit"} : Goto(w, pc)
    BY <1>2 DEF WorkerUnidle
  <2>2. One(pc, S) = 0 /\ One(wpc[w], S) = 1
    BY <1>2 DEF WorkerUnidle, One
  <2>3. thr_idle' = thr_idle - 1
    BY <1>2 DEF WorkerUnidle, IdleAfterWait
  <2> QED
    BY <2>1, <2>2, <2>3, WorkerMoves DEF IdleCount
<1>3. ASSUME NEW w \in Workers, NEW pc, Goto(w, pc), pc \in S <=> wpc[w] \in S,
             thr_idle' = thr_idle
      PROVE  IdleCount' /\ thr_idle' \in Nat
  <2>1. One(pc, S) = One(wpc[w], S)
    BY <1>3 DEF One
  <2> QED
    BY <1>3, <2>1, WorkerMoves DEF IdleCount, TypeOK, One
<1>4. ASSUME NEW w \in Workers, WorkerStep(w), ~WorkerIdle(w), ~WorkerUnidle(w)
      PROVE  IdleCount' /\ thr_idle' \in Nat
  <2>1. \E pc \in WorkerPc : Goto(w, pc) /\ (pc \in S <=> wpc[w] \in S)
    BY <1>4, WorkerEdges DEF AfterCheck, AfterExit, WorkerPc
  <2>2. thr_idle' = thr_idle
    BY <1>4, WorkerKeeps
  <2> QED
    BY <1>3, <2>1, <2>2
<1>5. ASSUME NEW d \in Dispatchers, DispatchSpawn(d)
      PROVE  IdleCount' /\ thr_idle' \in Nat
  BY <1>3, <1>5 DEF DispatchSpawn, At
<1>6. ASSUME UNCHANGED <<wpc, thr_idle>>
      PROVE  IdleCount' /\ thr_idle' \in Nat
  BY <1>6 DEF IdleCount, At, TypeOK
<1>7. ASSUME NEW d \in Dispatchers, DispatchStep(d), ~DispatchSpawn(d)
      PROVE  UNCHANGED <<wpc, thr_idle>>
  BY <1>7, DispatchKeeps
<1>8. ASSUME DestroyStep
      PROVE  UNCHANGED <<wpc, thr_idle>>
  BY <1>8, DestroyKeeps
<1> QED
  BY <1>1, <1>2, <1>4, <1>5, <1>6, <1>7, <1>8 DEF Next

\* Every step keeps the types; the two decrements rely on the counts.
LEMMA TypeInv ==
  ASSUME TypeOK, AliveCount, IdleCount, Next
  PROVE  TypeOK'
<1> USE DEF TypeOK
<1>0. thr_alive' \in Nat /\ thr_idle' \in Nat
  BY AliveInv, IdleInv
<1>1. ASSUME NEW w \in Workers, WorkerStep(w)
      PROVE  TypeOK'
  <2>1. wpc' \in [Workers -> WorkerPc]
    <3>1. PICK pc \in WorkerPc : Goto(w, pc)
      BY <1>1, WorkerEdges DEF AfterCheck, AfterExit, WorkerPc
    <3> QED
      BY <3>1 DEF Goto
  <2>2. CASE WorkerPop(w)
    <3>1. queue # <<>> => /\ Head(queue) \in Jobs /\ Tail(queue) \in Seq(Jobs)
                          /\ Append(popped, Head(queue)) \in Seq(Jobs)
      BY SeqTail, SeqAppend
    <3> QED
      BY ZenonT(30), <1>0, <2>1, <2>2, <3>1 DEF WorkerPop
  <2>3. CASE WorkerWake(w) \/ WorkerSignal(w)
    <3>1. pool_sig_sem' \in Nat /\ pool_sem' \in Nat
      BY <2>3 DEF WorkerWake, WorkerSignal, SemReady, SemTake, SemPost
    <3> QED
      BY <1>0, <2>1, <2>3, <3>1 DEF WorkerWake, WorkerSignal
  <2>4. CASE ~WorkerPop(w) /\ ~WorkerWake(w) /\ ~WorkerSignal(w)
    BY <1>0, <1>1, <2>1, <2>4, WorkerKeeps
  <2> QED
    BY <2>2, <2>3, <2>4
<1>2. ASSUME NEW d \in Dispatchers, DispatchStep(d)
      PROVE  TypeOK'
  <2>1. ASSUME NEW j \in Jobs, DispatchRefuse(d, j) \/ DispatchAdd(d, j)
        PROVE  TypeOK'
    <3>1. Append(queue, j) \in Seq(Jobs) /\ Append(added, j) \in Seq(Jobs)
      BY SeqAppend
    <3> QED
      BY ZenonT(30), <1>0, <2>1, <3>1 DEF DispatchRefuse, DispatchAdd, QueueAdd, poolVars
  <2>2. CASE DispatchSpawn(d)
    <3>1. wpc' \in [Workers -> WorkerPc]
      BY <2>2 DEF DispatchSpawn, Goto, WorkerPc, At
    <3> QED
      BY <1>0, <2>2, <3>1 DEF DispatchSpawn
  <2>3. CASE DispatchNoSpawn(d) \/ DispatchSpawnFail(d)
    BY <1>0, <2>3 DEF DispatchNoSpawn, DispatchSpawnFail
  <2>4. CASE DispatchPost(d)
    <3>1. pool_sig_sem' \in Nat
      BY <2>4 DEF DispatchPost, SemPost
    <3> QED
      BY <1>0, <2>4, <3>1 DEF DispatchPost
  <2> QED
    BY <1>2, <2>1, <2>2, <2>3, <2>4 DEF DispatchStep
<1>3. ASSUME DestroyStep
      PROVE  TypeOK'
  <2>1. CASE DestroyBegin
    BY <1>0, <2>1 DEF DestroyBegin
  <2>2. CASE DestroyNotify
    <3>1. pool_sig_sem' \in Nat
      BY <2>2 DEF DestroyNotify, ExitSignals
    <3> QED
      BY <1>0, <2>2, <3>1 DEF DestroyNotify, AfterNotify
  <2>3. CASE DestroyWait
    <3>1. pool_sem' \in Nat
      BY <2>3 DEF DestroyWait, SemReady, SemTake
    <3> QED
      BY <1>0, <2>3, <3>1 DEF DestroyWait
  <2>4. CASE DestroyFree
    BY <1>0, <2>4, SeqEmpty DEF DestroyFree
  <2> QED
    BY <1>3, <2>1, <2>2, <2>3, <2>4 DEF DestroyStep
<1> QED
  BY <1>1, <1>2, <1>3 DEF Next

-----------------------------------------------------------------------------
(* Shutdown *)

\* A pool with no live thread has no worker at a counted point.
LEMMA NoneAlive ==
  ASSUME TypeOK, AliveCount
  PROVE  thr_alive = 0 <=> At(Counted) = {}
<1>1. IsFiniteSet(At(Counted))
  BY CountsNat
<1> QED
  BY <1>1, FS_EmptySet DEF AliveCount

\* The order of the shutdown: exit mark, signals, last exit, post, free.
LEMMA ShutdownInv ==
  ASSUME TypeOK, AliveCount, MutexOwner, Shutdown, Next
  PROVE  Shutdown'
<1> USE DEF Shutdown, ExitMarked, NoLateSpawn, LastSignal, DestroyQuiet
<1>0. MutexFree => DispatchersAt({"spawn"}) = {}
  BY PoolAssumption DEF MutexFree, MutexOwner, DispatchersAt
<1>1. ASSUME NEW w \in Workers, WorkerStep(w)
      PROVE  Shutdown'
  <2>1. UNCHANGED <<state, xpc, freed, dpc>> /\ DispatchersAt({"spawn"})' = DispatchersAt({"spawn"})
    BY <1>1, WorkerKeeps DEF DispatchersAt
  <2>2. CASE WorkerExit(w)
    <3>1. w \in At(Counted)
      BY <2>2 DEF WorkerExit, At, Counted, WorkerPc
    <3>2. pool_sem = 0 /\ At({"signal"}) = {} /\ xpc \notin {"free", "done"}
      BY <3>1, NoneAlive DEF TypeOK
    <3>3. /\ pool_sem' = pool_sem
          /\ thr_alive' = thr_alive - 1
          /\ At({"signal"})' # {} => thr_alive = 1 /\ state = "POOL_EXIT"
      BY <2>2, <3>2 DEF WorkerExit, AfterExit, At, Goto, TypeOK
    <3>4. DispatchersAt({"spawn"}) = {}
      BY <1>0, <2>2 DEF WorkerExit
    <3> QED
      BY <2>1, <3>2, <3>3, <3>4
  <2>3. CASE WorkerSignal(w)
    <3>1. w \in At({"signal"}) /\ thr_alive' = thr_alive
      BY <2>3 DEF WorkerSignal, At
    <3>2. At(Counted)' = At(Counted)
      BY <2>3 DEF WorkerSignal, At, Goto, TypeOK, Counted, WorkerPc
    <3> QED
      BY <2>1, <3>1, <3>2
  <2>4. CASE ~WorkerExit(w) /\ ~WorkerSignal(w)
    <3>1. PICK pc \in Counted : wpc[w] \in Counted /\ Goto(w, pc)
      BY <1>1, <2>4, WorkerEdges DEF AfterCheck, Counted, WorkerPc
    <3>3. /\ At({"signal"})' = At({"signal"})
          /\ At(Counted)' = At(Counted)
      <4>1. \A v \in Workers : v # w => wpc'[v] = wpc[v]
        BY <3>1 DEF Goto, TypeOK
      <4>2. wpc'[w] \in Counted /\ "signal" \notin Counted
        BY <3>1 DEF Goto, TypeOK, Counted
      <4> QED
        BY <3>1, <4>1, <4>2 DEF At
    <3>2. UNCHANGED <<thr_alive, pool_sem>>
      BY <1>1, <2>4, WorkerKeeps
    <3> QED
      BY <2>1, <3>2, <3>3
  <2> QED
    BY <2>2, <2>3, <2>4
<1>2. ASSUME NEW d \in Dispatchers, DispatchStep(d)
      PROVE  Shutdown'
  <2>0. UNCHANGED <<state, xpc, freed, pool_sem>>
    BY <1>2, DispatchKeeps
  <2>1. ASSUME NEW j \in Jobs, DispatchAdd(d, j)
        PROVE  Shutdown'
    <3>1. state = "POOL_VALID" /\ At({"signal"})' = At({"signal"})
      BY <2>1 DEF DispatchAdd, At
    <3> QED
      BY <2>0, <3>1
  <2>2. CASE DispatchSpawn(d)
    <3>1. d \in DispatchersAt({"spawn"})
      BY <2>2 DEF DispatchSpawn, DispatchersAt
    <3>2. At({"signal"})' = {}
      BY <2>2, <3>1 DEF DispatchSpawn, At, Goto, TypeOK
    <3> QED
      BY <2>0, <3>1, <3>2
  <2>3. CASE ~DispatchSpawn(d) /\ \A j \in Jobs : ~DispatchAdd(d, j)
    <3>1. /\ UNCHANGED <<wpc, thr_alive>>
          /\ DispatchersAt({"spawn"})' \subseteq DispatchersAt({"spawn"})
      BY <1>2, <2>3 DEF DispatchStep, DispatchRefuse, DispatchNoSpawn,
                        DispatchSpawnFail, DispatchPost, DispatchersAt, poolVars, TypeOK
    <3>2. At({"signal"})' = At({"signal"}) /\ At(Counted)' = At(Counted)
      BY <3>1 DEF At
    <3> QED
      BY <2>0, <3>1, <3>2
  <2> QED
    BY <2>1, <2>2, <2>3
<1>3. ASSUME DestroyStep
      PROVE  Shutdown'
  <2>0. /\ At({"signal"})' = At({"signal"}) /\ At(Counted)' = At(Counted)
        /\ DispatchersAt({"spawn"})' = DispatchersAt({"spawn"})
        /\ thr_alive' = thr_alive
    BY <1>3, DestroyKeeps DEF At, DispatchersAt
  <2>1. CASE DestroyBegin
    BY <2>0, <2>1 DEF DestroyBegin
  <2>2. CASE DestroyNotify
    <3>1. thr_alive > 0 \/ thr_alive = 0
      BY DEF TypeOK
    <3> QED
      BY <1>0, <2>0, <2>2, <3>1, NoneAlive DEF DestroyNotify, AfterNotify
  <2>3. CASE DestroyWait
    <3>1. pool_sem > 0 /\ (pool_sem' > 0 => pool_sem > 0)
      BY <2>3 DEF DestroyWait, SemReady
    <3> QED
      BY <2>0, <2>3, <3>1, NoneAlive DEF DestroyWait
  <2>4. CASE DestroyFree
    BY <2>0, <2>4 DEF DestroyFree
  <2> QED
    BY <1>3, <2>1, <2>2, <2>3, <2>4 DEF DestroyStep
<1> QED
  BY <1>1, <1>2, <1>3 DEF Next

-----------------------------------------------------------------------------
(* Signals *)

\* Every queued job keeps its signal: one step per action that touches the
\* queue, the semaphore or one of the three counts.
LEMMA BalanceInv ==
  ASSUME TypeOK, CallsDistinct, Shutdown, SignalBalance, Next
  PROVE  SignalBalance'
<1> DEFINE S == {"woken", "check", "pop"}
           D == {"spawn", "post"}
           W == Cardinality(At(S))
           C == Cardinality(DispatchersAt(D))
           U == Cardinality(JobsWith("unsignalled"))
<1>0. /\ W \in Nat /\ C \in Nat /\ U \in Nat
      /\ Len(queue) \in Nat /\ pool_sig_sem \in Nat
  BY CountsNat, SeqLength DEF TypeOK
<1>1. SUFFICES ASSUME state = "POOL_VALID", state' = "POOL_VALID"
               PROVE  Len(queue)' = pool_sig_sem' + W' + C' + U'
  <2>1. state' = "POOL_VALID" => state = "POOL_VALID"
    BY WorkerKeeps, DispatchKeeps DEF Next, DestroyStep, DestroyBegin, DestroyNotify,
       DestroyWait, DestroyFree
  <2> QED
    BY <2>1 DEF SignalBalance
<1>2. Len(queue) = pool_sig_sem + W + C + U
  BY <1>1 DEF SignalBalance
<1> HIDE DEF W, C, U
<1>3. ASSUME NEW w \in Workers, NEW pc, Goto(w, pc)
      PROVE  W' \in Nat /\ W' = W + One(pc, S) - One(wpc[w], S)
  BY <1>3, WorkerMoves DEF W
<1>4. ASSUME NEW d \in Dispatchers, NEW pc, CallGoto(d, pc)
      PROVE  C' \in Nat /\ C' = C + One(pc, D) - One(dpc[d], D)
  BY <1>4, DispatcherMoves DEF C
<1>5. ASSUME NEW j \in Jobs, NEW v, Returns(j, v)
      PROVE  U' \in Nat /\ U' = U + One(v, {"unsignalled"}) - One(result[j], {"unsignalled"})
  BY <1>5, ResultMoves DEF U
<1>6. /\ UNCHANGED wpc => W' = W
      /\ UNCHANGED dpc => C' = C
      /\ UNCHANGED result => U' = U
  BY DEF W, C, U, At, DispatchersAt, JobsWith
<1>7. ASSUME NEW w \in Workers, WorkerStep(w)
      PROVE  Len(queue)' = pool_sig_sem' + W' + C' + U'
  <2>0. C' = C /\ U' = U
    BY <1>6, <1>7, OthersKeepCalls
  <2>1. CASE WorkerWake(w)
    <3>1. /\ Goto(w, "woken") /\ One("woken", S) = 1 /\ One(wpc[w], S) = 0
          /\ pool_sig_sem' = pool_sig_sem - 1 /\ queue' = queue
      BY <2>1 DEF WorkerWake, SemTake, One
    <3> QED
      BY <1>0, <1>2, <1>3, <2>0, <3>1
  <2>2. CASE WorkerPop(w)
    <3>1. PICK pc \in {"run", "loop"} : Goto(w, pc)
      BY <2>2 DEF WorkerPop
    <3>2. One(pc, S) = 0 /\ One(wpc[w], S) = 1
      BY <2>2 DEF WorkerPop, One
    <3>3. W' \in Nat /\ W' = W - 1
      BY <1>0, <1>3, <3>1, <3>2
    <3>4. queue # <<>>
      BY <1>0, <1>2, <3>3, SeqEmpty
    <3>5. Len(queue)' = Len(queue) - 1 /\ pool_sig_sem' = pool_sig_sem
      BY <2>2, <3>4, SeqTail DEF WorkerPop, TypeOK
    <3> QED
      BY <1>0, <1>2, <2>0, <3>3, <3>5
  <2>3. CASE ~WorkerWake(w) /\ ~WorkerPop(w)
    <3>1. PICK pc \in WorkerPc : Goto(w, pc) /\ (pc \in S <=> wpc[w] \in S)
      BY <1>1, <1>7, <2>3, WorkerEdges DEF AfterCheck, AfterExit, WorkerPc
    <3>2. UNCHANGED <<queue, pool_sig_sem>>
      BY <1>7, <2>3, WorkerKeeps
    <3>3. One(pc, S) = One(wpc[w], S) /\ One(pc, S) \in Nat
      BY <3>1 DEF One
    <3> QED
      BY <1>0, <1>2, <1>3, <2>0, <3>1, <3>2, <3>3
  <2> QED
    BY <2>1, <2>2, <2>3
<1>8. ASSUME NEW d \in Dispatchers, DispatchStep(d)
      PROVE  Len(queue)' = pool_sig_sem' + W' + C' + U'
  <2>1. ASSUME NEW j \in Jobs, DispatchRefuse(d, j)
        PROVE  Len(queue)' = pool_sig_sem' + W' + C' + U'
    <3>1. /\ UNCHANGED <<queue, pool_sig_sem, wpc, dpc>>
          /\ Returns(j, "refused") /\ result[j] = "new"
      BY <2>1 DEF DispatchRefuse, MayCall, poolVars, CallGoto, Returns
    <3>2. U' = U
      BY <1>0, <1>5, <3>1 DEF One
    <3> QED
      BY <1>2, <1>6, <3>1, <3>2
  <2>2. ASSUME NEW j \in Jobs, DispatchAdd(d, j)
        PROVE  Len(queue)' = pool_sig_sem' + W' + C' + U'
    <3>1. /\ UNCHANGED <<pool_sig_sem, wpc>> /\ queue' = Append(queue, j)
          /\ CallGoto(d, "spawn") /\ dpc[d] = "idle"
          /\ Returns(j, "calling") /\ result[j] = "new"
      BY <2>2 DEF DispatchAdd, MayCall, QueueAdd, CallGoto, Returns
    <3>2. U' = U
      BY <1>0, <1>5, <3>1 DEF One
    <3>3. C' = C + 1
      BY <1>0, <1>4, <3>1 DEF One
    <3>4. Len(queue)' = Len(queue) + 1
      BY <3>1, SeqAppend DEF TypeOK
    <3> QED
      BY <1>0, <1>2, <1>6, <3>1, <3>2, <3>3, <3>4
  <2>3. CASE DispatchSpawn(d) \/ DispatchNoSpawn(d)
    <3>1. /\ UNCHANGED <<queue, pool_sig_sem, result>>
          /\ CallGoto(d, "post") /\ dpc[d] = "spawn"
      BY <2>3 DEF DispatchSpawn, DispatchNoSpawn, CallGoto
    <3>2. C' = C
      BY <1>0, <1>4, <3>1 DEF One
    <3>3. UNCHANGED wpc \/ \E w \in Workers : wpc[w] = "none" /\ Goto(w, "loop")
      BY <2>3 DEF DispatchSpawn, DispatchNoSpawn, At
    <3>4. W' = W
      BY <1>0, <1>3, <1>6, <3>3 DEF One
    <3> QED
      BY <1>2, <1>6, <3>1, <3>2, <3>4
  <2>4. CASE DispatchSpawnFail(d)
    <3>1. /\ UNCHANGED <<queue, pool_sig_sem, wpc>>
          /\ CallGoto(d, "idle") /\ dpc[d] = "spawn"
          /\ Returns(djob[d], "unsignalled")
      BY <2>4 DEF DispatchSpawnFail, CallGoto, Returns
    <3>2. djob[d] \in Jobs /\ result[djob[d]] = "calling"
      BY <3>1 DEF CallsDistinct
    <3>3. U' = U + 1
      <4>1. U' = U + One("unsignalled", {"unsignalled"}) - One("calling", {"unsignalled"})
        BY <1>5, <3>1, <3>2
      <4> QED
        BY <1>0, <4>1 DEF One
    <3>4. C' = C - 1
      <4>1. C' = C + One("idle", D) - One("spawn", D)
        BY <1>4, <3>1
      <4> QED
        BY <1>0, <4>1 DEF One
    <3> QED
      BY <1>0, <1>2, <1>6, <3>1, <3>3, <3>4
  <2>5. CASE DispatchPost(d)
    <3>1. /\ UNCHANGED <<queue, wpc>> /\ pool_sig_sem' = pool_sig_sem + 1
          /\ CallGoto(d, "idle") /\ dpc[d] = "post"
          /\ Returns(djob[d], "accepted")
      BY <2>5 DEF DispatchPost, SemPost, CallGoto, Returns
    <3>2. djob[d] \in Jobs /\ result[djob[d]] = "calling"
      BY <3>1 DEF CallsDistinct
    <3>3. U' = U
      <4>1. U' = U + One("accepted", {"unsignalled"}) - One("calling", {"unsignalled"})
        BY <1>5, <3>1, <3>2
      <4> QED
        BY <1>0, <4>1 DEF One
    <3>4. C' = C - 1
      <4>1. C' = C + One("idle", D) - One("post", D)
        BY <1>4, <3>1
      <4> QED
        BY <1>0, <4>1 DEF One
    <3> QED
      BY <1>0, <1>2, <1>6, <3>1, <3>3, <3>4
  <2> QED
    BY <1>8, <2>1, <2>2, <2>3, <2>4, <2>5 DEF DispatchStep
<1>9. ~DestroyStep
  BY <1>1 DEF DestroyStep, DestroyBegin, DestroyNotify, DestroyWait, DestroyFree,
              Shutdown, ExitMarked
<1> QED
  BY <1>7, <1>8, <1>9 DEF Next

\* A balanced valid pool has a job for every worker about to pop ...
LEMMA BalancedPop ==
  ASSUME TypeOK, SignalBalance, state = "POOL_VALID"
  PROVE  PopFindsJob
<1>1. IsFiniteSet(At({"woken", "check", "pop"}))
  BY CountsNat
<1>2. At({"pop"}) \subseteq At({"woken", "check", "pop"})
  BY DEF At
<1>3. Cardinality(At({"pop"})) <= Cardinality(At({"woken", "check", "pop"}))
  BY <1>1, <1>2, FS_Subset
<1>4. /\ Cardinality(At({"woken", "check", "pop"})) \in Nat
      /\ Cardinality(At({"pop"})) \in Nat
      /\ Cardinality(DispatchersAt({"spawn", "post"})) \in Nat
      /\ Cardinality(JobsWith("unsignalled")) \in Nat
  BY CountsNat
<1>5. pool_sig_sem \in Nat /\ Len(queue) \in Nat
  BY SeqLength DEF TypeOK
<1> QED
  BY <1>3, <1>4, <1>5 DEF SignalBalance, PopFindsJob

\* ... and in an exiting pool no worker moves to the pop any more.
LEMMA PopInv ==
  ASSUME TypeOK, Shutdown, SignalBalance, PopFindsJob, Next, TypeOK', SignalBalance'
  PROVE  PopFindsJob'
<1> DEFINE P == Cardinality(At({"pop"}))
<1>0. P \in Nat /\ Len(queue) \in Nat /\ P <= Len(queue)
  BY CountsNat, SeqLength DEF TypeOK, PopFindsJob
<1>1. CASE state' = "POOL_VALID"
  <2>1. (TypeOK /\ SignalBalance /\ state = "POOL_VALID" => PopFindsJob)'
    BY BalancedPop, PTL
  <2> QED
    BY <1>1, <2>1
<1>2. CASE UNCHANGED wpc /\ Len(queue)' \in Nat /\ Len(queue)' >= Len(queue)
  <2>1. P' = P
    BY <1>2 DEF At
  <2> QED
    BY <1>0, <1>2, <2>1 DEF PopFindsJob
<1>3. ASSUME NEW w \in Workers, WorkerStep(w), state' # "POOL_VALID"
      PROVE  PopFindsJob'
  <2>1. CASE WorkerPop(w)
    <3>1. PICK pc \in {"run", "loop"} : Goto(w, pc)
      BY <2>1 DEF WorkerPop
    <3>2. One(pc, {"pop"}) = 0 /\ One(wpc[w], {"pop"}) = 1
      BY <2>1 DEF WorkerPop, One
    <3>3. P' \in Nat /\ P' = P - 1
      BY <1>0, <3>1, <3>2, WorkerMoves
    <3>4. queue # <<>>
      BY <1>0, <3>3, SeqEmpty
    <3>5. Len(queue)' = Len(queue) - 1
      BY <2>1, <3>4, SeqTail DEF WorkerPop, TypeOK
    <3> QED
      BY <1>0, <3>3, <3>5 DEF PopFindsJob
  <2>2. CASE ~WorkerPop(w)
    <3>0. state = "POOL_EXIT"
      BY <1>3, WorkerKeeps DEF TypeOK
    <3>2. PICK pc \in WorkerPc : Goto(w, pc) /\ pc # "pop" /\ wpc[w] # "pop"
      BY <1>3, <2>2, <3>0, WorkerEdges DEF AfterCheck, AfterExit, WorkerPc
    <3>3. One(pc, {"pop"}) = 0 /\ One(wpc[w], {"pop"}) = 0
      BY <3>2 DEF One
    <3>4. P' = P
      BY <1>0, <3>2, <3>3, WorkerMoves
    <3>5. queue' = queue
      BY <1>3, <2>2, WorkerKeeps
    <3> QED
      BY <1>0, <3>4, <3>5 DEF PopFindsJob
  <2> QED
    BY <2>1, <2>2
<1>4. ASSUME NEW d \in Dispatchers, DispatchStep(d), state' # "POOL_VALID"
      PROVE  PopFindsJob'
  <2>1. CASE DispatchSpawn(d)
    <3>1. PICK w \in Workers : wpc[w] = "none" /\ Goto(w, "loop")
      BY <2>1 DEF DispatchSpawn, At
    <3>2. One("loop", {"pop"}) = 0 /\ One(wpc[w], {"pop"}) = 0
      BY <3>1 DEF One
    <3>3. P' = P
      BY <1>0, <3>1, <3>2, WorkerMoves
    <3> QED
      BY <2>1, <3>3 DEF DispatchSpawn, PopFindsJob
  <2>2. CASE ~DispatchSpawn(d)
    <3>1. UNCHANGED wpc /\ UNCHANGED queue
      BY <1>4, <2>2, DispatchKeeps DEF DispatchAdd
    <3> QED
      BY <1>0, <1>2, <3>1
  <2> QED
    BY <2>1, <2>2
<1>5. CASE DestroyStep /\ ~DestroyFree
  <2>1. UNCHANGED <<wpc, queue>>
    BY <1>5, DestroyKeeps
  <2> QED
    BY <1>0, <1>2, <2>1
<1>6. CASE DestroyFree
  <2>1. At({"pop"})' = {}
    BY <1>6 DEF DestroyFree, Shutdown, DestroyQuiet, At, Counted, WorkerPc
  <2>2. Cardinality(At({"pop"})') = 0
    BY <2>1, FS_EmptySet
  <2>3. Len(queue)' = 0
    BY <1>6, SeqEmpty DEF DestroyFree
  <2> QED
    BY <2>2, <2>3 DEF PopFindsJob
<1> QED
  BY <1>1, <1>3, <1>4, <1>5, <1>6 DEF Next

-----------------------------------------------------------------------------
(* The theorems *)

\* Every step keeps it.
LEMMA NextInv == IInv /\ [Next]_vars => IInv'
<1>1. ASSUME IInv, Next
      PROVE  IInv'
  BY <1>1, TypeInv, AliveInv, IdleInv, CallsInv, ShutdownInv, BalanceInv, PopInv,
     FifoInv DEF IInv
<1>2. ASSUME IInv, UNCHANGED vars
      PROVE  IInv'
  <2> USE <1>2 DEF vars, poolVars, IInv
  <2>1. TypeOK'
    BY DEF TypeOK
  <2>2. AliveCount' /\ IdleCount' /\ PopFindsJob'
    BY SMTT(30) DEF AliveCount, IdleCount, PopFindsJob, At
  <2>3. MutexOwner' /\ CallsDistinct'
    BY DEF MutexOwner, CallsDistinct
  <2>4. SignalBalance'
    BY DEF SignalBalance, At, DispatchersAt, JobsWith
  <2>5. Shutdown'
    BY DEF Shutdown, ExitMarked, NoLateSpawn, LastSignal, DestroyQuiet, At, DispatchersAt
  <2>6. FifoOnce' /\ AddedKnown'
    BY DEF FifoOnce, AddedKnown
  <2> QED
    BY <2>1, <2>2, <2>3, <2>4, <2>5, <2>6
<1> QED
  BY <1>1, <1>2

\* Hence it always holds.
LEMMA AlwaysIInv == Spec => []IInv
BY InitInv, NextInv, PTL DEF Spec

\* Type correctness: in particular --thr_alive and the atomic decrement of
\* thr_idle never go below zero.
THEOREM TypeCorrect == Spec => []TypeOK
BY AlwaysIInv, PTL DEF IInv

\* thr_alive is exactly the number of live workers and at most thr_max, whatever
\* expiries, failed creations and overlapping shutdown do.
THEOREM AliveCounted == Spec => []AliveCount
BY AlwaysIInv, PTL DEF IInv

\* thr_idle is exactly the number of workers around the wait.
THEOREM IdleCounted == Spec => []IdleCount
BY AlwaysIInv, PTL DEF IInv

\* No wake-up of thrmgr_dispatch is lost or invented while the pool is valid.
THEOREM SignalsBalance == Spec => []SignalBalance
BY AlwaysIInv, PTL DEF IInv

\* work_queue_pop never finds the queue empty, in any state of the pool.
THEOREM PopSucceeds == Spec => []PopFindsJob
BY AlwaysIInv, PTL DEF IInv

\* Jobs are handed out in order, at most once, and none is lost before the free.
THEOREM QueueIsFifo == Spec => []FifoOnce
BY AlwaysIInv, PTL DEF IInv

\* pool_sem is posted only by the last worker of a pool being destroyed.
THEOREM OneLastSignal == Spec => []LastSignal
BY AlwaysIInv, PTL DEF IInv, Shutdown

\* thrmgr_destroy frees the pool only when no worker can run a handler.
THEOREM QuietWhenFreed == Spec => []DestroyQuiet
BY AlwaysIInv, PTL DEF IInv, Shutdown

=============================================================================
