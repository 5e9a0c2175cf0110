------------------------------ MODULE TaskPool ------------------------------
(***************************************************************************)
(* What swartz_threadpool promises its users: tasks are started one after  *)
(* the other in the order they entered, at most Limit run at a time, and   *)
(* none starts once the pool is gone.  It hides threads, locks, semaphores *)
(* and counters; ThrMgr implements it.                                     *)
(*                                                                         *)
(* What it does not promise is as important to a user: a task that was     *)
(* refused may have entered all the same, and an accepted task may be      *)
(* dropped when the pool is destroyed.                                     *)
(***************************************************************************)
EXTENDS Integers, Sequences

CONSTANTS Tasks, Limit

VARIABLES
  open,      \* swartz_threadpool_destroy has not been called
  gone,      \* it has freed the pool
  waiting,   \* the tasks that entered and have not started, in order
  started,   \* the tasks that have started, in order
  running,   \* the number of tasks that are being worked on
  answer     \* what swartz_threadpool_work returned for each task

vars == <<open, gone, waiting, started, running, answer>>

Entered(t) ==
  \/ \E i \in DOMAIN waiting : waiting[i] = t
  \/ \E i \in DOMAIN started : started[i] = t

\* A new pool.
Init ==
  /\ open = TRUE /\ gone = FALSE
  /\ waiting = <<>> /\ started = <<>> /\ running = 0
  /\ answer = [t \in Tasks |-> "none"]

\* A task enters an open pool, at the end of the line.
Enter(t) ==
  /\ open /\ answer[t] = "none" /\ ~Entered(t)
  /\ waiting' = Append(waiting, t)
  /\ UNCHANGED <<open, gone, started, running, answer>>

\* Its caller is told so; the task may have started by then.
Accept(t) ==
  /\ answer[t] = "none" /\ Entered(t) /\ ~gone
  /\ answer' = [answer EXCEPT ![t] = "SWARTZ_OK"]
  /\ UNCHANGED <<open, gone, waiting, started, running>>

\* A caller is refused.  A task that entered is refused only while none runs
\* (there was no thread and none could be created), and stays in line.
Refuse(t) ==
  /\ answer[t] = "none" /\ ~gone
  /\ Entered(t) => running = 0
  /\ answer' = [answer EXCEPT ![t] = "SWARTZ_ERR"]
  /\ UNCHANGED <<open, gone, waiting, started, running>>

\* The first task in line starts, also while the pool is being destroyed.
Start ==
  /\ waiting # <<>> /\ ~gone /\ running < Limit
  /\ waiting' = Tail(waiting)
  /\ started' = Append(started, Head(waiting))
  /\ running' = running + 1
  /\ UNCHANGED <<open, gone, answer>>

Finish ==
  /\ running > 0
  /\ running' = running - 1
  /\ UNCHANGED <<open, gone, waiting, started, answer>>

Close ==
  /\ open
  /\ open' = FALSE
  /\ UNCHANGED <<gone, waiting, started, running, answer>>

\* The pool is freed when nothing runs; what is still in line is dropped.
Drop ==
  /\ ~open /\ ~gone /\ running = 0
  /\ gone' = TRUE
  /\ waiting' = <<>>
  /\ UNCHANGED <<open, started, running, answer>>

Next ==
  \/ \E t \in Tasks : Enter(t) \/ Accept(t) \/ Refuse(t)
  \/ Start \/ Finish \/ Close \/ Drop

Spec == Init /\ [][Next]_vars
=============================================================================
