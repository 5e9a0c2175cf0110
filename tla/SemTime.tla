------------------------------- MODULE SemTime ------------------------------
(***************************************************************************)
(* The absolute time that swartz_sem_wait hands to sem_timedwait, from the *)
(* reading of gettimeofday (sec, usec) and a wait of timeout milliseconds. *)
(* Source: src/utils/src/swartz_sem.cpp.  The workers of the pool wait     *)
(* 30 s, the heartbeat thread 30 s, the monitor and the reconnect thread   *)
(* 45 s.                                                                   *)
(***************************************************************************)
EXTENDS Integers

CONSTANTS
  Micros,  \* readings of tv_usec
  Waits    \* waits, in ms

ASSUME TimeAssumption ==
  Micros \subseteq Nat /\ (\A usec \in Micros : usec < 1000000) /\ Waits \subseteq Nat

\* The nanoseconds before they are brought into range: `now' in the code, a
\* 64-bit integer.
Nanos(usec, timeout) == usec * 1000 + (timeout % 1000) * 1000000

\* if (now > 999999999) ts.tv_sec++.  (Mutant: 10^9 itself is not carried.)
CarryAbove(n) == IF n > 1000000000 THEN 1 ELSE 0
Carry(n) == IF n > 999999999 THEN 1 ELSE 0

tv_sec(sec, usec, timeout) == sec + timeout \div 1000 + Carry(Nanos(usec, timeout))
tv_nsec(usec, timeout) == Nanos(usec, timeout) % 1000000000

\* The deadline is the reading plus timeout milliseconds, to the microsecond,
\* and its nanoseconds are in the range that sem_timedwait accepts.
Exact(sec, usec, timeout) ==
  LET micros == usec + timeout * 1000
  IN  /\ tv_sec(sec, usec, timeout) = sec + micros \div 1000000
      /\ tv_nsec(usec, timeout) = (micros % 1000000) * 1000
      /\ tv_nsec(usec, timeout) < 1000000000
=============================================================================
