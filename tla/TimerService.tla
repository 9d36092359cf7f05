---------------------------- MODULE TimerService ----------------------------
(***************************************************************************)
(* What wtp_timerlib.h promises its callers, without the queue, the ticker *)
(* thread, the mutex or SIGALRM.  A timer is a pair <<due, id>>.  It is    *)
(* issued once, and while it is pending it is either removed or fired;     *)
(* neither can happen to it again.  Handlers run one at a time, the timer  *)
(* with the earliest deadline first and, among equal deadlines, the one    *)
(* that was added first.                                                   *)
(*                                                                         *)
(* That a timer is not fired before it is due is deliberately absent: a    *)
(* SIGALRM that is pending when an earlier timer takes over the head fires *)
(* that timer at once.                                                     *)
(***************************************************************************)
EXTENDS Naturals

CONSTANTS MaxTimers,    \* bound on the number of timers ever added
          Deadlines     \* the times a timer can be due at

VARIABLES issued,       \* number of timers added so far, the next id
          pending,      \* the timers not yet fired or removed
          running       \* id of the timer whose handler runs, or None

vars == <<issued, pending, running>>

None == MaxTimers

\* Timer s is served before timer t.
Before(s, t) == s[1] < t[1] \/ (s[1] = t[1] /\ s[2] < t[2])

Init == issued = 0 /\ pending = {} /\ running = None

Add(due) ==
  /\ issued < MaxTimers
  /\ issued' = issued + 1
  /\ pending' = pending \cup {<<due, issued>>}
  /\ UNCHANGED running

Remove(t) ==
  /\ t \in pending
  /\ pending' = pending \ {t}
  /\ UNCHANGED <<issued, running>>

Fire(t) ==
  /\ running = None
  /\ t \in pending
  /\ \A s \in pending \ {t} : Before(t, s)
  /\ pending' = pending \ {t}
  /\ running' = t[2]
  /\ UNCHANGED issued

Return ==
  /\ running # None
  /\ running' = None
  /\ UNCHANGED <<issued, pending>>

Next ==
  \/ \E due \in Deadlines : Add(due)
  \/ \E t \in pending : Remove(t) \/ Fire(t)
  \/ Return

Spec == Init /\ [][Next]_vars
=============================================================================
