------------------------------ MODULE WtpTimer ------------------------------
(***************************************************************************)
(* The POSIX timer library of testCases/timer (wtp)/wtp_timerlib.c: a      *)
(* queue of timers sorted by expiry, and the ticker thread (cronometer)    *)
(* that arms the one interval timer for the head of the queue, waits for   *)
(* SIGALRM with sigwait() and runs the head's handler.                     *)
(*                                                                         *)
(* Every access to the queue is inside timerq.mutex, so a critical section *)
(* is one action.  What is not protected by the mutex is interleaved       *)
(* freely: the clock, the expiry of the interval timer, the pending        *)
(* SIGALRM, and the two stretches in which the ticker holds no lock        *)
(* (between arming and relocking, and while a handler runs).  timer_add    *)
(* and timer_rem may be called by any thread and by a running handler.     *)
(* timer_init and timer_destroy are in module WtpLifecycle.                *)
(***************************************************************************)
EXTENDS Integers, Sequences, SequencesExt

CONSTANTS
  MaxTimers,   \* bound on timerq.cur_id
  UsecPerSec,  \* MICRO_PER_SEC
  AlmostNow,   \* ALMOST_NOW, the interval used for a timeout in the past
  Delays,      \* the intervals callers ask for, in microseconds
  Lags,        \* microseconds that can pass inside timer_add's critical section
  Horizon      \* bound on the clock

ASSUME WtpAssumption ==
  /\ MaxTimers \in Nat
  /\ UsecPerSec \in Nat \ {0}
  /\ AlmostNow \in Nat \ {0}
  /\ Delays \subseteq Nat \ {0}     \* timer_add refuses the others, lines 331-334
  /\ Lags \subseteq Nat
  /\ Horizon \in Nat

VARIABLES
  now,          \* the wall clock, in microseconds
  queue,        \* ids from timerq.first to timerq.last
  cur_id,       \* timerq.cur_id
  timeout,      \* the fields of each struct timer, by id
  in_use,
  cancelled,
  handler_arg,  \* TRUE while it points to the caller's argument, FALSE if NULL
  alarm,        \* when ITIMER_REAL expires, Off if it is disarmed
  sigalrm,      \* a SIGALRM is pending
  ticker,       \* where the ticker thread is
  woken,        \* timerq.cond was signalled since the ticker began to wait
  hdl,          \* id of the timer whose handler the ticker runs, or None
  removed,      \* ids timer_rem has removed (history)
  handed        \* how often each argument was freed or given to a handler (history)

timerVars == <<timeout, in_use, cancelled, handler_arg>>
clockVars == <<alarm, sigalrm>>
history   == <<removed, handed>>
vars == <<now, queue, cur_id, timerVars, clockVars, ticker, woken, hdl, history>>

Ids  == 0 .. MaxTimers - 1
None == MaxTimers
Off  == -1

TickerStates == {"lock", "cond_wait", "sigwait", "relock", "handler"}

-----------------------------------------------------------------------------
Sec(t)  == t \div UsecPerSec
Usec(t) == t % UsecPerSec
MAX_USEC == UsecPerSec - 1

\* The borrow branch adds MAX_USEC, one less than a second: its result is short
\* by a microsecond, and is 0 for the last microsecond before a full second.
TV_MINUS(t1, t2) ==
  IF Usec(t1) >= Usec(t2)
  THEN (Sec(t1) - Sec(t2)) * UsecPerSec + (Usec(t1) - Usec(t2))
  ELSE (Sec(t1) - Sec(t2) - 1) * UsecPerSec + Usec(t1) + (MAX_USEC - Usec(t2))

\* setitimer() with an interval of 0 disarms the timer.
Setitimer(interval) == IF interval = 0 THEN Off ELSE now + interval

\* The Horizon stands for all later times: an expiry beyond it is cut to it.
Cut(t) == IF t > Horizon THEN Horizon ELSE t

\* No test that abs_to is in the future.
timer_start_NoPastCase(abs_to) == IF abs_to <= now THEN Setitimer(0)
                                  ELSE Setitimer(TV_MINUS(abs_to, now))

\* The absolute time passed on as an interval.
timer_start_Absolute(abs_to) == Setitimer(abs_to)

\* When the interval timer expires after timer_start(abs_to).
timer_start(abs_to) ==
  IF now < abs_to
  THEN Setitimer(TV_MINUS(abs_to, now))
  ELSE Cut(Setitimer(AlmostNow))

\* Position of a new timer: before the first one that expires strictly later.
Position_EqualFirst(q, due) ==
  CHOOSE k \in 1 .. Len(q) + 1 :
    /\ \A j \in 1 .. k - 1 : due > timeout[q[j]]
    /\ k <= Len(q) => due <= timeout[q[k]]

Position(q, due) ==
  CHOOSE k \in 1 .. Len(q) + 1 :
    /\ \A j \in 1 .. k - 1 : due >= timeout[q[j]]
    /\ k <= Len(q) => due < timeout[q[k]]

Init ==
  /\ now = 0
  /\ queue = <<>>
  /\ cur_id = 0
  /\ timeout = [i \in Ids |-> 0]
  /\ in_use = [i \in Ids |-> FALSE]
  /\ cancelled = [i \in Ids |-> FALSE]
  /\ handler_arg = [i \in Ids |-> FALSE]
  /\ alarm = Off
  /\ sigalrm = FALSE
  /\ ticker = "lock"
  /\ woken = FALSE
  /\ hdl = None
  /\ removed = {}
  /\ handed = [i \in Ids |-> 0]

-----------------------------------------------------------------------------
(* timer_add and timer_rem                                                 *)

\* What timer_add does besides linking the new timer at position k.
NewTimer(id, due) ==
  /\ cur_id' = cur_id + 1
  /\ timeout' = [timeout EXCEPT ![id] = due]
  /\ cancelled' = [cancelled EXCEPT ![id] = FALSE]
  /\ handler_arg' = [handler_arg EXCEPT ![id] = TRUE]

\* pthread_cond_signal on timerq.cond wakes the ticker if it waits there.
Signal_Forgotten == UNCHANGED woken

Signal == woken' = (woken \/ ticker = "cond_wait")

\* The new head is left inactive.
TakeOver_NotActive(id, due) ==
  /\ in_use' = [in_use EXCEPT ![Head(queue)] = FALSE]
  /\ alarm' = timer_start(due)
  /\ UNCHANGED woken

\* The head of a non-empty queue changes hands: the new head is active, the
\* old one is not, and the interval timer is set for the new head.
TakeOver(id, due) ==
  /\ in_use' = [in_use EXCEPT ![id] = TRUE, ![Head(queue)] = FALSE]
  /\ alarm' = timer_start(due)
  /\ UNCHANGED woken

\* timer_add of a delay d.  The clock was read lag microseconds ago, and the
\* list was walked and timer_start called since.
timer_add(d, lag) ==
  LET id  == cur_id
      due == now + d - lag
      k   == Position(queue, due)
  IN  /\ cur_id < MaxTimers /\ lag <= now /\ due <= Horizon     \* bounds
      /\ NewTimer(id, due)
      /\ queue' = InsertAt(queue, k, id)
      /\ \/ /\ queue = <<>>
            /\ in_use' = [in_use EXCEPT ![id] = FALSE]
            /\ Signal
            /\ UNCHANGED alarm
         \/ /\ queue # <<>> /\ k = 1
            /\ TakeOver(id, due)
         \/ /\ queue # <<>> /\ k > 1
            /\ in_use' = [in_use EXCEPT ![id] = FALSE]
            /\ UNCHANGED <<alarm, woken>>
      /\ UNCHANGED <<now, sigalrm, ticker, hdl, history>>

\* The argument is freed but still pointed to (before fix LE-03-02-2010.01).
MarkCancelled_KeepArg(id, free_arg) ==
  /\ cancelled' = [cancelled EXCEPT ![id] = TRUE]
  /\ UNCHANGED handler_arg

\* The argument is freed but the timer is not marked.
MarkCancelled_NoMark(id, free_arg) ==
  /\ handler_arg' = [handler_arg EXCEPT ![id] = @ /\ ~free_arg]
  /\ UNCHANGED cancelled

\* An active timer is left to the ticker, without its argument if that was freed.
MarkCancelled(id, free_arg) ==
  /\ cancelled' = [cancelled EXCEPT ![id] = TRUE]
  /\ handler_arg' = [handler_arg EXCEPT ![id] = @ /\ ~free_arg]

\* timer_rem of the timer at position k, with or without a free_arg function.
\* An active timer stays in the queue, for the ticker to unlink.
timer_rem(k, free_arg) ==
  LET id == queue[k]
  IN  /\ removed' = removed \cup {id}
      /\ handed' = IF free_arg /\ handler_arg[id]
                   THEN [handed EXCEPT ![id] = @ + 1] ELSE handed
      /\ \/ /\ in_use[id]
            /\ MarkCancelled(id, free_arg)
            /\ UNCHANGED queue
         \/ /\ ~in_use[id]
            /\ queue' = RemoveAt(queue, k)
            /\ UNCHANGED <<cancelled, handler_arg>>
      /\ UNCHANGED <<now, cur_id, timeout, in_use, clockVars, ticker, woken, hdl>>

-----------------------------------------------------------------------------
(* The ticker thread                                                       *)

\* Lines 180-186: wait for a timer, or arm the interval timer for the head.
ArmOrWait ==
  \/ /\ queue = <<>>
     /\ ticker' = "cond_wait"
     /\ woken' = FALSE
     /\ UNCHANGED <<alarm, in_use>>
  \/ /\ queue # <<>>
     /\ alarm' = timer_start(timeout[Head(queue)])
     /\ in_use' = [in_use EXCEPT ![Head(queue)] = TRUE]
     /\ ticker' = "sigwait"
     /\ UNCHANGED woken

TickerLock ==
  /\ ticker = "lock"
  /\ ArmOrWait
  /\ UNCHANGED <<now, queue, cur_id, timeout, cancelled, handler_arg, sigalrm, hdl, history>>

\* pthread_cond_wait returns and the loop tests the queue again.
TickerWake ==
  /\ ticker = "cond_wait" /\ woken
  /\ ArmOrWait
  /\ UNCHANGED <<now, queue, cur_id, timeout, cancelled, handler_arg, sigalrm, hdl, history>>

TickerSigwait ==
  /\ ticker = "sigwait" /\ sigalrm
  /\ sigalrm' = FALSE
  /\ ticker' = "relock"
  /\ UNCHANGED <<now, queue, cur_id, timerVars, alarm, woken, hdl, history>>

\* The head was cancelled: unlink it, run nothing.
TickerDrop ==
  /\ ticker = "relock" /\ cancelled[Head(queue)]
  /\ queue' = Tail(queue)
  /\ ticker' = "lock"
  /\ UNCHANGED <<now, cur_id, timerVars, clockVars, woken, hdl, history>>

\* Unlink the head and start its handler, outside the mutex.
TickerFire ==
  LET id == Head(queue)
  IN  /\ ticker = "relock" /\ ~cancelled[id]
      /\ queue' = Tail(queue)
      /\ hdl' = id
      /\ handed' = IF handler_arg[id] THEN [handed EXCEPT ![id] = @ + 1] ELSE handed
      /\ ticker' = "handler"
      /\ UNCHANGED <<now, cur_id, timerVars, clockVars, woken, removed>>

HandlerReturn ==
  /\ ticker = "handler"
  /\ hdl' = None
  /\ ticker' = "lock"
  /\ UNCHANGED <<now, queue, cur_id, timerVars, clockVars, woken, history>>

Ticker == TickerLock \/ TickerWake \/ TickerSigwait \/ TickerDrop \/ TickerFire

-----------------------------------------------------------------------------
(* The kernel: the clock and ITIMER_REAL.  A pending SIGALRM stays pending *)
(* until sigwait() takes it; setitimer() does not withdraw it.             *)

Expire ==
  /\ alarm # Off /\ alarm <= now
  /\ alarm' = Off
  /\ sigalrm' = TRUE
  /\ UNCHANGED <<now, queue, cur_id, timerVars, ticker, woken, hdl, history>>

Tick ==
  /\ now < Horizon
  /\ now' = now + 1
  /\ UNCHANGED <<queue, cur_id, timerVars, clockVars, ticker, woken, hdl, history>>

Next ==
  \/ \E d \in Delays, lag \in Lags : timer_add(d, lag)
  \/ \E k \in DOMAIN queue, free_arg \in BOOLEAN : timer_rem(k, free_arg)
  \/ TickerLock \/ TickerWake \/ TickerSigwait \/ TickerDrop \/ TickerFire
  \/ HandlerReturn
  \/ Expire
  \/ Tick

Spec == Init /\ [][Next]_vars

\* The scheduler runs the ticker, handlers return, the clock advances and the
\* kernel delivers the alarm.  Nothing obliges a caller to call.
Fairness ==
  /\ WF_vars(Ticker)
  /\ WF_vars(HandlerReturn)
  /\ WF_vars(Expire)
  /\ WF_vars(Tick)

FairSpec == Spec /\ Fairness
-----------------------------------------------------------------------------
(* Properties                                                              *)

InQueue(id) == \E k \in DOMAIN queue : queue[k] = id

\* Every variable has its type, the interval timer never runs past the last
\* timeout, and the ticker holds a handler exactly while it is running one.
TypeOK ==
  /\ now \in 0 .. Horizon
  /\ queue \in Seq(Ids)
  /\ cur_id \in 0 .. MaxTimers
  /\ timeout \in [Ids -> 0 .. Horizon]
  /\ in_use \in [Ids -> BOOLEAN]
  /\ cancelled \in [Ids -> BOOLEAN]
  /\ handler_arg \in [Ids -> BOOLEAN]
  /\ alarm \in {Off} \cup 0 .. Horizon
  /\ sigalrm \in BOOLEAN
  /\ ticker \in TickerStates
  /\ woken \in BOOLEAN
  /\ hdl \in Ids \cup {None}
  /\ removed \in SUBSET Ids
  /\ handed \in [Ids -> Nat]
  /\ hdl # None <=> ticker = "handler"

\* The insertion in timer_add (lines 374-413) keeps the queue sorted by
\* timeout, equal timeouts in the order of the calls; so no id occurs twice.
QueueOrder ==
  \A j, k \in DOMAIN queue : j < k =>
    \/ timeout[queue[j]] < timeout[queue[k]]
    \/ timeout[queue[j]] = timeout[queue[k]] /\ queue[j] < queue[k]

\* Only the head is ever active, and it is while the ticker is between arming
\* the interval timer and relocking: so timer_rem cannot unlink and free the
\* timer that the ticker dereferences at line 205, nor empty the queue there.
ActiveHead ==
  /\ \A k \in DOMAIN queue : k > 1 => ~in_use[queue[k]]
  /\ ticker \in {"sigwait", "relock"} => queue # <<>> /\ in_use[Head(queue)]

\* The ticker never sleeps in pthread_cond_wait on a queue that has a timer
\* without a wake-up on its way: timer_add signals on the empty queue only, and
\* that is enough.
NoMissedWakeup ==
  ticker = "cond_wait" /\ queue # <<>> => woken

\* A caller's argument is freed by timer_rem or passed to the handler, never
\* both and never twice (the bug noted at lines 445-448), however often
\* timer_rem is called and whichever timer becomes the head in between.
ArgHandedOnce ==
  \A id \in Ids : handed[id] <= 1

\* What relates the history to the queue: only issued ids are queued, an argument
\* still owned was not handed out, and a queued timer is marked cancelled exactly
\* when timer_rem was called for it.
Bookkeeping ==
  /\ \A k \in DOMAIN queue :
       LET id == queue[k]
       IN  /\ id < cur_id
           /\ handler_arg[id] => handed[id] = 0
           /\ cancelled[id] <=> id \in removed
  /\ \A id \in Ids : id >= cur_id => handed[id] = 0 /\ id \notin removed

\* The inductive invariant of the library.
IInv ==
  TypeOK /\ QueueOrder /\ ActiveHead /\ NoMissedWakeup /\ ArgHandedOnce /\ Bookkeeping

\* The library behaves as the timer service: a timer that was removed is never
\* fired, a fired one is never fired again, and handlers run one at a time, in
\* order of deadline and then of the calls.
Live == ToSet(queue) \ removed

Pending == {<<timeout[id], id>> : id \in Live}

Service == INSTANCE TimerService WITH
  Deadlines <- 0 .. Horizon,
  issued    <- cur_id,
  pending   <- Pending,
  running   <- hdl

ServiceSpec == Service!Spec

\* The ticker, waiting for SIGALRM, is always released: every timer in the queue
\* leaves it, fired or dropped.
TimersLeave ==
  \A id \in Ids : InQueue(id) ~> ~InQueue(id)
=============================================================================
