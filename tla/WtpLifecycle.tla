---------------------------- MODULE WtpLifecycle ----------------------------
(***************************************************************************)
(* timer_init and timer_destroy of wtp_timerlib.c, composed with WtpTimer. *)
(* The main thread creates the ticker while it holds timerq.mutex, waits   *)
(* for it on timerq.cond for at most INIT_WAIT_TIME, and later cancels it  *)
(* and frees the queue.  One life of the library is modelled: timer_init   *)
(* is not called again after timer_destroy.                                *)
(***************************************************************************)
EXTENDS WtpTimer

VARIABLES
  main,      \* where the thread that calls timer_init and timer_destroy is
  thread,    \* the ticker: "none", "starting", "running" or "dead"
  owner,     \* who keeps timerq.mutex from one step to the next, or "none"
  ready,     \* timerq.cond was signalled while main waited on it
  cancel,    \* pthread_cancel was called on the ticker
  freed,     \* timer_destroy freed the queue
  uaf        \* the ticker has read a freed timer

lifeVars == <<main, thread, owner, ready, cancel, freed, uaf>>
allVars  == <<vars, lifeVars>>

LInit ==
  /\ Init
  /\ main = "start" /\ thread = "none" /\ owner = "none"
  /\ ready = FALSE /\ cancel = FALSE /\ freed = FALSE /\ uaf = FALSE

-----------------------------------------------------------------------------
(* timer_init                                                              *)

\* Lines 257-264: create the ticker with the mutex held, or give up.
InitCreate ==
  /\ main = "start"
  /\ \/ main' = "created" /\ thread' = "starting" /\ owner' = "main"
     \/ main' = "failed" /\ UNCHANGED <<thread, owner>>
  /\ UNCHANGED <<vars, ready, cancel, freed, uaf>>

\* pthread_cond_timedwait releases the mutex.
InitWait ==
  /\ main = "created"
  /\ main' = "timedwait" /\ owner' = "none"
  /\ UNCHANGED <<vars, thread, ready, cancel, freed, uaf>>

\* It returns 0, signalled or not (no condition is tested): detach, unlock.
InitWake ==
  /\ main = "timedwait" /\ owner = "none"
  /\ main' = "up"
  /\ UNCHANGED <<vars, thread, owner, ready, cancel, freed, uaf>>

\* It returns ETIMEDOUT and has the mutex again; lines 280-283.
InitTimeout ==
  /\ main = "timedwait" /\ owner = "none" /\ ~ready
  /\ main' = "join" /\ owner' = "main" /\ cancel' = TRUE
  /\ UNCHANGED <<vars, thread, ready, freed, uaf>>

\* pthread_join returns and timer_init returns 0.
InitJoined ==
  /\ main = "join" /\ thread = "dead"
  /\ main' = "failed" /\ owner' = "none"
  /\ UNCHANGED <<vars, thread, ready, cancel, freed, uaf>>

-----------------------------------------------------------------------------
(* timer_destroy                                                           *)

\* Cancel the ticker.  It is detached, so pthread_join fails and does not wait.
DestroyCancel ==
  /\ main = "up"
  /\ main' = "free" /\ cancel' = TRUE
  /\ UNCHANGED <<vars, thread, owner, ready, freed, uaf>>

\* Free every timer, without the mutex; timerq.first still points to one.
DestroyFree ==
  /\ main = "free"
  /\ main' = "down" /\ freed' = TRUE
  /\ UNCHANGED <<vars, thread, owner, ready, cancel, uaf>>

-----------------------------------------------------------------------------
(* The ticker                                                              *)

\* Lines 171-174.
ThreadStart ==
  /\ thread = "starting" /\ owner = "none"
  /\ thread' = "running"
  /\ ready' = (ready \/ main = "timedwait")
  /\ UNCHANGED <<vars, main, owner, cancel, freed, uaf>>

\* A cancellation point.  pthread_cond_wait takes the mutex before it unwinds
\* and no cleanup handler releases it.
ThreadCancelled ==
  /\ cancel /\ thread = "running"
  /\ \/ ticker = "sigwait" /\ UNCHANGED owner
     \/ ticker = "cond_wait" /\ owner = "none" /\ owner' = "ticker"
  /\ thread' = "dead"
  /\ UNCHANGED <<vars, main, ready, cancel, freed, uaf>>

\* The steps of the ticker that take the mutex and read timerq.first.
TickerReads ==
  /\ thread = "running" /\ owner = "none" /\ ~uaf
  /\ TickerLock \/ TickerWake \/ TickerDrop \/ TickerFire
  /\ uaf' = (freed /\ queue # <<>>)
  /\ UNCHANGED <<main, thread, owner, ready, cancel, freed>>

TickerElsewhere ==
  /\ thread = "running" /\ (TickerSigwait \/ HandlerReturn)
  /\ UNCHANGED lifeVars

\* Threads use the library after timer_init and before timer_destroy.
Callers ==
  /\ main = "up" /\ owner = "none"
  /\ \/ \E d \in Delays, lag \in Lags : timer_add(d, lag)
     \/ \E k \in DOMAIN queue, free_arg \in BOOLEAN : timer_rem(k, free_arg)
  /\ UNCHANGED lifeVars

Kernel == (Expire \/ Tick) /\ UNCHANGED lifeVars

LNext ==
  \/ InitCreate \/ InitWait \/ InitWake \/ InitTimeout \/ InitJoined
  \/ DestroyCancel \/ DestroyFree
  \/ ThreadStart \/ ThreadCancelled \/ TickerReads \/ TickerElsewhere
  \/ Callers \/ Kernel

LSpec == LInit /\ [][LNext]_allVars

-----------------------------------------------------------------------------
(* Properties                                                              *)

\* timer_destroy "tears down any data allocated for the library", after the
\* ticker was cancelled and joined: nobody reads a timer after that.
NoUseAfterFree == ~uaf
=============================================================================
