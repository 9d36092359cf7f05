------------------------------ MODULE EventLoop ------------------------------
(***************************************************************************)
(* Timers, listeners and eventLoop of testCases/timer (cwmpc)/event.c: a   *)
(* single thread that runs the handler of an expired timer, or selects and *)
(* runs the handlers of the descriptors that are ready.  Handlers call the *)
(* library: they set and stop timers and listeners while the loop is on    *)
(* its way through the list.  The callbacks are in EventCallbacks.         *)
(*                                                                         *)
(* gettime() pairs the seconds of the uptime with the microseconds of the  *)
(* wall clock, which do not wrap at the same moments; settimeofday moves   *)
(* the one against the other.  A tick stands for a fraction of a second.   *)
(***************************************************************************)
EXTENDS Integers, Sequences, FiniteSets, SequencesExt, SeqDrop

CONSTANTS
  Handlers,      \* (func, handle) pairs of timers
  Fds,           \* file descriptors
  Types,         \* the tListenerType values callers use, see Watched
  MaxTimers,     \* MAX_TIMERS
  MaxListeners,  \* MAX_LISTENERS
  TicksPerSec,   \* the 1000000 of addMs, subTime and stepTime
  Delays,        \* the delays callers ask for, in ticks
  Horizon        \* bound on the clock and on the times timers are due at

ASSUME LoopAssumption ==
  /\ MaxTimers \in Nat /\ MaxListeners \in Nat
  /\ TicksPerSec \in Nat \ {0}
  /\ Delays \subseteq Nat /\ Horizon \in Nat
  /\ Types \subseteq {"Read", "Write", "ReadWrite", "Except"}

VARIABLES
  uptime,     \* ticks since boot
  skew,       \* the wall clock's fraction of a second minus the uptime's
  timers,     \* the timer queue, next to expire first, see Timer
  listeners,  \* the listener list, newest first
  pc,         \* where the loop is, see Places
  ready,      \* the bits still set in rfds, wfds and efds
  res         \* what is left of select's result

loopVars == <<pc, ready, res>>
vars == <<uptime, skew, timers, listeners, loopVars>>

\* A struct Timer, and what is remembered of it for the properties: when it is
\* due by the uptime, and whether the wall clock was set since it was queued.
Timer == [h : Handlers, expire : Nat \X (0 .. TicksPerSec), due : Nat, moved : BOOLEAN]

Places == {"outside", "top", "timer", "serving", "listener"}

Watched(type) ==
  CASE type = "Read"      -> {"r"}
    [] type = "Write"     -> {"w"}
    [] type = "ReadWrite" -> {"r", "w"}
    [] type = "Except"    -> {"e"}

-----------------------------------------------------------------------------
(* Time: pairs of seconds and ticks                                        *)

gettime == <<uptime \div TicksPerSec, (uptime + skew) % TicksPerSec>>

\* t1 strictly before t2 (cmpTime < 0).
Before(t1, t2) == t1[1] < t2[1] \/ (t1[1] = t2[1] /\ t1[2] < t2[2])

addMs(t, d) ==
  LET s == t[1] + (d \div TicksPerSec)
      u == t[2] + (d % TicksPerSec)
  IN  IF u >= TicksPerSec THEN <<s + 1, u - TicksPerSec>> ELSE <<s, u>>

subTime(t1, t2) ==
  IF t2[2] < t1[2]
  THEN <<t2[1] - t1[1] - 1, t2[2] - t1[2] + TicksPerSec>>
  ELSE <<t2[1] - t1[1], t2[2] - t1[2]>>

\* stepTime carries at > 1000000, not at >=: a full second can stay in the ticks.
Stepped(t, d) ==
  LET s == t[1] + (d \div TicksPerSec)
      u == t[2] + (d % TicksPerSec)
  IN  IF u > TicksPerSec THEN <<s + 1, u - TicksPerSec>> ELSE <<s, u>>

Init ==
  /\ uptime = 0 /\ skew \in 0 .. TicksPerSec - 1
  /\ timers = <<>> /\ listeners = <<>>
  /\ pc = "outside" /\ ready = {} /\ res = 0

-----------------------------------------------------------------------------
(* The public functions, called before the loop and by handlers            *)

UserCode == pc \in {"outside", "timer", "listener"}

\* The queue without the timers of h.
Without(h) == Dropping(timers, {t \in ToSet(timers) : t.h = h})

\* Where a timer goes: before the first that expires strictly later.
Place_Front(q, expire) == 1

Place(q, expire) ==
  CHOOSE k \in 1 .. Len(q) + 1 :
    /\ \A j \in 1 .. k - 1 : ~Before(expire, q[j].expire)
    /\ k <= Len(q) => Before(expire, q[k].expire)

NewTimer(h, d) ==
  [h |-> h, expire |-> addMs(gettime, d), due |-> uptime + d, moved |-> FALSE]

\* The table of timers has an entry left besides those of q.
Room_OneMore(q) == Len(q) <= MaxTimers

Room(q) == Len(q) < MaxTimers

\* setTimer stops h's timer first.  With the table full it returns 0.
setTimer(h, d) ==
  LET q == Without(h)
      t == NewTimer(h, d)
  IN  /\ UserCode
      /\ uptime + d <= Horizon                                        \* bound
      /\ timers' = IF Room(q) THEN InsertAt(q, Place(q, t.expire), t) ELSE q
      /\ UNCHANGED <<uptime, skew, listeners, loopVars>>

stopTimer(h) ==
  /\ UserCode
  /\ timers' = Without(h)
  /\ UNCHANGED <<uptime, skew, listeners, loopVars>>

stopAllTimers ==
  /\ UserCode
  /\ timers' = <<>>
  /\ UNCHANGED <<uptime, skew, listeners, loopVars>>

stepTime(d) ==
  /\ UserCode
  /\ \A k \in DOMAIN timers : timers[k].due + d <= Horizon            \* bound
  /\ timers' = [k \in DOMAIN timers |->
                  [timers[k] EXCEPT !.expire = Stepped(@, d), !.due = @ + d]]
  /\ UNCHANGED <<uptime, skew, listeners, loopVars>>

Unlistened(fd) == Dropping(listeners, {l \in ToSet(listeners) : l.fd = fd})

\* With the table full the listener is lost without a word.
setListenerType(fd, type) ==
  /\ UserCode
  /\ listeners' = (IF Len(Unlistened(fd)) < MaxListeners
                   THEN <<[fd |-> fd, type |-> type]>> ELSE <<>>) \o Unlistened(fd)
  /\ UNCHANGED <<uptime, skew, timers, loopVars>>

\* Also closeListenerFD.
stopListener(fd) ==
  /\ UserCode
  /\ listeners' = Unlistened(fd)
  /\ UNCHANGED <<uptime, skew, timers, loopVars>>

closeAllFds ==
  /\ UserCode
  /\ listeners' = <<>>
  /\ UNCHANGED <<uptime, skew, timers, loopVars>>

-----------------------------------------------------------------------------
(* eventLoop                                                               *)

Enter ==
  /\ pc = "outside"
  /\ pc' = "top"
  /\ UNCHANGED <<uptime, skew, timers, listeners, ready, res>>

\* The loop ends when nothing is left to wait for.
Leave ==
  /\ pc = "top" /\ timers = <<>> /\ listeners = <<>>
  /\ pc' = "outside"
  /\ UNCHANGED <<uptime, skew, timers, listeners, ready, res>>

\* A remaining time of less than a second counts as none.
Expired_ZeroSeconds == timers # <<>> /\ subTime(gettime, Head(timers).expire)[1] <= 0

\* The test of line 788.  subTime rounds down, so its seconds are negative as
\* soon as the timer's time is past.
Expired == timers # <<>> /\ subTime(gettime, Head(timers).expire)[1] < 0

FireTimer ==
  /\ pc = "top" /\ Expired
  /\ timers' = Tail(timers)
  /\ pc' = "timer"
  /\ UNCHANGED <<uptime, skew, listeners, ready, res>>

\* select reports some of the bits of the descriptors in the list, or none
\* after a timeout or EINTR, and counts the bits.
Select ==
  /\ pc = "top" /\ ~Expired /\ (timers # <<>> \/ listeners # <<>>)
  /\ ready' \in SUBSET UNION {{listeners[k].fd} \X Watched(listeners[k].type) :
                                 k \in DOMAIN listeners}
  /\ res' = Cardinality(ready')
  /\ pc' = "serving"
  /\ UNCHANGED <<uptime, skew, timers, listeners>>

IsReady(l) == \E bit \in ready : bit[1] = l.fd

SomeReady == \E k \in DOMAIN listeners : IsReady(listeners[k])

\* Several bits of a descriptor are cleared together but count once.
Consume_Bits(l) == res - Cardinality({bit \in ready : bit[1] = l.fd}) - 1

Consume(l) == res - 1

\* The first ready listener of the list as it is now is called; the search
\* starts over at the head after every call.
Serve ==
  LET k == CHOOSE j \in DOMAIN listeners :
             IsReady(listeners[j]) /\ \A i \in 1 .. j - 1 : ~IsReady(listeners[i])
  IN  /\ pc = "serving" /\ res > 0 /\ SomeReady
      /\ ready' = {bit \in ready : bit[1] # listeners[k].fd}
      /\ res' = Consume(listeners[k])
      /\ pc' = "listener"
      /\ UNCHANGED <<uptime, skew, timers, listeners>>

\* The list or the count is exhausted.
EndServe ==
  /\ pc = "serving" /\ (res <= 0 \/ ~SomeReady)
  /\ pc' = "top" /\ ready' = {} /\ res' = 0
  /\ UNCHANGED <<uptime, skew, timers, listeners>>

HandlerReturns ==
  \/ /\ pc = "timer" /\ pc' = "top"
     /\ UNCHANGED <<uptime, skew, timers, listeners, ready, res>>
  \/ /\ pc = "listener" /\ pc' = "serving"
     /\ UNCHANGED <<uptime, skew, timers, listeners, ready, res>>

-----------------------------------------------------------------------------
(* The clocks                                                              *)

Tick ==
  /\ uptime < Horizon
  /\ uptime' = uptime + 1
  /\ UNCHANGED <<skew, timers, listeners, loopVars>>

settimeofday ==
  /\ skew' \in 0 .. TicksPerSec - 1
  /\ skew' # skew
  /\ timers' = [k \in DOMAIN timers |-> [timers[k] EXCEPT !.moved = TRUE]]
  /\ UNCHANGED <<uptime, listeners, loopVars>>

Next ==
  \/ \E h \in Handlers, d \in Delays : setTimer(h, d)
  \/ \E h \in Handlers : stopTimer(h)
  \/ stopAllTimers
  \/ \E d \in Delays : stepTime(d)
  \/ \E fd \in Fds, type \in Types : setListenerType(fd, type)
  \/ \E fd \in Fds : stopListener(fd)
  \/ closeAllFds
  \/ Enter \/ Leave \/ FireTimer \/ Select \/ Serve \/ EndServe
  \/ HandlerReturns
  \/ Tick \/ settimeofday

Spec == Init /\ [][Next]_vars

-----------------------------------------------------------------------------
(* What the properties rest on                                             *)

\* A time in ticks.
Ticks(t) == t[1] * TicksPerSec + t[2]

\* A timer's place in the queue is its time by the uptime, moved by what the wall clock
\* was ahead when it was set: one of two amounts, for its fraction of a second
\* may have wrapped or not, unless the wall clock has been set since.
Displaced ==
  \A k \in DOMAIN timers :
    LET off == Ticks(timers[k].expire) - timers[k].due
    IN  /\ off < TicksPerSec /\ -off < TicksPerSec
        /\ ~timers[k].moved => off = skew \/ off = skew - TicksPerSec

\* select's count, of bits, covers what is left to serve.
Counted ==
  pc \in {"serving", "listener"} => IsFiniteSet(ready) /\ Cardinality(ready) <= res

-----------------------------------------------------------------------------
(* Properties                                                              *)

\* Every variable has its type, the tables are not overdrawn, and select's
\* count covers the descriptors still to be served.
TypeOK ==
  /\ uptime \in 0 .. Horizon
  /\ skew \in 0 .. TicksPerSec - 1
  /\ timers \in Seq(Timer)
  /\ Len(timers) <= MaxTimers
  /\ listeners \in Seq([fd : Fds, type : Types])
  /\ Len(listeners) <= MaxListeners
  /\ pc \in Places
  /\ ready \subseteq Fds \X {"r", "w", "e"}
  /\ res \in Int

\* Whatever the order of setTimer, stepTime and clock changes, the queue is
\* sorted by expiry and holds a timer once (lines 509-519 and 563-593).
QueueOrdered ==
  \A j, k \in DOMAIN timers : j < k =>
    /\ ~Before(timers[k].expire, timers[j].expire)
    /\ timers[j].h # timers[k].h

\* A timer fires less than a second early, and less than two if the wall clock was
\* set while it was running (the comment at lines 396-399 says one second, "the worst
\* case", for that case too).
BoundedDisplacement ==
  [][FireTimer =>
       LET t == Head(timers)
       IN  uptime > t.due - (IF t.moved THEN 2 ELSE 1) * TicksPerSec]_vars

\* The loop returns to select only when every descriptor that select reported
\* was served or is no longer listened to, whatever the handlers did to the
\* list (lines 817-832).
AllReadyServed ==
  [][pc = "serving" /\ pc' = "top" => ~SomeReady]_vars

\* The inductive invariant.
IInv == TypeOK /\ QueueOrdered /\ Displaced /\ Counted
=============================================================================
