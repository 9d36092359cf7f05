--------------------------- MODULE EventCallbacks ---------------------------
(***************************************************************************)
(* The callback half of testCases/timer (cwmpc)/event.c: callbacks         *)
(* registered per target address in tables of fixed size, notifications    *)
(* kept until a timer dispatches them, and the dispatch itself, which runs *)
(* callbacks that may register, stop, notify and dispatch again.           *)
(*                                                                         *)
(* The program is single threaded.  What makes it hard is re-entrancy: a   *)
(* dispatch is a C call on the stack, standing on a Callback entry while   *)
(* the callback it runs changes the lists.  frames is that stack.          *)
(*                                                                         *)
(* Every Callback entry is at any moment linked into exactly one list, the *)
(* free list of its table or the list of a Target, by the same next        *)
(* pointer.  The lists are sequences and the pointer is derived: Succ.  A  *)
(* Target exists exactly while its list is not empty.  Targets and         *)
(* Callbacks have tables of one size (lines 130-131) and every Target has  *)
(* a Callback, so ALLOC_TARGET cannot fail in lines 698-706.               *)
(***************************************************************************)
EXTENDS Integers, Sequences, FiniteSets, SequencesExt, FiniteSetsExt, SeqDrop

CONSTANTS
  Addrs,         \* target addresses
  Keys,          \* (func, handle) pairs of callbacks
  NoKey,         \* the zeroed func of an entry that was never used
  MaxCallbacks,  \* MAX_CALLBACKS
  MaxActive,     \* MAX_ACTIVETARGETS
  MaxDepth,      \* bound on dispatches nested in each other
  MaxCalls       \* bound on the calls one run of a callback makes

ASSUME EventAssumption ==
  /\ NoKey \notin Keys
  /\ MaxCallbacks \in Nat /\ MaxActive \in Nat /\ MaxDepth \in Nat /\ MaxCalls \in Nat

VARIABLES
  cbs,              \* the callbacks list of each target, first to last
  free,             \* callbackTable.freeList, first to last
  key,              \* func and handle of each Callback
  deleted,          \* deleted of each Callback
  callback_deleted, \* the global flag
  scheduled,        \* scheduled_targets, newest first
  timer_set,        \* callbackTimer is in the timer queue
  frames            \* the dispatches in progress, outermost first

poolVars == <<cbs, free, key, deleted>>
vars == <<poolVars, callback_deleted, scheduled, timer_set, frames>>

Slots == 1 .. MaxCallbacks
Nil   == 0

\* One activation of checkCallbacks: the targets still to serve (the last one
\* is being served), the Callback that callCallbacks stands on, whether its
\* function is running and how many calls that may still make.
Frame == [active : Seq(Addrs), cb : Slots \cup {Nil}, running : BOOLEAN,
          left : 0 .. MaxCalls, batch : BOOLEAN]

Init ==
  /\ cbs = [a \in Addrs |-> <<>>]
  /\ free = [i \in Slots |-> i]
  /\ key = [c \in Slots |-> NoKey]
  /\ deleted = [c \in Slots |-> FALSE]
  /\ callback_deleted = FALSE
  /\ scheduled = <<>>
  /\ timer_set = FALSE
  /\ frames = <<>>

-----------------------------------------------------------------------------
First(list) == IF list = <<>> THEN Nil ELSE Head(list)

\* cb->next, whichever list the entry is linked into at this moment.
Succ(c) ==
  LET list == CHOOSE l \in {free} \cup {cbs[a] : a \in Addrs} : c \in ToSet(l)
      i    == CHOOSE j \in DOMAIN list : list[j] = c
  IN  IF i < Len(list) THEN list[i + 1] ELSE Nil

\* The first entry for k in the list of a, deleted or not.
lookup_callback(a, k) ==
  LET found == {i \in DOMAIN cbs[a] : key[cbs[a][i]] = k}
  IN  IF found = {} THEN Nil ELSE cbs[a][Min(found)]

\* Active targets in use: an entry is freed only after its target was served.
Entries == UNION {{n} \X DOMAIN frames[n].active : n \in DOMAIN frames}

ActiveInUse == Len(scheduled) + Cardinality(Entries)

Top == Last(frames)

\* User code can call the library: between dispatches, from a handler of the
\* event loop, or from the callback that the innermost dispatch runs.
UserCode == frames # <<>> => Top.running /\ Top.left > 0

Called == IF frames = <<>> THEN frames
          ELSE [frames EXCEPT ![Len(frames)].left = @ - 1]

\* The entry is linked behind the others of its target.
Link_Last(a, c) == cbs' = [cbs EXCEPT ![a] = Append(@, c)]

Link(a, c) == cbs' = [cbs EXCEPT ![a] = <<c>> \o @]

-----------------------------------------------------------------------------
(* The public functions                                                    *)

Registered(a, k) ==
  LET c == lookup_callback(a, k) IN c # Nil /\ ~deleted[c]

setCallback(a, k) ==
  /\ UserCode
  /\ \/ /\ Registered(a, k) \/ free = <<>>
        /\ UNCHANGED poolVars
     \/ /\ ~Registered(a, k) /\ free # <<>>
        /\ free' = Tail(free)
        /\ key' = [key EXCEPT ![Head(free)] = k]
        /\ deleted' = [deleted EXCEPT ![Head(free)] = FALSE]
        /\ Link(a, Head(free))
  /\ frames' = Called
  /\ UNCHANGED <<callback_deleted, scheduled, timer_set>>

\* The entry is unlinked and freed at once.
Delete_AtOnce(c) ==
  /\ cbs' = [a \in Addrs |-> SelectSeq(cbs[a], LAMBDA d : d # c)]
  /\ free' = <<c>> \o free
  /\ UNCHANGED <<key, deleted, callback_deleted>>

\* Unlinking is put off until the dispatches that may stand on the entry end.
Delete(c) ==
  /\ deleted' = [deleted EXCEPT ![c] = TRUE]
  /\ callback_deleted' = TRUE
  /\ UNCHANGED <<cbs, free, key>>

stopCallback(a, k) ==
  LET c == lookup_callback(a, k)
  IN  /\ UserCode
      /\ \/ c # Nil /\ Delete(c)
         \/ c = Nil /\ UNCHANGED <<poolVars, callback_deleted>>
      /\ frames' = Called
      /\ UNCHANGED <<scheduled, timer_set>>

\* scheduled_targets is extended at its end.
Schedule_Last(a) == scheduled' = Append(scheduled, a)

Schedule(a) == scheduled' = <<a>> \o scheduled

\* The table of active targets has an entry left.
ActiveRoom_OneMore == ActiveInUse <= MaxActive

ActiveRoom == ActiveInUse < MaxActive

\* setTimer fails if the other users of the timer table left no entry; its
\* result is ignored.
notifyCallbacks(a) ==
  /\ UserCode
  /\ \/ /\ ActiveRoom
        /\ Schedule(a)
        /\ timer_set' \in (IF timer_set THEN {TRUE} ELSE BOOLEAN)
     \/ /\ ~ActiveRoom
        /\ UNCHANGED <<scheduled, timer_set>>
  /\ frames' = Called
  /\ UNCHANGED <<poolVars, callback_deleted>>

\* checkCallbacks descends to the last target of a list that is not empty.
checkCallbacks(list, batch) ==
  /\ callback_deleted' = FALSE
  /\ frames' = Append(Called, [active |-> list, cb |-> First(cbs[Last(list)]),
                               running |-> FALSE, left |-> 0, batch |-> batch])

notifyCallbacksAndWait(a) ==
  /\ UserCode
  /\ \/ /\ ActiveRoom /\ Len(frames) < MaxDepth
        /\ checkCallbacks(<<a>>, FALSE)
     \/ /\ ~ActiveRoom
        /\ frames' = Called
        /\ UNCHANGED callback_deleted
  /\ UNCHANGED <<poolVars, scheduled, timer_set>>

\* stopAllTimers takes callbackTimer along; the scheduled targets stay.
stopAllTimers ==
  /\ UserCode /\ timer_set
  /\ timer_set' = FALSE
  /\ frames' = Called
  /\ UNCHANGED <<poolVars, callback_deleted, scheduled>>

-----------------------------------------------------------------------------
(* The dispatch                                                            *)

\* The event loop removes the expired callbackTimer and calls it.
callbackTimer ==
  /\ frames = <<>> /\ timer_set
  /\ timer_set' = FALSE
  /\ scheduled' = <<>>
  /\ checkCallbacks(scheduled, TRUE)
  /\ UNCHANGED poolVars

Update(f) == frames' = [frames EXCEPT ![Len(frames)] = f]

\* callCallbacks, at the head of its loop.
Standing == frames # <<>> /\ ~Top.running /\ Top.cb # Nil

Skip ==
  /\ Standing /\ deleted[Top.cb]
  /\ Update([Top EXCEPT !.cb = Succ(Top.cb)])
  /\ UNCHANGED <<poolVars, callback_deleted, scheduled, timer_set>>

\* An entry that was never used has no function to call: the program is lost.
Call ==
  /\ Standing /\ ~deleted[Top.cb] /\ key[Top.cb] # NoKey
  /\ Update([Top EXCEPT !.running = TRUE, !.left = MaxCalls])
  /\ UNCHANGED <<poolVars, callback_deleted, scheduled, timer_set>>

\* The list is walked again from its head, as eventLoop walks the listeners.
After_Restart(f) == First(cbs[Last(f.active)])

After(f) == Succ(f.cb)

Return ==
  /\ frames # <<>> /\ Top.running
  /\ Update([Top EXCEPT !.running = FALSE, !.left = 0, !.cb = After(Top)])
  /\ UNCHANGED <<poolVars, callback_deleted, scheduled, timer_set>>

Deleted == {c \in Slots : deleted[c]}

\* The swept entries are unlinked and never given back.
remove_deleted_callbacks_Leak ==
  /\ cbs' = [a \in Addrs |-> Dropping(cbs[a], Deleted)]
  /\ UNCHANGED free

\* The order in which the entries of several targets come to the free list
\* depends on the order of the targets list, which is not kept: any order.
remove_deleted_callbacks ==
  /\ cbs' = [a \in Addrs |-> Dropping(cbs[a], Deleted)]
  /\ \E swept \in SetToSeqs(Deleted \cap UNION {ToSet(cbs[a]) : a \in Addrs}) :
       free' = swept \o free

\* The end of callCallbacks: the active target is freed and the level of
\* checkCallbacks above it, if there is one, goes on with its own.
Served ==
  /\ frames # <<>> /\ ~Top.running /\ Top.cb = Nil
  /\ \/ callback_deleted /\ remove_deleted_callbacks
     \/ ~callback_deleted /\ UNCHANGED <<cbs, free>>
  /\ LET rest == Front(Top.active)
     IN  IF rest = <<>> THEN frames' = Front(frames)
         ELSE Update([Top EXCEPT !.active = rest, !.cb = First(cbs'[Last(rest)])])
  /\ UNCHANGED <<key, deleted, callback_deleted, scheduled, timer_set>>

Dispatch == Skip \/ Call \/ Return \/ Served

Next ==
  \/ \E a \in Addrs, k \in Keys : setCallback(a, k)
  \/ \E a \in Addrs, k \in Keys : stopCallback(a, k)
  \/ \E a \in Addrs : notifyCallbacks(a)
  \/ \E a \in Addrs : notifyCallbacksAndWait(a)
  \/ stopAllTimers
  \/ callbackTimer
  \/ Skip \/ Call \/ Return \/ Served

Spec == Init /\ [][Next]_vars

\* callCallbacks goes on by itself, and a callback returns after its calls.
FairSpec == Spec /\ WF_vars(Dispatch)

-----------------------------------------------------------------------------
(* What the properties rest on                                             *)

\* No entry is in two places, and each is in one.
OnePlace ==
  /\ \A i, j \in DOMAIN free : free[i] = free[j] => i = j
  /\ \A a, b \in Addrs : \A i \in DOMAIN cbs[a], j \in DOMAIN cbs[b] :
       cbs[a][i] = cbs[b][j] => a = b /\ i = j
  /\ \A a \in Addrs : \A i \in DOMAIN free, j \in DOMAIN cbs[a] : free[i] # cbs[a][j]
  /\ \A c \in Slots : c \in ToSet(free) \/ \E a \in Addrs : c \in ToSet(cbs[a])

\* A live entry stands before all others of its target with its func and handle.
LiveFirst ==
  \A a \in Addrs : \A i, j \in DOMAIN cbs[a] :
    i < j /\ key[cbs[a][i]] = key[cbs[a][j]] => deleted[cbs[a][j]]

\* The timer is set only for targets that wait, a dispatch has one to serve, and a
\* function that runs is that of an entry.
SomethingToServe ==
  /\ timer_set => scheduled # <<>>
  /\ \A n \in DOMAIN frames :
       /\ frames[n].active # <<>>
       /\ frames[n].running => frames[n].cb # Nil

-----------------------------------------------------------------------------
(* Properties                                                              *)

\* Every variable has its type and the tables of active targets, of which
\* the scheduled ones and those of all dispatches take an entry, is not
\* overdrawn.
TypeOK ==
  /\ cbs \in [Addrs -> Seq(Slots)]
  /\ free \in Seq(Slots)
  /\ key \in [Slots -> Keys \cup {NoKey}]
  /\ deleted \in [Slots -> BOOLEAN]
  /\ callback_deleted \in BOOLEAN
  /\ scheduled \in Seq(Addrs)
  /\ timer_set \in BOOLEAN
  /\ frames \in Seq(Frame)
  /\ ActiveInUse <= MaxActive

\* No Callback is lost or linked twice, through any nesting of dispatches and
\* sweeps (lines 456-474, 663-714): each is on the free list or in the list of
\* one target, once.
OneListEach ==
  \A c \in Slots :
    Cardinality({i \in DOMAIN free : free[i] = c})
      + Cardinality({p \in UNION {{a} \X DOMAIN cbs[a] : a \in Addrs} : cbs[p[1]][p[2]] = c}) = 1

\* After stopCallback(a, k) no entry of a for k is live, although entries
\* that were stopped and registered anew are in the list several times.
StopIsEffective ==
  [][\A a \in Addrs, k \in Keys : stopCallback(a, k) =>
       \A c \in ToSet(cbs'[a]) : key'[c] = k => deleted'[c]]_vars

\* Notifications are served in the order of the calls: the list is extended at
\* its head and checkCallbacks recurses to its end first (lines 482-484), and
\* what is notified during a dispatch waits for the next one.
Waiting ==
  (IF frames # <<>> /\ frames[1].batch THEN Reverse(frames[1].active) ELSE <<>>)
    \o Reverse(scheduled)

InOrder == INSTANCE NotifyQueue WITH waiting <- Waiting

InOrderSpec == InOrder!Spec

\* callCallbacks only ever stands on an entry of its target's list, never on
\* one that was freed: entries in use "are allocated from static array entries"
\* (event.h, line 25).
StandsOnLinked ==
  \A n \in DOMAIN frames :
    frames[n].cb # Nil => frames[n].cb \in ToSet(cbs[Last(frames[n].active)])

\* The inductive invariant.
IInv == TypeOK /\ IsFiniteSet(Entries) /\ OnePlace /\ LiveFirst /\ SomethingToServe

\* Every dispatch ends, whatever its callbacks register and stop.
DispatchEnds == frames # <<>> ~> frames = <<>>
=============================================================================
