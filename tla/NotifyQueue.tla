----------------------------- MODULE NotifyQueue -----------------------------
(***************************************************************************)
(* What notifyCallbacks of event.c promises: every notification that finds *)
(* room is served, once, in the order of the calls.  A notification that   *)
(* does not fit is dropped without a word, so that step is a stutter here. *)
(***************************************************************************)
EXTENDS Sequences

CONSTANT Addrs       \* the addresses that can be notified

VARIABLE waiting     \* notified and not yet served to the end, oldest first

Init == waiting = <<>>

Notify(a) == waiting' = Append(waiting, a)

Serve == waiting # <<>> /\ waiting' = Tail(waiting)

Next == (\E a \in Addrs : Notify(a)) \/ Serve

Spec == Init /\ [][Next]_waiting
=============================================================================
