----------------------------- MODULE MCEventLoop -----------------------------
(* Small instances of EventLoop for TLC. *)
EXTENDS EventLoop, TLC

CONSTANTS h1, h2, h3, f1, f2, f3

ThreeHandlers == {h1, h2, h3}
ThreeFds    == {f1, f2, f3}
Alike       == Permutations(Handlers) \cup Permutations(Fds)
SomeTypes   == {"Read", "ReadWrite"}
NowOrLater  == {0, 3}
=============================================================================
