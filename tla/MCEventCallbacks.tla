-------------------------- MODULE MCEventCallbacks --------------------------
(* Small instances of EventCallbacks for TLC. *)
EXTENDS EventCallbacks, TLC

CONSTANTS a1, a2, k1, k2

TwoAddrs == {a1, a2}
TwoKeys  == {k1, k2}
=============================================================================
