----------------------------- MODULE MCWtpTimer -----------------------------
(* Small instances of WtpTimer for TLC. *)
EXTENDS WtpTimer

ShortAndLong  == {1, 3}
NoLag         == {0}
SomeLag       == {0, 2}
=============================================================================
