--------------------------- MODULE MCWtpLifecycle ---------------------------
(* One timer is enough for timer_init and timer_destroy to meet the ticker. *)
EXTENDS WtpLifecycle

OneDelay == {1}
NoLag    == {0}
=============================================================================
