------------------------------- MODULE SeqDrop -------------------------------
(***************************************************************************)
(* The loop that unlinks entries from a list, which testCases/timer        *)
(* (cwmpc)/event.c writes out in stopTimer, stopListener and               *)
(* remove_deleted_callbacks, as a recursive function: the proofs can       *)
(* unfold it, what they cannot do with SelectSeq.                          *)
(***************************************************************************)
EXTENDS Integers, Sequences

\* seq without its elements that are in S, the others in their order.
Dropping(seq, S) ==
  LET kept[n \in 0 .. Len(seq)] ==
        IF n = 0 THEN <<>>
        ELSE IF seq[n] \in S THEN kept[n - 1] ELSE Append(kept[n - 1], seq[n])
  IN  kept[Len(seq)]
=============================================================================
