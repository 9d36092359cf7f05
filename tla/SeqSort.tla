------------------------------ MODULE SeqSort ------------------------------
(***************************************************************************)
(* What qsort leaves of an array: its elements in the order of their keys. *)
(***************************************************************************)
EXTENDS Integers, Sequences, Functions

\* seq in the order of key, a function from its elements to numbers.
SortedBy(seq, key) ==
  LET order == CHOOSE p \in Injection(DOMAIN seq, DOMAIN seq) :
                 \A i, j \in DOMAIN seq : i < j => key[seq[p[i]]] <= key[seq[p[j]]]
  IN  [i \in DOMAIN seq |-> seq[order[i]]]
=============================================================================
