----------------------------- MODULE MCTagStore -----------------------------
(* Two savers and a reader of one file; one tag with one value. *)
EXTENDS TagStore

CONSTANTS a, none, v, r, s1, s2

OneReader == {r}
TwoSavers == {s1, s2}
AllTags == [p \in {r, s1, s2} |-> {a}]
OneTag == {a}
TagOrder == a :> 1
TwoValues == {none, v}
AtFirst == {}
Alike == Permutations(TwoSavers)
AllModes == {"quick", "auto"}
=============================================================================
