------------------------------ MODULE MCLists ------------------------------
(***************************************************************************)
(* Small instances of Lists for TLC.  The map of ddm.h has three slots of  *)
(* four bits and integers have two: 0, 1 and 2 have bits of their own, 6   *)
(* gets the bit of 0, and 12 is not covered.  Numbers are written in base  *)
(* three, so that they differ in length.                                   *)
(***************************************************************************)
EXTENDS Lists

CONSTANTS t1, t2, t3, t4, none, v, noid

FiveNumbers == {0, 1, 2, 6, 12}

\* In the order of strcmp; itoa writes five of them, strtol reads 1 in "1x".
\* One string holds a separator and one, with a blank, what is a word of its own in the
\* text of a link list.
InOrder == <<"", "0", "1", "1,x", "12", "1x", "2", "6", "x", "x 0:1">>
SomeStrings == ToSet(InOrder)
StringRank == [s \in SomeStrings |-> CHOOSE i \in DOMAIN InOrder : InOrder[i] = s]
Text == 0 :> "0" @@ 1 :> "1" @@ 2 :> "2" @@ 6 :> "6" @@ 12 :> "12"
Number == [s \in SomeStrings |->
             IF s \in {Text[n] : n \in FiveNumbers} THEN CHOOSE n \in FiveNumbers : Text[n] = s
             ELSE IF s \in {"1x", "1,x"} THEN 1 ELSE 0]
Parts == [s \in SomeStrings |-> IF s = "1,x" THEN <<"1", "x">> ELSE <<s>>]
PartWords == [s \in SomeStrings |->
                IF s = "x 0:1" THEN << <<noid, <<"x">>>>, <<0, <<"1">>>> >>
                ELSE << <<noid, Parts[s]>> >>]
SomeFew == {"", "1", "1,x", "x 0:1"}

FourTags == {t1, t2, t3, t4}
TagOrder == t1 :> 1 @@ t2 :> 2 @@ t3 :> 3 @@ t4 :> 4
TwoValues == {none, v}
=============================================================================
