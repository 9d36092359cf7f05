------------------------------ MODULE NumList ------------------------------
(***************************************************************************)
(* The number lists of testCases/taglist/numlist.c, each operation as a    *)
(* function of its arguments, and the map of ddm.h that finds duplicates.  *)
(*                                                                         *)
(* A list is its items, in order, and allow_multiple; a NULL argument list *)
(* behaves as an empty one wherever the code accepts it.  Memory is always *)
(* granted.  Numbers are not negative: create_numlist stops reading at the *)
(* first that is, and get_free_numlist would index its map with it.        *)
(* Positions count from 1, 0 is "not found".                               *)
(***************************************************************************)
EXTENDS Integers, Sequences, FiniteSets, SequencesExt, SeqDrop, SeqSort

CONSTANTS
  DdmSize,    \* STRUTILS_NUMLIST_DDM_SIZE, slots of the map
  WordBits,   \* BITS_PER_DDM_T, bits of a slot
  IntBits,    \* width of the constant 1 that is shifted
  Base        \* the base numbers are written in

ASSUME NumAssumption ==
  /\ DdmSize \in Nat \ {0} /\ IntBits \in Nat \ {0} /\ Base \in Nat \ {0, 1}
  /\ WordBits \in Nat /\ WordBits >= IntBits

List(items, multiple) == [item |-> items, multiple |-> multiple]

-----------------------------------------------------------------------------
(* __DDM_check_ex.  The constant 1 is an int: shifted into its sign bit it *)
(* is extended over the rest of the word, and shifted further the          *)
(* processor reduces the count modulo the width of an int.                 *)

Covered(num) == num \div DdmSize < WordBits

DdmBits(num) ==
  LET shift == (num \div DdmSize) % IntBits
  IN  {num % DdmSize} \X
        (IF shift = IntBits - 1 THEN shift .. WordBits - 1 ELSE {shift})

\* Numbers that have a bit of their own.
OwnBit(num) == num \div DdmSize < IntBits - 1

-----------------------------------------------------------------------------
exist_pos(items, num, upper_bound) ==
  LET top == IF 0 < upper_bound /\ upper_bound <= Len(items)
               THEN upper_bound ELSE Len(items)
  IN  Max({0} \cup {i \in 1 .. top : items[i] = num})

exist_numlist(list, num) == exist_pos(list.item, num, 0) # 0

\* A mutant: the bits of a number are not recorded.
Pass_Forgets(acc, num, found) ==
  [seen |-> acc.seen,
   kept |-> IF ~Covered(num) /\ found THEN acc.kept ELSE Append(acc.kept, num)]

\* One turn of a loop that drops duplicates: the map decides, or, for a number
\* it does not cover, the search whose outcome is found.
Pass(acc, num, found) ==
  LET bits == DdmBits(num)
  IN  [seen |-> IF Covered(num) THEN acc.seen \cup bits ELSE acc.seen,
       kept |-> IF (IF Covered(num) THEN acc.seen \cap bits # {} ELSE found)
                  THEN acc.kept ELSE Append(acc.kept, num)]

Nothing == [seen |-> {}, kept |-> <<>>]

\* The numbers one after the other, each looked for among those kept.
Deduplicated(nums) ==
  LET Add(acc, num) == Pass(acc, num, exist_pos(acc.kept, num, 0) # 0)
  IN  FoldLeft(Add, Nothing, nums).kept

\* create_numlist: numbers up to the first word that is not one (negative here).
create_numlist(words, multiple) ==
  LET stop == CHOOSE i \in 1 .. Len(words) + 1 :
                /\ i <= Len(words) => words[i] < 0
                /\ \A j \in 1 .. i - 1 : words[j] >= 0
      read == SubSeq(words, 1, stop - 1)
  IN  List(IF multiple THEN read ELSE Deduplicated(read), multiple)

unique_numlist(list) ==
  LET Add(acc, i) ==
        LET here  == acc.kept \o SubSeq(list.item, Len(acc.kept) + 1, Len(list.item))
            found == exist_pos(here, list.item[i], Len(acc.kept)) # 0
        IN  Pass(acc, list.item[i], found)
      upto == [i \in 1 .. Len(list.item) - 1 |-> i]
  IN  IF list.multiple
        THEN [list EXCEPT !.item = FoldLeft(Add, Nothing, upto).kept]
        ELSE list

set_numlist_multiple(list, multiple) ==
  IF multiple = list.multiple
    THEN list
    ELSE List(IF multiple THEN list.item ELSE unique_numlist(list).item, multiple)

sort_numlist(list) == [list EXCEPT !.item = SortedBy(@, [n \in ToSet(@) |-> n])]
sort_numlist_reverse(list) == [list EXCEPT !.item = SortedBy(@, [n \in ToSet(@) |-> -n])]

-----------------------------------------------------------------------------
insert_numlist(list, num) ==
  IF list.multiple \/ ~exist_numlist(list, num)
    THEN [list EXCEPT !.item = Append(@, num)] ELSE list

\* A mutant: the two items change places.
Shift_Swap(items, cursor, pos) ==
  [items EXCEPT ![pos] = items[cursor], ![cursor] = items[pos]]

\* The item at cursor, moved to pos; those between make room.
Shift(items, cursor, pos) ==
  [i \in DOMAIN items |->
     IF i = pos THEN items[cursor]
     ELSE IF pos < i /\ i <= cursor THEN items[i - 1]
     ELSE IF cursor <= i /\ i < pos THEN items[i + 1]
     ELSE items[i]]

\* pos counts from 0 as the caller gives it.
insert_numlist_at_pos(list, pos, num) ==
  LET full   == insert_numlist(list, num)
      size   == Len(full.item)
      target == IF pos >= size THEN size ELSE IF pos < 0 THEN 1 ELSE pos + 1
  IN  [full EXCEPT !.item = Shift(@, exist_pos(@, num, 0), target)]

unshift_numlist(list, num) == insert_numlist_at_pos(list, 0, num)

\* A mutant: the loop over all copies is missing.
remove_numlist_Once(list, num) ==
  [list EXCEPT !.item =
     IF exist_numlist(list, num) THEN RemoveAt(@, exist_pos(@, num, 0)) ELSE @]

remove_numlist(list, num) ==
  [list EXCEPT !.item =
     IF list.multiple THEN Dropping(@, {num})
     ELSE IF exist_numlist(list, num) THEN RemoveAt(@, exist_pos(@, num, 0))
     ELSE @]

union_numlist(list, transient) == FoldLeft(insert_numlist, list, transient.item)

yinyan_numlist(list, transient, yin) ==
  [list EXCEPT !.item =
     Dropping(@, {x \in ToSet(@) : exist_numlist(transient, x) # yin})]

intersect_numlist(list, transient) == yinyan_numlist(list, transient, TRUE)
except_numlist(list, transient) == yinyan_numlist(list, transient, FALSE)

-----------------------------------------------------------------------------
\* The items of fragment that are in the list.
Chain(list, fragment) ==
  intersect_numlist(union_numlist(create_numlist(<<>>, FALSE), fragment), list)

\* What makes reorder_numlist return 0, the list untouched.
reorder_fails(list, fragment, ref) ==
  LET chain == Chain(list, fragment)
  IN  \/ list.multiple
      \/ /\ chain.item # <<>> /\ ref.item # <<>>
         /\ \/ \E i \in DOMAIN ref.item : exist_numlist(chain, ref.item[i])
            \/ ~ \E i \in DOMAIN ref.item : exist_numlist(list, ref.item[i])

\* A mutant: the first item of the reference instead of the last.
ref_pos_First(items, ref) ==
  LET found == {i \in DOMAIN items : exist_numlist(ref, items[i])}
  IN  IF found = {} THEN 0 ELSE Min(found)

\* Behind which item the chain goes.
ref_pos(items, ref) == Max({0} \cup {i \in DOMAIN items : exist_numlist(ref, items[i])})

\* The list without the chain is made as long as it will be, what follows the
\* reference is moved to its end and the gap is filled with the chain.
reorder_numlist(list, fragment, ref) ==
  LET chain   == Chain(list, fragment)
      rest    == except_numlist(list, chain)
      pos     == ref_pos(rest.item, ref)
      size    == Len(chain.item)
  IN  IF reorder_fails(list, fragment, ref) THEN list
      ELSE [union_numlist(rest, chain) EXCEPT !.item =
              [i \in DOMAIN @ |-> IF i <= pos THEN @[i]
                                  ELSE IF i <= pos + size THEN chain.item[i - pos]
                                  ELSE @[i - size]]]

-----------------------------------------------------------------------------
\* A mutant: the slot of the size of the list is not marked.
UsageMap_Short(items) ==
  LET Mark(map, num) ==
        IF num + 1 < Len(items) + 1 THEN [map EXCEPT ![num] = map[num + 1] + 1] ELSE map
  IN  FoldRight(LAMBDA num, map : Mark(map, num), items, [v \in 0 .. Len(items) + 1 |-> 0])

\* map[v] becomes a number of steps over occupied slots; items from the last to
\* the first.
UsageMap(items) ==
  LET Mark(map, num) ==
        IF num + 1 < Len(items) + 2 THEN [map EXCEPT ![num] = map[num + 1] + 1] ELSE map
  IN  FoldRight(LAMBDA num, map : Mark(map, num), items, [v \in 0 .. Len(items) + 1 |-> 0])

get_free_numlist(list) ==
  LET map == UsageMap(list.item)
      walk[i \in Nat] ==
        IF i < Len(list.item) + 2 /\ map[i] > 0 THEN walk[i + map[i]] ELSE i
  IN  walk[1]

-----------------------------------------------------------------------------
\* Characters of a number that is not negative.
Width(num) ==
  LET width[n \in 0 .. num] == IF n < Base THEN 1 ELSE 1 + width[n \div Base]
  IN  width[num]

\* The size of the buffer: as if every number were as long as the largest, with a
\* blank before it.
resultz(items) == Len(items) * (1 + Width(Max({0} \cup ToSet(items))))

\* The numbers that get into the buffer whole.
serialize_numlist(list) ==
  LET items   == list.item
      ends[i \in 0 .. Len(items)] ==
        IF i = 0 THEN 0 ELSE ends[i - 1] + Width(items[i]) + (IF i > 1 THEN 1 ELSE 0)
  IN  SubSeq(items, 1, Max({i \in 0 .. Len(items) : i = 0 \/ ends[i] <= resultz(items) - 1}))
=============================================================================
