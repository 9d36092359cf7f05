------------------------------ MODULE TagList ------------------------------
(***************************************************************************)
(* The tag lists of testCases/taglist/taglist.c in memory, each operation  *)
(* as a function of its arguments: items <<tag, value>> and the flag       *)
(* sorted, under which items are kept in the order of their tags and found *)
(* by binary search.  A file or a text is a sequence of lines, each an     *)
(* item; lines that hold none are left out.  Positions count from 0 as in  *)
(* the code, -1 is "not found".                                            *)
(***************************************************************************)
EXTENDS Integers, Sequences, FiniteSets, SequencesExt, SeqSort

CONSTANTS
  Tags,
  TagRank,    \* the place of a tag in the order of strcmp
  Values,
  NoValue     \* the empty value

ASSUME TagAssumption ==
  /\ TagRank \in [Tags -> Nat] /\ IsInjective(TagRank)
  /\ NoValue \in Values

create_taglist == [item |-> <<>>, sorted |-> FALSE]

\* Below, at or above the item at pos: the sign of strcmp.
Compare(tag, items, pos) == TagRank[tag] - TagRank[items[pos + 1][1]]

\* The place of the tag in items, or the place to insert it at.
bsearch_pos(items, tag) ==
  LET n == Len(items)
      pos[range \in (0 .. n) \X (-1 .. n - 1)] ==
        LET low  == range[1]
            high == range[2]
            mid  == (high + low) \div 2
        IN  IF low < high
              THEN IF Compare(tag, items, mid) = 0 THEN mid
                   ELSE IF Compare(tag, items, mid) < 0 THEN pos[<<low, mid - 1>>]
                   ELSE pos[<<mid + 1, high>>]
              ELSE IF low = high /\ Compare(tag, items, low) > 0 THEN low + 1 ELSE low
  IN  pos[<<0, n - 1>>]

IsAt(items, pos, tag) == pos < Len(items) /\ items[pos + 1][1] = tag

search_taglist(list, tag) ==
  IF list.sorted
    THEN LET pos == bsearch_pos(list.item, tag)
         IN  IF IsAt(list.item, pos, tag) THEN pos ELSE -1
    ELSE SelectInSeq(list.item, LAMBDA item : item[1] = tag) - 1

exist_taglist(list, tag) == search_taglist(list, tag) >= 0

get_taglist_default(list, default, tag) ==
  LET pos == search_taglist(list, tag)
  IN  IF pos >= 0 /\ list.item[pos + 1][2] # NoValue THEN list.item[pos + 1][2] ELSE default

get_taglist(list, tag) == get_taglist_default(list, NoValue, tag)

-----------------------------------------------------------------------------
sort_taglist(list) ==
  [item |-> SortedBy(list.item, [item \in ToSet(list.item) |-> TagRank[item[1]]]), sorted |-> TRUE]

unsort_taglist(list) == [list EXCEPT !.sorted = FALSE]

insert_taglist_pos(list, pos, item) == [list EXCEPT !.item = InsertAt(@, pos + 1, item)]

\* Without an order to keep, the last item fills the gap.
remove_taglist_pos(list, pos) ==
  [list EXCEPT !.item =
     IF list.sorted THEN RemoveAt(list.item, pos + 1)
                    ELSE Front([list.item EXCEPT ![pos + 1] = Last(list.item)])]

insert_taglist(list, item) ==
  LET pos == IF list.sorted THEN bsearch_pos(list.item, item[1]) ELSE Len(list.item)
  IN  IF (IF list.sorted THEN IsAt(list.item, pos, item[1]) ELSE exist_taglist(list, item[1]))
        THEN list ELSE insert_taglist_pos(list, pos, item)

remove_taglist(list, tag) ==
  LET pos == search_taglist(list, tag)
  IN  IF pos >= 0 THEN remove_taglist_pos(list, pos) ELSE list

replace_taglist(list, item) ==
  LET pos   == bsearch_pos(list.item, item[1])
      other == remove_taglist(list, item[1])
  IN  IF ~list.sorted THEN insert_taglist_pos(other, Len(other.item), item)
      ELSE IF IsAt(list.item, pos, item[1]) THEN [list EXCEPT !.item[pos + 1] = item]
      ELSE insert_taglist_pos(list, pos, item)

\* A mutant: an empty value is stored like any other.
update_taglist_Keep(list, value, tag) == replace_taglist(list, <<tag, value>>)

update_taglist(list, value, tag) ==
  IF value # NoValue THEN replace_taglist(list, <<tag, value>>) ELSE remove_taglist(list, tag)

\* Is there a difference?
compare_taglist(a, b) ==
  \/ Len(a.item) # Len(b.item)
  \/ IF a.sorted /\ b.sorted
       THEN \E i \in DOMAIN a.item : a.item[i] # b.item[i]
       ELSE \E i \in DOMAIN a.item : get_taglist(b, a.item[i][1]) # a.item[i][2]

-----------------------------------------------------------------------------
\* The lines read into an empty list that is sorted or not; only tags that begin
\* with the restricted prefix count, prefix is the set of them.
read_taglist(lines, sorted, prefix) ==
  FoldLeft(LAMBDA list, line : IF line[1] \in prefix THEN insert_taglist(list, line) ELSE list,
           [create_taglist EXCEPT !.sorted = sorted], lines)

dump_taglist(list) == list.item

-----------------------------------------------------------------------------
\* What a list says: a value for every tag on it.
MapOf(list) ==
  [tag \in {list.item[i][1] : i \in DOMAIN list.item} |->
     list.item[CHOOSE i \in DOMAIN list.item : list.item[i][1] = tag][2]]

\* A map with one more pair, or with another value for a tag.
Entered(map, item) ==
  [tag \in DOMAIN map \cup {item[1]} |-> IF tag = item[1] THEN item[2] ELSE map[tag]]

InTagOrder(items) ==
  \A i, j \in DOMAIN items : i < j => TagRank[items[i][1]] < TagRank[items[j][1]]

OneItemEach(items) == \A i, j \in DOMAIN items : items[i][1] = items[j][1] => i = j
=============================================================================
