----------------------------- MODULE ListsProofs -----------------------------
(***************************************************************************)
(* Proofs about the list libraries: what every function returns for any    *)
(* list and argument, and from that the properties of Lists, for all       *)
(* numbers, strings, tags and sequences of calls.  The loops of the code   *)
(* are folds, proved by what holds after each turn.                        *)
(***************************************************************************)
EXTENDS Lists, SequenceFacts

-----------------------------------------------------------------------------
(* Lists                                                                   *)

\* Lists of elements of T.
ListOf(T) == [item : Seq(T), multiple : BOOLEAN]

\* The place found by exist_pos: the last one where the number is, up to the bound.
LEMMA ExistPos ==
  ASSUME NEW T, NEW items \in Seq(T), NEW num, NEW upper_bound \in Int
  PROVE  LET top == IF 0 < upper_bound /\ upper_bound <= Len(items)
                      THEN upper_bound ELSE Len(items)
             p == exist_pos(items, num, upper_bound)
         IN  /\ p \in 0 .. top
             /\ p # 0 => items[p] = num
             /\ \A i \in 1 .. top : items[i] = num => i <= p
<1> DEFINE top == IF 0 < upper_bound /\ upper_bound <= Len(items)
                    THEN upper_bound ELSE Len(items)
           S == {0} \cup {i \in 1 .. top : items[i] = num}
<1>1. top \in 0 .. Len(items) /\ Len(items) \in Nat
  OBVIOUS
<1> HIDE DEF top
<1>2. S \subseteq Int /\ S # {} /\ top \in Int /\ \A x \in S : x <= top
  BY <1>1
<1>3. Max(S) \in S /\ \A y \in S : Max(S) >= y
  <2> HIDE DEF S
  <2>1. QED
    BY <1>2, MaxProps
<1>4. exist_pos(items, num, upper_bound) = Max(S)
  BY DEF exist_pos, top
<1>5. QED
  BY <1>1, <1>3, <1>4 DEF top

\* Without a bound it says whether the number is a member.
LEMMA ExistsMember ==
  ASSUME NEW T, NEW items \in Seq(T), NEW num
  PROVE  /\ exist_pos(items, num, 0) \in 0 .. Len(items)
         /\ exist_pos(items, num, 0) # 0 <=> num \in ToSet(items)
         /\ exist_pos(items, num, 0) # 0 => items[exist_pos(items, num, 0)] = num
<1>1. /\ exist_pos(items, num, 0) \in 0 .. Len(items)
      /\ exist_pos(items, num, 0) # 0 => items[exist_pos(items, num, 0)] = num
      /\ \A i \in 1 .. Len(items) : items[i] = num => i <= exist_pos(items, num, 0)
  BY ExistPos
<1>2. num \in ToSet(items) <=> \E i \in 1 .. Len(items) : items[i] = num
  BY ToSetProps
<1>3. QED
  BY <1>1, <1>2

\* A list without repetitions, unless it allows them; or with one.
Unique(list) == list.multiple \/ IsInjective(list.item)
Almost(list) == list.multiple \/ \E k : DistinctBut(list.item, k)

\* What an operation that adds nothing returns.
Thinned(T, list, new) ==
  /\ new \in ListOf(T) /\ new.multiple = list.multiple
  /\ Len(new.item) <= Len(list.item)
  /\ Unique(list) => Unique(new)
  /\ Almost(list) => Almost(new)

\* Such is a list made of items picked from it.
LEMMA PicksThin ==
  ASSUME NEW T, NEW list \in ListOf(T), NEW items, NEW at, Picks(T, list.item, items, at)
  PROVE  Thinned(T, list, [list EXCEPT !.item = items])
<1> DEFINE new == [list EXCEPT !.item = items]
<1>1. new \in ListOf(T) /\ new.multiple = list.multiple /\ new.item = items /\ list.item \in Seq(T)
  BY DEF ListOf, Picks
<1> HIDE DEF new
<1>2. /\ Len(items) <= Len(list.item)
      /\ IsInjective(list.item) => IsInjective(items)
      /\ \A k : DistinctBut(list.item, k) => \E l : DistinctBut(items, l)
  BY <1>1, PicksProps
<1>3. QED
  BY <1>1, <1>2 DEF Thinned, Unique, Almost, new

\* insert_numlist and insert_iplist.
LEMMA Inserts ==
  ASSUME NEW T, NEW list \in ListOf(T), NEW e \in T
  PROVE  /\ insert_iplist(list, e) = insert_numlist(list, e)
         /\ insert_numlist(list, e) \in ListOf(T)
         /\ insert_numlist(list, e).multiple = list.multiple
         /\ ToSet(insert_numlist(list, e).item) = ToSet(list.item) \cup {e}
         /\ Unique(list) => Unique(insert_numlist(list, e))
         /\ Almost(list) => Almost(insert_numlist(list, e))
         /\ insert_numlist(list, e).item =
              IF list.multiple \/ e \notin ToSet(list.item)
                THEN Append(list.item, e) ELSE list.item
<1> DEFINE new == insert_numlist(list, e)
<1>1. /\ list.item \in Seq(T) /\ list.multiple \in BOOLEAN
      /\ list = [item |-> list.item, multiple |-> list.multiple]
  BY DEF ListOf
<1>2. exist_numlist(list, e) <=> e \in ToSet(list.item)
  BY <1>1, ExistsMember DEF exist_numlist
<1>3. insert_iplist(list, e) = new
  BY DEF insert_iplist, insert_numlist, exist_iplist, exist_numlist
<1>4. /\ new.item = IF list.multiple \/ e \notin ToSet(list.item)
                      THEN Append(list.item, e) ELSE list.item
      /\ new.multiple = list.multiple
      /\ new = [item |-> new.item, multiple |-> new.multiple]
  BY <1>1, <1>2 DEF insert_numlist
<1> HIDE DEF new
<1>5. new.item \in Seq(T)
  BY <1>1, <1>4
<1>6. new \in ListOf(T)
  BY <1>1, <1>4, <1>5 DEF ListOf
<1>7. /\ ToSet(Append(list.item, e)) = ToSet(list.item) \cup {e}
      /\ IsInjective(list.item) /\ e \notin ToSet(list.item) => IsInjective(Append(list.item, e))
      /\ \A k : DistinctBut(list.item, k) /\ e \notin ToSet(list.item) =>
           \E l : DistinctBut(Append(list.item, e), l)
  BY <1>1, AppendProps
<1>8. ToSet(new.item) = ToSet(list.item) \cup {e}
  BY <1>4, <1>7
<1>9. Unique(list) => Unique(new)
  BY <1>4, <1>7 DEF Unique
<1>10. Almost(list) => Almost(new)
  BY <1>4, <1>7 DEF Almost
<1>11. QED
  BY <1>3, <1>4, <1>6, <1>8, <1>9, <1>10 DEF new

\* union_numlist and union_iplist: the numbers are inserted one after the other.
InsertStep(T, s) == [p \in ListOf(T) \X (1 .. Len(s)) |-> insert_numlist(p[1], s[p[2]])]

\* The union is a run of insertions.
LEMMA UnionRuns ==
  ASSUME NEW T, NEW list \in ListOf(T), NEW s \in Seq(T)
  PROVE  \E f : /\ LeftRun(ListOf(T), Len(s), list, InsertStep(T, s), f)
                /\ FoldLeft(insert_numlist, list, s) = f[1 .. Len(s)]
<1> DEFINE N == Len(s)
           A == ListOf(T)
           step == InsertStep(T, s)
           it == CHOOSE f : f = [S \in SUBSET (1 .. N) |->
                                   IF S = {} THEN list ELSE insert_numlist(f[S \ {Max(S)}], s[Max(S)])]
<1>1. N \in Nat /\ DOMAIN s = 1 .. N /\ \A m \in 1 .. N : s[m] \in T
  OBVIOUS
<1>2. \A a \in A, m \in 1 .. N : insert_numlist(a, s[m]) \in A /\ step[<<a, m>>] = insert_numlist(a, s[m])
  BY <1>1, Inserts DEF InsertStep
<1>3. Steps(A, N, list, step)
  <2>1. step \in [A \X (1 .. N) -> A]
    BY <1>1, <1>2 DEF InsertStep
  <2>2. QED
    BY <1>1, <2>1 DEF Steps
<1>4. FoldLeft(insert_numlist, list, s) = it[1 .. N]
  BY <1>1 DEF FoldLeft, MapThenFoldSet
<1> HIDE DEF A, step, N
<1>5. PICK f : f = [S \in SUBSET (1 .. N) |-> f[S]] /\ LeftFold(A, N, list, step, f)
  BY <1>3, LeftFolds
<1>6. it = [S \in SUBSET (1 .. N) |->
              IF S = {} THEN list ELSE insert_numlist(it[S \ {Max(S)}], s[Max(S)])]
  <2>1. \A S \in SUBSET (1 .. N) :
          f[S] = IF S = {} THEN list ELSE insert_numlist(f[S \ {Max(S)}], s[Max(S)])
    BY <1>2, <1>5 DEF LeftFold
  <2>2. f = [S \in SUBSET (1 .. N) |->
               IF S = {} THEN list ELSE insert_numlist(f[S \ {Max(S)}], s[Max(S)])]
    BY <1>5, <2>1
  <2>3. QED
    BY <2>2
<1> HIDE DEF it
<1>7. LeftRun(A, N, list, step, it)
  BY <1>2, <1>3, <1>6, LeftRuns
<1>8. QED
  BY <1>4, <1>7 DEF A, N, step

\* What the list is after the first m numbers of s.
United(T, list, s, m, a) ==
  /\ a \in ListOf(T) /\ a.multiple = list.multiple
  /\ ToSet(a.item) = ToSet(list.item) \cup {s[i] : i \in 1 .. m}
  /\ Len(a.item) <= Len(list.item) + m
  /\ Unique(list) => Unique(a)
  /\ Almost(list) => Almost(a)
  /\ IsInjective(s) /\ ToSet(s) \cap ToSet(list.item) = {} =>
       /\ Len(a.item) = Len(list.item) + m
       /\ \A i \in 1 .. Len(list.item) : a.item[i] = list.item[i]
       /\ \A i \in 1 .. m : a.item[Len(list.item) + i] = s[i]

\* What the union holds when all the numbers are inserted.
LEMMA Unites ==
  ASSUME NEW T, NEW list \in ListOf(T), NEW s \in Seq(T)
  PROVE  United(T, list, s, Len(s), FoldLeft(insert_numlist, list, s))
<1>1. PICK f : /\ LeftRun(ListOf(T), Len(s), list, InsertStep(T, s), f)
               /\ FoldLeft(insert_numlist, list, s) = f[1 .. Len(s)]
  BY UnionRuns
<1> DEFINE N == Len(s)
           G == {m \in 0 .. N : United(T, list, s, m, f[1 .. m])}
<1>2. N \in Nat /\ DOMAIN s = 1 .. N /\ \A m \in 1 .. N : s[m] \in T
  OBVIOUS
<1>3. /\ f[1 .. 0] = list
      /\ \A m \in 1 .. N : f[1 .. m - 1] \in ListOf(T) /\ f[1 .. m] = insert_numlist(f[1 .. m - 1], s[m])
  BY <1>1, <1>2 DEF LeftRun, InsertStep
<1>4. list.item \in Seq(T) /\ Len(list.item) \in Nat
  BY DEF ListOf
<1> HIDE DEF N
<1>5. 0 \in G
  <2>1. {s[i] : i \in 1 .. 0} = {}
    OBVIOUS
  <2>2. United(T, list, s, 0, list)
    BY <1>4, <2>1 DEF United
  <2>3. QED
    BY <1>2, <1>3, <2>2
<1>6. ASSUME NEW m \in 1 .. N, m - 1 \in G
      PROVE  m \in G
  <2> DEFINE a == f[1 .. m - 1]
             e == s[m]
             b == insert_numlist(a, e)
  <2>1. a \in ListOf(T) /\ f[1 .. m] = b /\ e \in T
    BY <1>2, <1>3
  <2>2. United(T, list, s, m - 1, a)
    BY <1>6
  <2> HIDE DEF a, e
  <2>3. /\ b \in ListOf(T) /\ b.multiple = a.multiple
        /\ ToSet(b.item) = ToSet(a.item) \cup {e}
        /\ Unique(a) => Unique(b)
        /\ Almost(a) => Almost(b)
        /\ b.item = IF a.multiple \/ e \notin ToSet(a.item)
                      THEN Append(a.item, e) ELSE a.item
    BY <2>1, Inserts
  <2> HIDE DEF b
  <2> USE DEF e
  <2>4. {s[i] : i \in 1 .. m} = {s[i] : i \in 1 .. m - 1} \cup {s[m]}
    <3>1. 1 .. m = 1 .. m - 1 \cup {m}
      BY <1>2
    <3>2. QED
      BY <3>1
  <2>5. ASSUME IsInjective(s), ToSet(s) \cap ToSet(list.item) = {}
        PROVE  /\ Len(b.item) = Len(list.item) + m
               /\ \A i \in 1 .. Len(list.item) : b.item[i] = list.item[i]
               /\ \A i \in 1 .. m : b.item[Len(list.item) + i] = s[i]
    <3>1. /\ Len(a.item) = Len(list.item) + (m - 1)
          /\ \A i \in 1 .. Len(list.item) : a.item[i] = list.item[i]
          /\ \A i \in 1 .. m - 1 : a.item[Len(list.item) + i] = s[i]
      BY <2>2, <2>5 DEF United
    <3>2. s[m] \notin ToSet(a.item)
      <4>1. s[m] \notin {s[i] : i \in 1 .. m - 1}
        <5>1. \A i \in 1 .. m - 1 : i \in 1 .. N /\ i # m
          BY <1>2
        <5>2. QED
          BY <1>2, <2>5, <5>1 DEF IsInjective
      <4>2. s[m] \in ToSet(s)
        BY <1>2 DEF ToSet
      <4>3. QED
        BY <2>2, <2>5, <4>1, <4>2 DEF United
    <3>3. b.item = Append(a.item, s[m]) /\ a.item \in Seq(T)
      BY <2>1, <2>3, <3>2 DEF ListOf
    <3>4. Len(list.item) + m = Len(a.item) + 1 /\ m \in Nat
      BY <1>2, <1>4, <3>1
    <3>5. /\ Len(b.item) = Len(a.item) + 1
          /\ \A i \in 1 .. Len(a.item) : b.item[i] = a.item[i]
          /\ b.item[Len(a.item) + 1] = s[m]
      BY <2>1, <3>3
    <3>6. \A i \in 1 .. Len(list.item) : i \in 1 .. Len(a.item)
      BY <1>4, <3>1, <3>4
    <3>7. ASSUME NEW i \in 1 .. m
          PROVE  b.item[Len(list.item) + i] = s[i]
      <4>1. CASE i = m
        BY <3>4, <3>5, <4>1
      <4>2. CASE i # m
        <5>1. i \in 1 .. m - 1 /\ Len(list.item) + i \in 1 .. Len(a.item)
          BY <1>4, <3>1, <3>4, <4>2
        <5>2. QED
          BY <3>1, <3>5, <5>1
      <4>3. QED
        BY <4>1, <4>2
    <3>8. QED
      BY <3>1, <3>4, <3>5, <3>6, <3>7
  <2>9. Len(b.item) <= Len(list.item) + m
    <3>1. Len(a.item) <= Len(list.item) + (m - 1) /\ a.item \in Seq(T) /\ m \in Nat
      BY <1>2, <2>1, <2>2 DEF United, ListOf
    <3>2. Len(b.item) <= Len(a.item) + 1 /\ Len(a.item) \in Nat
      BY <2>1, <2>3, <3>1
    <3>3. Len(b.item) \in Nat
      BY <2>3 DEF ListOf
    <3>4. QED
      BY <1>4, <3>1, <3>2, <3>3
  <2>6. United(T, list, s, m, b)
    BY <2>2, <2>3, <2>4, <2>5, <2>9 DEF United
  <2>7. m \in 0 .. N
    BY <1>2
  <2>8. QED
    BY <2>1, <2>6, <2>7
<1> HIDE DEF G
<1>7. N \in G
  <2>1. \A m \in 0 .. N : m \in G
    BY <1>2, <1>5, <1>6, UpTo
  <2>2. QED
    BY <1>2, <2>1
<1>8. QED
  BY <1>1, <1>7 DEF G, N

\* remove_numlist and remove_iplist.
LEMMA Removes ==
  ASSUME NEW T, NEW list \in ListOf(T), NEW e
  PROVE  /\ remove_iplist(list, e) = remove_numlist(list, e)
         /\ Thinned(T, list, remove_numlist(list, e))
         /\ Unique(list) => ToSet(remove_numlist(list, e).item) = ToSet(list.item) \ {e}
<1> DEFINE pos == exist_pos(list.item, e, 0)
           items == IF list.multiple THEN Dropping(list.item, {e})
                    ELSE IF pos # 0 THEN RemoveAt(list.item, pos) ELSE list.item
<1>1. /\ list.item \in Seq(T) /\ list.multiple \in BOOLEAN
      /\ list = [item |-> list.item, multiple |-> list.multiple]
  BY DEF ListOf
<1>2. /\ remove_numlist(list, e) = [list EXCEPT !.item = items]
      /\ remove_iplist(list, e) = [list EXCEPT !.item = items]
  BY <1>1 DEF remove_numlist, remove_iplist, exist_numlist, exist_iplist
<1>3. /\ pos \in 0 .. Len(list.item)
      /\ pos # 0 <=> e \in ToSet(list.item)
      /\ pos # 0 => list.item[pos] = e
  BY <1>1, ExistsMember
<1> HIDE DEF pos
<1>4. Thinned(T, list, [list EXCEPT !.item = items])
  <2>1. CASE list.multiple
    <3>1. \E at : Picks(T, list.item, Dropping(list.item, {e}), at)
      BY <1>1, DroppingPicks
    <3>2. items = Dropping(list.item, {e})
      BY <2>1
    <3> HIDE DEF items
    <3>3. QED
      BY <3>1, <3>2, PicksThin
  <2>2. CASE ~list.multiple /\ pos # 0
    <3>1. pos \in 1 .. Len(list.item)
      BY <1>3, <2>2
    <3>2. \E at : Picks(T, list.item, RemoveAt(list.item, pos), at)
      BY <1>1, <3>1, RemoveAtPicks
    <3>3. items = RemoveAt(list.item, pos)
      BY <2>2
    <3> HIDE DEF items
    <3>4. QED
      BY <3>2, <3>3, PicksThin
  <2>3. CASE ~list.multiple /\ pos = 0
    <3>1. [list EXCEPT !.item = items] = list
      BY <1>1, <2>3
    <3>2. Len(list.item) \in Nat
      BY <1>1
    <3>3. Thinned(T, list, list)
      BY <3>2 DEF Thinned
    <3> HIDE DEF items
    <3>4. QED
      BY <3>1, <3>3
  <2>4. QED
    BY <2>1, <2>2, <2>3
<1>5. ASSUME Unique(list)
      PROVE  ToSet(items) = ToSet(list.item) \ {e}
  <2>1. CASE list.multiple
    <3>1. ToSet(Dropping(list.item, {e})) = ToSet(list.item) \ {e}
      BY <1>1, DroppingPicks
    <3>2. QED
      BY <2>1, <3>1
  <2>2. CASE ~list.multiple /\ pos # 0
    <3>1. pos \in 1 .. Len(list.item) /\ IsInjective(list.item)
      BY <1>3, <1>5, <2>2 DEF Unique
    <3>2. /\ ToSet(RemoveAt(list.item, pos)) \cup {list.item[pos]} = ToSet(list.item)
          /\ list.item[pos] \notin ToSet(RemoveAt(list.item, pos))
      BY <1>1, <3>1, RemoveAtPicks
    <3>3. items = RemoveAt(list.item, pos) /\ list.item[pos] = e
      BY <1>3, <2>2
    <3> HIDE DEF items
    <3>4. QED
      BY <3>2, <3>3
  <2>3. CASE ~list.multiple /\ pos = 0
    BY <1>3, <2>3
  <2>4. QED
    BY <2>1, <2>2, <2>3
<1>6. [list EXCEPT !.item = items].item = items
  BY <1>1
<1> HIDE DEF items
<1>7. QED
  BY <1>2, <1>4, <1>5, <1>6

\* intersect and except of both kinds of lists.
LEMMA Sieves ==
  ASSUME NEW T, NEW list \in ListOf(T), NEW t \in ListOf(T), NEW yin \in BOOLEAN
  PROVE  /\ yinyan_iplist(list, t, yin) = yinyan_numlist(list, t, yin)
         /\ Thinned(T, list, yinyan_numlist(list, t, yin))
         /\ yin => ToSet(yinyan_numlist(list, t, yin).item) = ToSet(list.item) \cap ToSet(t.item)
         /\ ~yin => ToSet(yinyan_numlist(list, t, yin).item) = ToSet(list.item) \ ToSet(t.item)
<1> DEFINE out == {x \in ToSet(list.item) : (exist_pos(t.item, x, 0) # 0) # yin}
           items == Dropping(list.item, out)
<1>1. /\ list.item \in Seq(T) /\ t.item \in Seq(T)
      /\ list = [item |-> list.item, multiple |-> list.multiple]
  BY DEF ListOf
<1>2. /\ yinyan_numlist(list, t, yin) = [list EXCEPT !.item = items]
      /\ yinyan_iplist(list, t, yin) = [list EXCEPT !.item = items]
  BY <1>1 DEF yinyan_numlist, yinyan_iplist, exist_numlist, exist_iplist
<1>3. \A x : exist_pos(t.item, x, 0) # 0 <=> x \in ToSet(t.item)
  BY <1>1, ExistsMember
<1>4. /\ yin => ToSet(list.item) \ out = ToSet(list.item) \cap ToSet(t.item)
      /\ ~yin => ToSet(list.item) \ out = ToSet(list.item) \ ToSet(t.item)
  BY <1>3
<1> HIDE DEF out
<1>5. /\ \E at : Picks(T, list.item, items, at)
      /\ ToSet(items) = ToSet(list.item) \ out
  BY <1>1, DroppingPicks
<1>6. [list EXCEPT !.item = items].item = items
  BY <1>1
<1> HIDE DEF items
<1>7. Thinned(T, list, [list EXCEPT !.item = items])
  BY <1>5, PicksThin
<1>8. QED
  BY <1>2, <1>4, <1>5, <1>6, <1>7

\* intersect_numlist and intersect_iplist are the same and leave what both lists hold.
LEMMA Intersects ==
  ASSUME NEW T, NEW list \in ListOf(T), NEW t \in ListOf(T)
  PROVE  /\ intersect_iplist(list, t) = intersect_numlist(list, t)
         /\ Thinned(T, list, intersect_numlist(list, t))
         /\ ToSet(intersect_numlist(list, t).item) = ToSet(list.item) \cap ToSet(t.item)
<1>1. /\ yinyan_iplist(list, t, TRUE) = yinyan_numlist(list, t, TRUE)
      /\ Thinned(T, list, yinyan_numlist(list, t, TRUE))
      /\ ToSet(yinyan_numlist(list, t, TRUE).item) = ToSet(list.item) \cap ToSet(t.item)
  <2> DEFINE yin == TRUE
  <2>1. yin \in BOOLEAN
    OBVIOUS
  <2> HIDE DEF yin
  <2>2. /\ yinyan_iplist(list, t, yin) = yinyan_numlist(list, t, yin)
        /\ Thinned(T, list, yinyan_numlist(list, t, yin))
        /\ yin => ToSet(yinyan_numlist(list, t, yin).item) = ToSet(list.item) \cap ToSet(t.item)
    BY <2>1, Sieves
  <2>3. QED
    BY <2>2 DEF yin
<1>2. QED
  BY <1>1 DEF intersect_numlist, intersect_iplist

\* except_numlist and except_iplist are the same and leave what the other list does not hold.
LEMMA Excepts ==
  ASSUME NEW T, NEW list \in ListOf(T), NEW t \in ListOf(T)
  PROVE  /\ except_iplist(list, t) = except_numlist(list, t)
         /\ Thinned(T, list, except_numlist(list, t))
         /\ ToSet(except_numlist(list, t).item) = ToSet(list.item) \ ToSet(t.item)
<1>1. /\ yinyan_iplist(list, t, FALSE) = yinyan_numlist(list, t, FALSE)
      /\ Thinned(T, list, yinyan_numlist(list, t, FALSE))
      /\ ToSet(yinyan_numlist(list, t, FALSE).item) = ToSet(list.item) \ ToSet(t.item)
  <2> DEFINE yin == FALSE
  <2>1. yin \in BOOLEAN
    OBVIOUS
  <2> HIDE DEF yin
  <2>2. /\ yinyan_iplist(list, t, yin) = yinyan_numlist(list, t, yin)
        /\ Thinned(T, list, yinyan_numlist(list, t, yin))
        /\ ~yin => ToSet(yinyan_numlist(list, t, yin).item) = ToSet(list.item) \ ToSet(t.item)
    BY <2>1, Sieves
  <2>3. QED
    BY <2>2 DEF yin
<1>2. QED
  BY <1>1 DEF except_numlist, except_iplist

\* Sorting, by any key.
LEMMA Sorts ==
  ASSUME NEW T, NEW list \in ListOf(T), NEW key, \A i \in 1 .. Len(list.item) : key[list.item[i]] \in Int
  PROVE  LET new == [list EXCEPT !.item = SortedBy(@, key)]
         IN  Thinned(T, list, new) /\ ToSet(new.item) = ToSet(list.item)
<1> DEFINE items == SortedBy(list.item, key)
<1>1. list.item \in Seq(T) /\ list = [item |-> list.item, multiple |-> list.multiple]
  BY DEF ListOf
<1>2. (\E at : Picks(T, list.item, items, at)) /\ ToSet(items) = ToSet(list.item)
  BY <1>1, SortedByProps
<1>3. [list EXCEPT !.item = items].item = items
  BY <1>1
<1> HIDE DEF items
<1>4. Thinned(T, list, [list EXCEPT !.item = items])
  BY <1>2, PicksThin
<1>5. QED
  BY <1>2, <1>3, <1>4 DEF items

\* Shift moves one item and leaves the order of the others alone.
LEMMA Shifts ==
  ASSUME NEW T, NEW items \in Seq(T), NEW cursor \in 1 .. Len(items), NEW pos \in 1 .. Len(items)
  PROVE  /\ \E at : Picks(T, items, Shift(items, cursor, pos), at)
         /\ Shift(items, cursor, pos) \in Seq(T)
         /\ Len(Shift(items, cursor, pos)) = Len(items)
         /\ ToSet(Shift(items, cursor, pos)) = ToSet(items)
         /\ Shift(items, cursor, pos)[pos] = items[cursor]
         /\ RemoveAt(Shift(items, cursor, pos), pos) = RemoveAt(items, cursor)
<1> DEFINE N == Len(items)
           at == [i \in 1 .. N |-> IF i = pos THEN cursor
                                   ELSE IF pos < i /\ i <= cursor THEN i - 1
                                   ELSE IF cursor <= i /\ i < pos THEN i + 1
                                   ELSE i]
           r == Shift(items, cursor, pos)
<1>1. N \in Nat /\ DOMAIN items = 1 .. N /\ \A i \in 1 .. N : items[i] \in T
  OBVIOUS
<1>2. \A i \in 1 .. N : at[i] \in 1 .. N
  BY <1>1
<1>3. r = [i \in 1 .. N |-> items[at[i]]]
  BY <1>1 DEF Shift
<1>4. at \in Injection(1 .. N, 1 .. N)
  <2>1. ASSUME NEW i \in 1 .. N, NEW j \in 1 .. N, at[i] = at[j]
        PROVE  i = j
    BY <1>1, <2>1
  <2>2. at \in [1 .. N -> 1 .. N]
    BY <1>2
  <2>3. QED
    BY <2>1, <2>2 DEF Injection, IsInjective
<1>5. /\ at[pos] = cursor
      /\ \A i \in 1 .. N - 1 :
           at[IF i < pos THEN i ELSE i + 1] = IF i < cursor THEN i ELSE i + 1
  BY <1>1
<1> HIDE DEF at, r
<1>6. /\ r \in Seq(T) /\ Len(r) = N /\ \A i \in 1 .. N : r[i] = items[at[i]]
  BY <1>1, <1>2, <1>3
<1>7. Picks(T, items, r, at)
  BY <1>4, <1>6 DEF Picks
<1>8. ToSet(r) = ToSet(items)
  BY <1>6, <1>7, PicksProps
<1>9. RemoveAt(r, pos) = RemoveAt(items, cursor)
  <2> DEFINE x == RemoveAt(r, pos)  y == RemoveAt(items, cursor)
  <2>1. /\ y \in Seq(T) /\ Len(y) = N - 1
        /\ \A i \in 1 .. N - 1 : y[i] = IF i < cursor THEN items[i] ELSE items[i + 1]
    BY RemoveAtProps
  <2>2. /\ x \in Seq(T) /\ Len(x) = Len(r) - 1
        /\ \A i \in 1 .. Len(r) - 1 : x[i] = IF i < pos THEN r[i] ELSE r[i + 1]
    <3>1. pos \in 1 .. Len(r)
      BY <1>6
    <3>2. QED
      BY <1>6, <3>1, RemoveAtProps
  <2> HIDE DEF x, y
  <2>3. ASSUME NEW i \in 1 .. N - 1
        PROVE  x[i] = y[i]
    <3>1. x[i] = r[IF i < pos THEN i ELSE i + 1]
      BY <1>6, <2>2
    <3>2. (IF i < pos THEN i ELSE i + 1) \in 1 .. N
      BY <1>1
    <3>3. r[IF i < pos THEN i ELSE i + 1] = items[at[IF i < pos THEN i ELSE i + 1]]
      BY <1>6, <3>2
    <3>4. items[at[IF i < pos THEN i ELSE i + 1]] = items[IF i < cursor THEN i ELSE i + 1]
      BY <1>5
    <3>5. QED
      BY <2>1, <3>1, <3>3, <3>4
  <2>4. Len(x) = Len(y) /\ Len(x) = N - 1
    BY <1>6, <2>1, <2>2
  <2>5. x = y
    BY <2>1, <2>2, <2>3, <2>4, SeqEqual
  <2>6. QED
    BY <2>5 DEF x, y
<1>10. r[pos] = items[cursor]
  BY <1>5, <1>6
<1>11. QED
  BY <1>6, <1>7, <1>8, <1>9, <1>10 DEF r

\* The greater and the lesser of two numbers.
LEMMA MaxOfTwo ==
  ASSUME NEW a \in Int, NEW b \in Int
  PROVE  /\ Max({a, b}) = IF a >= b THEN a ELSE b
         /\ Min({a, b}) = IF a <= b THEN a ELSE b
<1> DEFINE S == {a, b}
<1>1. S \subseteq Int /\ a \in S /\ b \in S /\ \A y \in S : y = a \/ y = b
  OBVIOUS
<1> HIDE DEF S
<1>2. CASE a >= b
  <2>1. (\A y \in S : a >= y) /\ \A y \in S : b <= y
    BY <1>1, <1>2
  <2>2. Max(S) = a /\ Min(S) = b
    BY <1>1, <2>1, MaxIs, MinIs
  <2>3. QED
    BY <1>2, <2>2 DEF S
<1>3. CASE a < b
  <2>1. (\A y \in S : b >= y) /\ \A y \in S : a <= y
    BY <1>1, <1>3
  <2>2. Max(S) = b /\ Min(S) = a
    BY <1>1, <2>1, MaxIs, MinIs
  <2>3. QED
    BY <1>3, <2>2 DEF S
<1>4. QED
  BY <1>2, <1>3

\* Where insert_numlist_at_pos puts a number, and what it does to the others.
PlacedAt(before, num, pos, new) ==
  LET place == Max({1, Min({Len(new.item), pos + 1})})
      full  == IF new.multiple \/ num \notin ToSet(before.item)
                 THEN before.item \o <<num>> ELSE before.item
      at    == Max({i \in DOMAIN full : full[i] = num})
  IN  new.item[place] = num /\ RemoveAt(new.item, place) = RemoveAt(full, at)

\* insert_numlist_at_pos and unshift_numlist.
LEMMA InsertsAt ==
  ASSUME NEW T, NEW list \in ListOf(T), NEW num \in T, NEW pos \in Int
  PROVE  LET new == insert_numlist_at_pos(list, pos, num)
         IN  /\ new \in ListOf(T) /\ new.multiple = list.multiple
             /\ Len(new.item) = Len(insert_numlist(list, num).item)
             /\ ToSet(new.item) = ToSet(list.item) \cup {num}
             /\ Unique(list) => Unique(new)
             /\ PlacedAt(list, num, pos, new)
<1> DEFINE full == insert_numlist(list, num)
           items == full.item
           size == Len(items)
           target == IF pos >= size THEN size ELSE IF pos < 0 THEN 1 ELSE pos + 1
           c == exist_pos(items, num, 0)
           moved == Shift(items, c, target)
           new == [full EXCEPT !.item = moved]
<1>1. /\ full \in ListOf(T) /\ full.multiple = list.multiple
      /\ ToSet(items) = ToSet(list.item) \cup {num}
      /\ Unique(list) => Unique(full)
      /\ items = IF list.multiple \/ num \notin ToSet(list.item)
                   THEN Append(list.item, num) ELSE list.item
  BY Inserts
<1>2. insert_numlist_at_pos(list, pos, num) = new
  BY DEF insert_numlist_at_pos
<1>3. list.item \in Seq(T)
  BY DEF ListOf
<1> HIDE DEF full
<1>4. items \in Seq(T) /\ full.multiple \in BOOLEAN
  BY <1>1 DEF ListOf
<1>5. Append(list.item, num) = list.item \o <<num>>
  BY <1>3
<1> HIDE DEF items
<1>6. /\ c \in 1 .. size /\ items[c] = num
      /\ \A i \in 1 .. size : items[i] = num => i <= c
  <2>1. num \in ToSet(items)
    BY <1>1
  <2>2. c # 0 /\ c \in 0 .. Len(items) /\ items[c] = num
    BY <1>4, <2>1, ExistsMember
  <2>3. \A i \in 1 .. Len(items) : items[i] = num => i <= c
    BY <1>4, ExistPos
  <2>4. QED
    BY <2>2, <2>3
<1> HIDE DEF c
<1>7. target \in 1 .. size /\ size \in Nat
  BY <1>4, <1>6
<1>8. Max({1, Min({size, pos + 1})}) = target
  <2> DEFINE next == pos + 1
             m == Min({size, next})
  <2>0. size \in Int /\ next \in Int
    BY <1>7
  <2> HIDE DEF size, next
  <2>1. m = IF size <= next THEN size ELSE next
    BY <2>0, MaxOfTwo
  <2>2. m \in Int
    BY <2>0, <2>1
  <2> HIDE DEF m
  <2>3. Max({1, m}) = IF 1 >= m THEN 1 ELSE m
    BY <2>2, MaxOfTwo
  <2>4. QED
    BY <1>7, <2>1, <2>3 DEF m, size, next
<1>9. Max({i \in DOMAIN items : items[i] = num}) = c
  <2> DEFINE S == {i \in DOMAIN items : items[i] = num}
  <2>1. S \subseteq Int /\ c \in S /\ \A y \in S : c >= y
    BY <1>4, <1>6
  <2> HIDE DEF S
  <2>2. Max(S) = c
    BY <2>1, MaxIs
  <2>3. QED
    BY <2>2 DEF S
<1> HIDE DEF target, size
<1>10. /\ \E at : Picks(T, items, moved, at)
       /\ moved \in Seq(T) /\ Len(moved) = size /\ ToSet(moved) = ToSet(items)
       /\ moved[target] = items[c] /\ RemoveAt(moved, target) = RemoveAt(items, c)
  BY <1>4, <1>6, <1>7, Shifts DEF size
<1> HIDE DEF moved
<1>11. new.item = moved /\ new.multiple = list.multiple
  <2>1. full = [item |-> full.item, multiple |-> full.multiple]
    BY <1>1 DEF ListOf
  <2>2. QED
    BY <1>1, <2>1
<1>12. Thinned(T, full, new)
  BY <1>1, <1>10, PicksThin DEF items
<1> HIDE DEF new
<1>13. PlacedAt(list, num, pos, new)
  <2>1. items = IF new.multiple \/ num \notin ToSet(list.item)
                  THEN list.item \o <<num>> ELSE list.item
    BY <1>1, <1>5, <1>11
  <2>2. Len(new.item) = size
    BY <1>10, <1>11
  <2>3. moved[target] = num
    BY <1>6, <1>10
  <2>4. QED
    BY <1>8, <1>9, <1>10, <1>11, <2>1, <2>2, <2>3 DEF PlacedAt
<1>14. /\ new \in ListOf(T) /\ (Unique(list) => Unique(new))
  BY <1>1, <1>12 DEF Thinned
<1>15. Len(new.item) = Len(full.item) /\ ToSet(new.item) = ToSet(list.item) \cup {num}
  BY <1>1, <1>10, <1>11 DEF size, items
<1>16. QED
  BY <1>2, <1>11, <1>13, <1>14, <1>15 DEF full

-----------------------------------------------------------------------------
(* The map that finds duplicates                                           *)

Passes == [seen : SUBSET (Int \X Int), kept : Seq(Numbers)]

\* The numbers kept are different, and the bits of those that the map covers are set.
Sound(acc) ==
  IsInjective(acc.kept) /\ \A n \in ToSet(acc.kept) : Covered(n) => DdmBits(n) \subseteq acc.seen

SoundPasses == {acc \in Passes : Sound(acc)}

\* The numbers of the program are not negative.
LEMMA NumbersAreNat == Numbers \subseteq Nat
  BY ListsAssumption, IpAssumption

\* A number that the map covers has a bit.
LEMMA HasBits ==
  ASSUME NEW num \in Nat
  PROVE  DdmBits(num) # {} /\ DdmBits(num) \subseteq Int \X Int
<1> USE NumAssumption
<1> DEFINE q == num \div DdmSize
           r == num % DdmSize
           shift == q % IntBits
<1>1. q \in Nat /\ r \in Nat
  OBVIOUS
<1> HIDE DEF q, r
<1>2. shift \in 0 .. IntBits - 1
  BY <1>1
<1>3. DdmBits(num) = {r} \X (IF shift = IntBits - 1 THEN shift .. WordBits - 1 ELSE {shift})
  BY DEF DdmBits, q, r
<1> HIDE DEF shift
<1>4. shift \in (IF shift = IntBits - 1 THEN shift .. WordBits - 1 ELSE {shift})
  BY <1>2
<1>5. (IF shift = IntBits - 1 THEN shift .. WordBits - 1 ELSE {shift}) \subseteq Int
  BY <1>2
<1>6. <<r, shift>> \in DdmBits(num)
  BY <1>3, <1>4
<1>7. QED
  BY <1>1, <1>3, <1>5, <1>6

\* One turn of a loop that drops duplicates.
LEMMA PassKeeps ==
  ASSUME NEW acc \in SoundPasses, NEW num \in Numbers, NEW found \in BOOLEAN,
         ~found => num \notin ToSet(acc.kept)
  PROVE  /\ Pass(acc, num, found) \in SoundPasses
         /\ \/ Pass(acc, num, found).kept = acc.kept
            \/ Pass(acc, num, found).kept = Append(acc.kept, num)
<1> DEFINE bits == DdmBits(num)
           seen == IF Covered(num) THEN acc.seen \cup bits ELSE acc.seen
           drop == IF Covered(num) THEN acc.seen \cap bits # {} ELSE found
           kept == IF drop THEN acc.kept ELSE Append(acc.kept, num)
           new == Pass(acc, num, found)
<1>1. new = [seen |-> seen, kept |-> kept]
  BY DEF Pass
<1>2. /\ acc.seen \in SUBSET (Int \X Int) /\ acc.kept \in Seq(Numbers)
      /\ IsInjective(acc.kept)
      /\ \A n \in ToSet(acc.kept) : Covered(n) => DdmBits(n) \subseteq acc.seen
  BY DEF SoundPasses, Passes, Sound
<1>3. bits # {} /\ bits \in SUBSET (Int \X Int)
  BY NumbersAreNat, HasBits
<1>4. ~drop => num \notin ToSet(acc.kept)
  BY <1>2, <1>3
<1> HIDE DEF drop, bits
<1>5. kept \in Seq(Numbers) /\ IsInjective(kept) /\ ToSet(kept) \subseteq ToSet(acc.kept) \cup {num}
  <2>1. CASE drop
    BY <1>2, <2>1
  <2>2. CASE ~drop
    <3>1. /\ ToSet(Append(acc.kept, num)) = ToSet(acc.kept) \cup {num}
          /\ IsInjective(Append(acc.kept, num))
      BY <1>2, <1>4, <2>2, AppendProps
    <3>2. QED
      BY <1>2, <2>2, <3>1
  <2>3. QED
    BY <2>1, <2>2
<1>6. kept = acc.kept \/ kept = Append(acc.kept, num)
  OBVIOUS
<1> HIDE DEF kept
<1>7. seen \in SUBSET (Int \X Int)
  BY <1>2, <1>3
<1>8. \A n \in ToSet(kept) : Covered(n) => DdmBits(n) \subseteq seen
  BY <1>2, <1>5 DEF bits
<1> HIDE DEF seen
<1>9. new.seen = seen /\ new.kept = kept /\ new \in Passes
  BY <1>1, <1>5, <1>7 DEF Passes
<1>10. QED
  BY <1>5, <1>6, <1>8, <1>9 DEF SoundPasses, Sound

\* Nothing kept, nothing seen.
LEMMA NothingIsSound == Nothing \in SoundPasses /\ Nothing.kept = <<>> /\ Nothing.seen = {}
<1>1. IsInjective(<<>>) /\ ToSet(<<>>) = {}
  BY DEF IsInjective, ToSet
<1>2. QED
  BY <1>1 DEF Nothing, SoundPasses, Sound, Passes

-----------------------------------------------------------------------------
(* Lists that are made of numbers in a row                                 *)

\* A number is dropped that is found among those kept.
PassStep(nums) ==
  [p \in SoundPasses \X (1 .. Len(nums)) |->
     Pass(p[1], nums[p[2]], exist_pos(p[1].kept, nums[p[2]], 0) # 0)]

\* The function behind a fold of Pass over nums.
PassFold(nums, f) ==
  f = [S \in SUBSET DOMAIN nums |->
         IF S = {} THEN Nothing
         ELSE Pass(f[S \ {Max(S)}], nums[Max(S)],
                   exist_pos(f[S \ {Max(S)}].kept, nums[Max(S)], 0) # 0)]

\* A turn of Deduplicated keeps this, and keeps the number or leaves it out.
LEMMA PassSteps ==
  ASSUME NEW nums \in Seq(Numbers), NEW acc \in SoundPasses, NEW m \in 1 .. Len(nums)
  PROVE  /\ Pass(acc, nums[m], exist_pos(acc.kept, nums[m], 0) # 0) \in SoundPasses
         /\ PassStep(nums)[<<acc, m>>] = Pass(acc, nums[m], exist_pos(acc.kept, nums[m], 0) # 0)
         /\ \/ PassStep(nums)[<<acc, m>>].kept = acc.kept
            \/ PassStep(nums)[<<acc, m>>].kept = Append(acc.kept, nums[m])
<1> DEFINE num == nums[m]
           found == exist_pos(acc.kept, num, 0) # 0
<1>1. num \in Numbers /\ acc.kept \in Seq(Numbers)
  BY DEF SoundPasses, Passes
<1>2. PassStep(nums)[<<acc, m>>] = Pass(acc, num, found)
  BY DEF PassStep
<1>3. num \in ToSet(acc.kept) <=> found
  BY <1>1, ExistsMember
<1> HIDE DEF num, found
<1>4. found \in BOOLEAN
  BY DEF found
<1>5. QED
  BY <1>1, <1>2, <1>3, <1>4, PassKeeps DEF num, found

\* Deduplicated runs through the numbers.
LEMMA PassRuns ==
  ASSUME NEW nums \in Seq(Numbers)
  PROVE  \E it : /\ LeftRun(SoundPasses, Len(nums), Nothing, PassStep(nums), it)
                 /\ Deduplicated(nums) = it[1 .. Len(nums)].kept
<1> DEFINE N == Len(nums)
           A == SoundPasses
           step == PassStep(nums)
           it == CHOOSE f : PassFold(nums, f)
<1>0. Deduplicated(nums) = it[DOMAIN nums].kept
  BY DEF Deduplicated, FoldLeft, MapThenFoldSet, PassFold
<1>1. N \in Nat /\ DOMAIN nums = 1 .. N
  OBVIOUS
<1>2. ASSUME NEW a \in A, NEW m \in 1 .. N
      PROVE  /\ Pass(a, nums[m], exist_pos(a.kept, nums[m], 0) # 0) \in A
        /\ step[<<a, m>>] = Pass(a, nums[m], exist_pos(a.kept, nums[m], 0) # 0)
        /\ \/ step[<<a, m>>].kept = a.kept
           \/ step[<<a, m>>].kept = Append(a.kept, nums[m])
  BY PassSteps
<1>3. Steps(A, N, Nothing, step)
  <2>1. step \in [A \X (1 .. N) -> A]
    BY <1>1, <1>2 DEF PassStep
  <2>2. QED
    BY <1>1, <2>1, NothingIsSound DEF Steps
<1> HIDE DEF A, step
<1>4. PICK f : f = [S \in SUBSET (1 .. N) |-> f[S]] /\ LeftFold(A, N, Nothing, step, f)
  BY <1>3, LeftFolds
<1>5. PassFold(nums, it)
  <2>1. \A S \in SUBSET (1 .. N) :
          f[S] = IF S = {} THEN Nothing
                 ELSE Pass(f[S \ {Max(S)}], nums[Max(S)],
                           exist_pos(f[S \ {Max(S)}].kept, nums[Max(S)], 0) # 0)
    BY <1>2, <1>4 DEF LeftFold
  <2>2. PassFold(nums, f)
    BY <1>1, <1>4, <2>1 DEF PassFold
  <2>3. QED
    BY <2>2
<1> HIDE DEF it
<1>6. LeftRun(A, N, Nothing, step, it)
  <2>1. \A S \in SUBSET (1 .. N) :
          it[S] = IF S = {} THEN Nothing
                  ELSE Pass(it[S \ {Max(S)}], nums[Max(S)],
                            exist_pos(it[S \ {Max(S)}].kept, nums[Max(S)], 0) # 0)
    BY <1>1, <1>5 DEF PassFold
  <2>2. ASSUME NEW S \in SUBSET (1 .. N)
        PROVE  IF S = {} THEN it[S] = Nothing
                         ELSE Max(S) \in 1 .. N /\ it[S \ {Max(S)}] \in A =>
                                it[S] = step[<<it[S \ {Max(S)}], Max(S)>>]
    <3> DEFINE k == Max(S)
               a == it[S \ {k}]
    <3>1. S = {} => it[S] = Nothing
      BY <2>1
    <3>2. S # {} => it[S] = Pass(a, nums[k], exist_pos(a.kept, nums[k], 0) # 0)
      BY <2>1
    <3> HIDE DEF a, k
    <3>3. S # {} /\ k \in 1 .. N /\ a \in A => it[S] = step[<<a, k>>]
      BY <1>2, <3>2
    <3>4. QED
      BY <3>1, <3>3 DEF a, k
  <2>3. QED
    BY <1>3, <2>2, LeftRuns
<1>7. QED
  BY <1>0, <1>1, <1>6 DEF A, step

\* What is kept is different numbers.
LEMMA Deduplicates ==
  ASSUME NEW nums \in Seq(Numbers)
  PROVE  /\ Deduplicated(nums) \in Seq(Numbers) /\ IsInjective(Deduplicated(nums))
         /\ Len(Deduplicated(nums)) <= Len(nums)
<1> DEFINE N == Len(nums)
           A == SoundPasses
           step == PassStep(nums)
<1>1. N \in Nat /\ DOMAIN nums = 1 .. N
  OBVIOUS
<1>2. ASSUME NEW a \in A, NEW m \in 1 .. N
      PROVE  /\ step[<<a, m>>] \in A
        /\ \/ step[<<a, m>>].kept = a.kept
           \/ step[<<a, m>>].kept = Append(a.kept, nums[m])
  BY PassSteps
<1>6. PICK it : /\ LeftRun(A, N, Nothing, step, it)
                /\ Deduplicated(nums) = it[1 .. N].kept
  BY PassRuns
<1> HIDE DEF A, step
<1> HIDE DEF N
<1> DEFINE G == [m \in 0 .. N |-> {a \in A : Len(a.kept) <= m}]
<1>7. it[1 .. N] \in G[N]
  <2>1. Nothing \in G[0]
    BY <1>1, NothingIsSound DEF A
  <2>2. ASSUME NEW m \in 1 .. N, NEW a \in A, a \in G[m - 1]
        PROVE  step[<<a, m>>] \in G[m]
    <3>1. m - 1 \in 0 .. N /\ m \in 0 .. N
      BY <1>1
    <3>2. step[<<a, m>>] \in A /\ Len(a.kept) <= m - 1
      BY <1>2, <2>2, <3>1
    <3>3. a.kept \in Seq(Numbers) /\ nums[m] \in Numbers
      BY <1>1 DEF A, SoundPasses, Passes, N
    <3>4. Len(step[<<a, m>>].kept) <= Len(a.kept) + 1 /\ Len(a.kept) \in Nat
      <4> DEFINE old == a.kept
                 new == step[<<a, m>>].kept
                 num == nums[m]
      <4>1. new = old \/ new = Append(old, num)
        BY <1>2
      <4>2. old \in Seq(Numbers) /\ num \in Numbers
        BY <3>3
      <4> HIDE DEF old, new, num
      <4>3. Len(Append(old, num)) = Len(old) + 1 /\ Len(old) \in Nat
        BY ONLY <4>2
      <4>4. Len(new) <= Len(old) + 1 /\ Len(old) \in Nat
        BY ONLY <4>1, <4>3
      <4>5. QED
        BY <4>4 DEF old, new
    <3>5. Len(step[<<a, m>>].kept) \in Nat
      BY <3>2 DEF A, SoundPasses, Passes
    <3>6. Len(step[<<a, m>>].kept) <= m
      BY <1>1, <3>2, <3>4, <3>5
    <3>7. QED
      BY <3>1, <3>2, <3>6
  <2> HIDE DEF G
  <2>3. QED
    BY <1>1, <1>6, <2>1, <2>2, RunKeeps
<1>8. it[1 .. N] \in SoundPasses /\ Len(it[1 .. N].kept) <= N
  <2>1. N \in 0 .. N
    BY <1>1
  <2>2. QED
    BY <1>7, <2>1 DEF A
<1>9. QED
  BY <1>6, <1>8 DEF SoundPasses, Passes, Sound, N

\* create_numlist: different numbers, or all of them.
LEMMA CreatesNumbers ==
  ASSUME NEW words \in Seq(Numbers \cup {-1}), NEW multiple \in BOOLEAN
  PROVE  /\ create_numlist(words, multiple) \in ListOf(Numbers)
         /\ create_numlist(words, multiple).multiple = multiple
         /\ Unique(create_numlist(words, multiple))
         /\ Len(create_numlist(words, multiple).item) <= Len(words)
<1> DEFINE N == Len(words)
           stop == CHOOSE i \in 1 .. N + 1 :
                     (i <= N => words[i] < 0) /\ \A j \in 1 .. i - 1 : words[j] >= 0
           read == SubSeq(words, 1, stop - 1)
           items == IF multiple THEN read ELSE Deduplicated(read)
<1>1. N \in Nat /\ \A i \in 1 .. N : words[i] \in Numbers \cup {-1} /\ words[i] \in Int
  <2>1. N \in Nat /\ \A i \in 1 .. N : words[i] \in Numbers \cup {-1}
    OBVIOUS
  <2>2. \A x \in Numbers \cup {-1} : x \in Int
    BY NumbersAreNat
  <2>3. QED
    BY <2>1, <2>2
<1>5. create_numlist(words, multiple) = List(items, multiple)
  BY DEF create_numlist
<1>2. \E i \in 1 .. N + 1 :
        (i <= N => words[i] < 0) /\ \A j \in 1 .. i - 1 : words[j] >= 0
  <2> DEFINE S == {i \in 1 .. N + 1 : i <= N => words[i] < 0}
  <2>1. S \subseteq Nat /\ N + 1 \in S
    BY <1>1
  <2>2. PICK i \in S : \A j \in S : i <= j
    BY <2>1, LeastElement
  <2>3. \A j \in 1 .. i - 1 : words[j] >= 0
    BY <1>1, <2>2
  <2>4. QED
    BY <2>2, <2>3
<1>3. /\ stop \in 1 .. N + 1
      /\ \A j \in 1 .. stop - 1 : words[j] >= 0
  BY <1>2
<1> HIDE DEF stop
<1>4. read \in Seq(Numbers) /\ Len(read) = stop - 1
  <2>1. \A j \in 1 .. stop - 1 : words[j] \in Numbers
    BY <1>1, <1>3
  <2>2. read = [j \in 1 .. stop - 1 |-> words[j]]
    BY <1>1, <1>3
  <2>3. QED
    BY <1>3, <2>1, <2>2
<1> HIDE DEF read
<1>6. /\ Deduplicated(read) \in Seq(Numbers) /\ IsInjective(Deduplicated(read))
      /\ Len(Deduplicated(read)) <= Len(read)
  BY <1>4, Deduplicates
<1>7. /\ items \in Seq(Numbers) /\ Len(items) <= N
      /\ multiple \/ IsInjective(items)
  BY <1>1, <1>3, <1>4, <1>6
<1> HIDE DEF items
<1>8. QED
  BY <1>5, <1>7 DEF List, ListOf, Unique

\* create_numlist_from_iplist: the numbers among the strings.
LEMMA NumbersOfStrings ==
  ASSUME NEW list \in ListOf(Strings)
  PROVE  LET new == create_numlist_from_iplist(list)
         IN  /\ new \in ListOf(Numbers) /\ new.multiple = list.multiple
             /\ Unique(new) /\ Len(new.item) <= Len(list.item)
<1> DEFINE out == {s \in Strings : ~(Strtol[s] > 0 \/ s = Itoa[0])}
           read == Dropping(list.item, out)
           nums == [i \in DOMAIN read |-> Strtol[read[i]]]
           items == IF list.multiple THEN nums ELSE Deduplicated(nums)
<1>1. create_numlist_from_iplist(list) = List(items, list.multiple)
  BY DEF create_numlist_from_iplist
<1>2. list.item \in Seq(Strings) /\ list.multiple \in BOOLEAN
  BY DEF ListOf
<1>3. ASSUME NEW s \in Strings, s \notin out
      PROVE  Strtol[s] \in Numbers
  <2>1. CASE Strtol[s] > 0
    BY <2>1, ListsAssumption
  <2>2. CASE s = Itoa[0]
    BY <2>2, ListsAssumption, IpAssumption
  <2>3. QED
    BY <1>3, <2>1, <2>2
<1> HIDE DEF out
<1>4. /\ \E at : Picks(Strings, list.item, read, at)
      /\ read \in Seq(Strings) /\ ToSet(read) = ToSet(list.item) \ out
  BY <1>2, DroppingPicks
<1>5. Len(read) <= Len(list.item)
  BY <1>2, <1>4, PicksProps
<1> HIDE DEF read
<1>6. \A i \in 1 .. Len(read) : Strtol[read[i]] \in Numbers
  <2>1. \A x : x \in ToSet(read) <=> \E i \in 1 .. Len(read) : read[i] = x
    BY <1>4, ToSetProps
  <2>2. \A i \in 1 .. Len(read) : read[i] \in Strings /\ read[i] \notin out
    BY <1>4, <2>1
  <2>3. QED
    BY <1>3, <2>2
<1>7. nums \in Seq(Numbers) /\ Len(nums) = Len(read)
  BY <1>4, <1>6
<1> HIDE DEF nums
<1>8. /\ Deduplicated(nums) \in Seq(Numbers) /\ IsInjective(Deduplicated(nums))
      /\ Len(Deduplicated(nums)) <= Len(nums)
  BY <1>7, Deduplicates
<1>9. /\ items \in Seq(Numbers) /\ Len(items) <= Len(list.item)
      /\ list.multiple \/ IsInjective(items)
  <2>1. Len(read) \in Nat /\ Len(list.item) \in Nat /\ Len(Deduplicated(nums)) \in Nat
    BY <1>2, <1>4, <1>8
  <2>2. QED
    BY <1>5, <1>7, <1>8, <2>1
<1> HIDE DEF items
<1>10. QED
  BY <1>1, <1>2, <1>9 DEF List, ListOf, Unique

\* Strings and numbers are inserted alike.
LEMMA InsertedAlike ==
  ASSUME NEW list, NEW s
  PROVE  FoldLeft(insert_iplist, list, s) = FoldLeft(insert_numlist, list, s)
  BY DEF FoldLeft, MapThenFoldSet, insert_iplist, insert_numlist, exist_iplist, exist_numlist

\* An empty list.
LEMMA EmptyList ==
  ASSUME NEW T, NEW multiple \in BOOLEAN
  PROVE  /\ List(<<>>, multiple) \in ListOf(T) /\ List(<<>>, multiple).multiple = multiple
         /\ Unique(List(<<>>, multiple)) /\ Almost(List(<<>>, multiple))
         /\ List(<<>>, multiple).item = <<>> /\ ToSet(<<>>) = {}
<1>1. IsInjective(<<>>) /\ DistinctBut(<<>>, 0) /\ ToSet(<<>>) = {}
  BY DEF IsInjective, DistinctBut, ToSet
<1>2. QED
  BY <1>1 DEF List, ListOf, Unique, Almost

\* create_iplist_from_numlist.
LEMMA StringsOfNumbers ==
  ASSUME NEW list \in ListOf(Numbers)
  PROVE  LET new == create_iplist_from_numlist(list)
         IN  /\ new \in ListOf(Strings) /\ new.multiple = list.multiple
             /\ Unique(new) /\ Almost(new) /\ Len(new.item) <= Len(list.item)
<1> DEFINE s == [i \in DOMAIN list.item |-> Itoa[list.item[i]]]
           base == List(<<>>, list.multiple)
<1>1. list.item \in Seq(Numbers) /\ list.multiple \in BOOLEAN
  BY DEF ListOf
<1>2. \A n \in Numbers : Itoa[n] \in Strings
  BY ListsAssumption, IpAssumption
<1>3. s \in Seq(Strings) /\ Len(s) = Len(list.item)
  BY <1>1, <1>2
<1>4. create_iplist_from_numlist(list) = FoldLeft(insert_numlist, base, s)
  BY InsertedAlike DEF create_iplist_from_numlist
<1>5. /\ base \in ListOf(Strings) /\ base.multiple = list.multiple
      /\ Unique(base) /\ Almost(base) /\ base.item = <<>>
  BY <1>1, EmptyList
<1> HIDE DEF s, base
<1>6. United(Strings, base, s, Len(s), FoldLeft(insert_numlist, base, s))
  BY <1>3, <1>5, Unites
<1>7. Len(base.item) = 0
  BY <1>5
<1>8. QED
  BY <1>1, <1>3, <1>4, <1>5, <1>6, <1>7 DEF United

\* union_numlist and union_iplist.
LEMMA Unions ==
  ASSUME NEW T, NEW list \in ListOf(T), NEW t \in ListOf(T)
  PROVE  /\ union_iplist(list, t) = union_numlist(list, t)
         /\ union_numlist(list, t) \in ListOf(T)
         /\ union_numlist(list, t).multiple = list.multiple
         /\ ToSet(union_numlist(list, t).item) = ToSet(list.item) \cup ToSet(t.item)
         /\ Unique(list) => Unique(union_numlist(list, t))
         /\ Almost(list) => Almost(union_numlist(list, t))
<1>1. /\ union_numlist(list, t) = FoldLeft(insert_numlist, list, t.item)
      /\ union_iplist(list, t) = FoldLeft(insert_numlist, list, t.item)
  BY InsertedAlike DEF union_numlist, union_iplist
<1>2. t.item \in Seq(T)
  BY DEF ListOf
<1>3. United(T, list, t.item, Len(t.item), FoldLeft(insert_numlist, list, t.item))
  BY <1>2, Unites
<1>4. {t.item[i] : i \in 1 .. Len(t.item)} = ToSet(t.item)
  BY <1>2 DEF ToSet
<1>5. QED
  BY <1>1, <1>3, <1>4 DEF United

-----------------------------------------------------------------------------
(* Lists that are made of tokens                                           *)

\* The lists that are made while tokens are read.
Made(T, multiple) == {list \in ListOf(T) : list.multiple = multiple /\ Unique(list)}

\* Which tokens count.
Counts(tokens, parse_empty, list, i) ==
  \/ tokens[i] # Empty
  \/ parse_empty /\ (i < Len(tokens) \/ list.item # <<>>)

TokenStep(T, tokens, multiple, parse_empty) ==
  [p \in Made(T, multiple) \X (1 .. Len(tokens)) |->
     IF Counts(tokens, parse_empty, p[1], p[2]) THEN insert_numlist(p[1], tokens[p[2]]) ELSE p[1]]

TokenFold(tokens, multiple, parse_empty, f) ==
  LET ids == [i \in DOMAIN tokens |-> i]
  IN  f = [S \in SUBSET DOMAIN ids |->
             IF S = {} THEN List(<<>>, multiple)
             ELSE IF Counts(tokens, parse_empty, f[S \ {Max(S)}], ids[Max(S)])
                    THEN insert_numlist(f[S \ {Max(S)}], tokens[ids[Max(S)]])
                    ELSE f[S \ {Max(S)}]]

\* A token inserts itself or leaves the list alone.
LEMMA TokenSteps ==
  ASSUME NEW T, NEW tokens \in Seq(T), NEW multiple \in BOOLEAN, NEW parse_empty \in BOOLEAN,
         NEW a \in Made(T, multiple), NEW m \in 1 .. Len(tokens)
  PROVE  LET new == IF Counts(tokens, parse_empty, a, m) THEN insert_numlist(a, tokens[m]) ELSE a
         IN  /\ new \in Made(T, multiple) /\ Len(new.item) <= Len(a.item) + 1
             /\ TokenStep(T, tokens, multiple, parse_empty)[<<a, m>>] = new
             /\ new.item = IF /\ Counts(tokens, parse_empty, a, m)
                              /\ multiple \/ tokens[m] \notin ToSet(a.item)
                             THEN Append(a.item, tokens[m]) ELSE a.item
<1> DEFINE A == Made(T, multiple)
           step == TokenStep(T, tokens, multiple, parse_empty)
           Added == IF Counts(tokens, parse_empty, a, m) THEN insert_numlist(a, tokens[m]) ELSE a
           e == tokens[m]
<1>1. e \in T /\ a \in ListOf(T) /\ a.multiple = multiple /\ Unique(a) /\ a.item \in Seq(T)
  BY DEF Made, ListOf
<1>2. step[<<a, m>>] = Added
  BY DEF TokenStep
<1> HIDE DEF e
<1>3. /\ insert_numlist(a, e) \in ListOf(T) /\ insert_numlist(a, e).multiple = multiple
      /\ Unique(insert_numlist(a, e))
      /\ insert_numlist(a, e).item = IF a.multiple \/ e \notin ToSet(a.item)
                                       THEN Append(a.item, e) ELSE a.item
  BY <1>1, Inserts
<1>4. Len(insert_numlist(a, e).item) <= Len(a.item) + 1 /\ Len(a.item) <= Len(a.item) + 1
  BY <1>1, <1>3
<1>5. insert_numlist(a, e) \in A
  BY <1>3 DEF Made
<1>6. QED
  BY <1>1, <1>2, <1>3, <1>4, <1>5 DEF e

\* __create_iplist runs through the tokens.
LEMMA TokensRun ==
  ASSUME NEW T, NEW tokens \in Seq(T), NEW multiple \in BOOLEAN, NEW parse_empty \in BOOLEAN
  PROVE  \E it : /\ LeftRun(Made(T, multiple), Len(tokens), List(<<>>, multiple),
                           TokenStep(T, tokens, multiple, parse_empty), it)
                 /\ create_tokens(tokens, multiple, parse_empty) = it[1 .. Len(tokens)]
<1> DEFINE N == Len(tokens)
           A == Made(T, multiple)
           base == List(<<>>, multiple)
           step == TokenStep(T, tokens, multiple, parse_empty)
           ids == [i \in DOMAIN tokens |-> i]
           it == CHOOSE f : TokenFold(tokens, multiple, parse_empty, f)
           Added(a, m) == IF Counts(tokens, parse_empty, a, m) THEN insert_numlist(a, tokens[m]) ELSE a
<1>1. /\ N \in Nat /\ DOMAIN tokens = 1 .. N /\ \A m \in 1 .. N : tokens[m] \in T
      /\ DOMAIN ids = 1 .. N /\ \A m \in 1 .. N : ids[m] = m
  OBVIOUS
<1>2. create_tokens(tokens, multiple, parse_empty) = it[DOMAIN ids]
  BY DEF create_tokens, FoldLeft, MapThenFoldSet, insert_iplist, insert_numlist,
         exist_iplist, exist_numlist, Counts, TokenFold
<1>3. base \in A /\ base.item = <<>>
  BY EmptyList DEF Made
<1>4. ASSUME NEW a \in A, NEW m \in 1 .. N
      PROVE  Added(a, m) \in A /\ step[<<a, m>>] = Added(a, m)
  BY TokenSteps
<1>5. Steps(A, N, base, step)
  <2>1. step \in [A \X (1 .. N) -> A]
    BY <1>1, <1>4 DEF TokenStep
  <2>2. QED
    BY <1>1, <1>3, <2>1 DEF Steps
<1> HIDE DEF A, step, base, it
<1>6. PICK f : f = [S \in SUBSET (1 .. N) |-> f[S]] /\ LeftFold(A, N, base, step, f)
  BY <1>5, LeftFolds
<1>7. TokenFold(tokens, multiple, parse_empty, it)
  <2>1. ASSUME NEW S \in SUBSET (1 .. N)
        PROVE  f[S] = IF S = {} THEN base
                      ELSE IF Counts(tokens, parse_empty, f[S \ {Max(S)}], ids[Max(S)])
                             THEN insert_numlist(f[S \ {Max(S)}], tokens[ids[Max(S)]])
                             ELSE f[S \ {Max(S)}]
    <3>1. CASE S = {}
      BY <1>6, <3>1 DEF LeftFold
    <3>2. CASE S # {}
      <4> DEFINE k == Max(S)
                 a == f[S \ {k}]
      <4>1. k \in 1 .. N /\ a \in A /\ f[S] = step[<<a, k>>]
        BY <1>6, <3>2 DEF LeftFold
      <4> HIDE DEF k, a
      <4>2. f[S] = Added(a, k) /\ ids[k] = k
        BY <1>1, <1>4, <4>1
      <4>3. QED
        BY <3>2, <4>2 DEF k, a
    <3>3. QED
      BY <3>1, <3>2
  <2>2. TokenFold(tokens, multiple, parse_empty, f)
    BY <1>1, <1>6, <2>1 DEF TokenFold, base
  <2>3. QED
    BY <2>2 DEF it
<1>8. LeftRun(A, N, base, step, it)
  <2>1. ASSUME NEW S \in SUBSET (1 .. N)
        PROVE  IF S = {} THEN it[S] = base
                         ELSE Max(S) \in 1 .. N /\ it[S \ {Max(S)}] \in A =>
                                it[S] = step[<<it[S \ {Max(S)}], Max(S)>>]
    <3> DEFINE k == Max(S)
               a == it[S \ {k}]
    <3>1. it[S] = IF S = {} THEN base
                  ELSE IF Counts(tokens, parse_empty, a, ids[k])
                         THEN insert_numlist(a, tokens[ids[k]]) ELSE a
      BY <1>1, <1>7 DEF TokenFold, base
    <3> HIDE DEF k, a
    <3>2. S # {} /\ k \in 1 .. N /\ a \in A => it[S] = step[<<a, k>>]
      BY <1>1, <1>4, <3>1
    <3>3. QED
      BY <3>1, <3>2 DEF k, a
  <2>2. QED
    BY <1>5, <2>1, LeftRuns
<1>9. QED
  BY <1>1, <1>2, <1>8 DEF A, base, step

\* __create_iplist.
LEMMA CreatesTokens ==
  ASSUME NEW T, NEW tokens \in Seq(T), NEW multiple \in BOOLEAN, NEW parse_empty \in BOOLEAN
  PROVE  LET new == create_tokens(tokens, multiple, parse_empty)
         IN  /\ new \in ListOf(T) /\ new.multiple = multiple /\ Unique(new)
             /\ Len(new.item) <= Len(tokens)
<1> DEFINE N == Len(tokens)
           A == Made(T, multiple)
           base == List(<<>>, multiple)
           step == TokenStep(T, tokens, multiple, parse_empty)
           new == create_tokens(tokens, multiple, parse_empty)
<1>1. N \in Nat
  OBVIOUS
<1>3. base \in A /\ base.item = <<>>
  BY EmptyList DEF Made
<1>4. ASSUME NEW a \in A, NEW m \in 1 .. N
      PROVE  step[<<a, m>>] \in A /\ Len(step[<<a, m>>].item) <= Len(a.item) + 1
  BY TokenSteps
<1>8. PICK it : LeftRun(A, N, base, step, it) /\ new = it[1 .. N]
  BY TokensRun
<1> HIDE DEF A, step, base, new
<1> DEFINE G == [m \in 0 .. N |-> {a \in A : Len(a.item) <= m}]
<1>9. it[1 .. N] \in G[N]
  <2>1. base \in G[0]
    BY <1>1, <1>3
  <2>2. ASSUME NEW m \in 1 .. N, NEW a \in A, a \in G[m - 1]
        PROVE  step[<<a, m>>] \in G[m]
    <3>1. m - 1 \in 0 .. N /\ m \in 0 .. N
      BY <1>1
    <3>2. step[<<a, m>>] \in A /\ Len(a.item) <= m - 1 /\ Len(step[<<a, m>>].item) <= Len(a.item) + 1
      BY <1>4, <2>2, <3>1
    <3>3. Len(a.item) \in Nat /\ Len(step[<<a, m>>].item) \in Nat
      BY <3>2 DEF A, Made, ListOf
    <3>4. Len(step[<<a, m>>].item) <= m
      BY <1>1, <3>2, <3>3
    <3>5. QED
      BY <3>1, <3>2, <3>4
  <2> HIDE DEF G, N
  <2>3. N \in Nat
    BY <1>1
  <2>4. QED
    BY <1>8, <2>1, <2>2, <2>3, RunKeeps
<1>10. it[1 .. N] \in A /\ Len(it[1 .. N].item) <= N
  <2>1. N \in 0 .. N
    BY <1>1
  <2>2. QED
    BY <1>9, <2>1
<1>11. QED
  BY <1>8, <1>10 DEF A, Made, new

-----------------------------------------------------------------------------
(* unique_numlist                                                          *)

\* Numbers that have a bit of their own have different bits.
LEMMA OwnBits ==
  ASSUME NEW n \in Nat, OwnBit(n)
  PROVE  Covered(n) /\ DdmBits(n) = {<<n % DdmSize, n \div DdmSize>>}
<1> DEFINE q == n \div DdmSize
<1> USE NumAssumption
<1>1. q \in Nat /\ q < IntBits - 1
  BY DEF OwnBit
<1> HIDE DEF q
<1>2. q % IntBits = q /\ q < WordBits /\ q # IntBits - 1
  BY <1>1
<1>3. DdmBits(n) = {n % DdmSize} \X {q}
  BY <1>2 DEF DdmBits, q
<1>4. {n % DdmSize} \X {q} = {<<n % DdmSize, q>>}
  OBVIOUS
<1>5. QED
  BY <1>2, <1>3, <1>4 DEF q, Covered

\* A number is determined by its quotient and its remainder.
LEMMA QuotientAndRemainder ==
  ASSUME NEW d \in Int, d > 0, NEW n \in Int, NEW k \in Int,
         n \div d = k \div d, n % d = k % d
  PROVE  n = k
  OBVIOUS

\* Numbers that have a bit of their own do not share it.
LEMMA OwnBitsDiffer ==
  ASSUME NEW n \in Nat, NEW k \in Nat, OwnBit(n), OwnBit(k), DdmBits(n) \cap DdmBits(k) # {}
  PROVE  n = k
<1> USE NumAssumption
<1>1. n % DdmSize = k % DdmSize /\ n \div DdmSize = k \div DdmSize
  BY OwnBits
<1>2. DdmSize \in Int /\ DdmSize > 0 /\ n \in Int /\ k \in Int
  OBVIOUS
<1>3. QED
  BY <1>1, <1>2, QuotientAndRemainder

\* Is the number at place i of s found among the numbers kept?  The loop looks for it in
\* the array, where what is not yet read follows what is kept.
FoundAt(s, acc, i) ==
  exist_pos(acc.kept \o SubSeq(s, Len(acc.kept) + 1, Len(s)), s[i], Len(acc.kept)) # 0

UniqueStep(s) ==
  [p \in SoundPasses \X (1 .. Len(s) - 1) |-> Pass(p[1], s[p[2]], FoundAt(s, p[1], p[2]))]

UniqueFold(s, f) ==
  LET upto == [i \in 1 .. Len(s) - 1 |-> i]
  IN  f = [S \in SUBSET DOMAIN upto |->
             IF S = {} THEN Nothing
             ELSE Pass(f[S \ {Max(S)}], s[upto[Max(S)]], FoundAt(s, f[S \ {Max(S)}], upto[Max(S)]))]

\* A turn of unique_numlist keeps what is kept sound, and keeps the number or leaves it out.
LEMMA UniqueTurn ==
  ASSUME NEW s \in Seq(Numbers), NEW acc \in SoundPasses, NEW m \in 1 .. Len(s) - 1
  PROVE  /\ Pass(acc, s[m], FoundAt(s, acc, m)) \in SoundPasses
         /\ UniqueStep(s)[<<acc, m>>] = Pass(acc, s[m], FoundAt(s, acc, m))
         /\ \/ Pass(acc, s[m], FoundAt(s, acc, m)).kept = acc.kept
            \/ Pass(acc, s[m], FoundAt(s, acc, m)).kept = Append(acc.kept, s[m])
<1> DEFINE num == s[m]
           found == FoundAt(s, acc, m)
           tail == SubSeq(s, Len(acc.kept) + 1, Len(s))
           here == acc.kept \o tail
           k == Len(acc.kept)
<1>1. num \in Numbers /\ acc.kept \in Seq(Numbers) /\ k \in Nat
  BY DEF SoundPasses, Passes
<1>2. tail \in Seq(Numbers)
  BY <1>1, SubSeqProperties
<1> HIDE DEF tail
<1>3. here \in Seq(Numbers) /\ Len(here) >= k /\ \A i \in 1 .. k : here[i] = acc.kept[i]
  BY <1>1, <1>2
<1>4. found <=> exist_pos(here, num, k) # 0
  BY DEF FoundAt, tail
<1>5. ~found => num \notin ToSet(acc.kept)
  <2>1. CASE k = 0
    BY <1>1, <2>1 DEF ToSet
  <2>2. CASE k > 0
    <3> HIDE DEF here, num
    <3>1. /\ \A i \in 1 .. k : here[i] = num => i <= exist_pos(here, num, k)
      <4>1. k \in Int /\ 0 < k /\ k <= Len(here)
        BY <1>1, <1>3, <2>2
      <4> HIDE DEF k
      <4>2. QED
        BY <1>3, <4>1, ExistPos
    <3>2. num \in ToSet(acc.kept) => \E i \in 1 .. k : here[i] = num
      BY <1>1, <1>3, ToSetProps
    <3>3. QED
      BY <1>4, <3>1, <3>2
  <2>3. QED
    BY <1>1, <2>1, <2>2
<1>6. UniqueStep(s)[<<acc, m>>] = Pass(acc, num, found)
  BY DEF UniqueStep
<1>7. found \in BOOLEAN
  BY DEF FoundAt
<1> HIDE DEF num, found
<1>8. QED
  BY <1>1, <1>5, <1>6, <1>7, PassKeeps DEF num, found

\* What is kept of the first m numbers of s.
KeptOf(s, m, acc) ==
  /\ Len(acc.kept) <= m /\ ToSet(acc.kept) \subseteq ToSet(s)
  /\ (\A n \in ToSet(s) : OwnBit(n)) =>
       /\ {s[i] : i \in 1 .. m} \subseteq ToSet(acc.kept)
       /\ acc.seen = UNION {DdmBits(s[i]) : i \in 1 .. m}

\* The next turn keeps this.
LEMMA KeptOfTurn ==
  ASSUME NEW s \in Seq(Numbers), NEW acc \in SoundPasses, NEW m \in 1 .. Len(s) - 1,
         KeptOf(s, m - 1, acc)
  PROVE  KeptOf(s, m, Pass(acc, s[m], FoundAt(s, acc, m)))
<1> DEFINE num == s[m]
           new == Pass(acc, num, FoundAt(s, acc, m))
<1>1. /\ num \in Numbers /\ acc.kept \in Seq(Numbers)
      /\ num \in ToSet(s) /\ m \in Nat
  BY DEF SoundPasses, Passes, ToSet
<1>2. /\ new \in SoundPasses
      /\ new.kept = acc.kept \/ new.kept = Append(acc.kept, num)
  BY UniqueTurn
<1>3. new = [seen |-> IF Covered(num) THEN acc.seen \cup DdmBits(num) ELSE acc.seen,
             kept |-> IF (IF Covered(num) THEN acc.seen \cap DdmBits(num) # {} ELSE FoundAt(s, acc, m))
                        THEN acc.kept ELSE Append(acc.kept, num)]
  BY DEF Pass
<1>4. ToSet(Append(acc.kept, num)) = ToSet(acc.kept) \cup {num}
  BY <1>1, AppendProps
<1> HIDE DEF new
<1>5. Len(new.kept) <= m /\ ToSet(new.kept) \subseteq ToSet(s)
  <2>1. Len(new.kept) <= Len(acc.kept) + 1 /\ Len(acc.kept) \in Nat /\ Len(new.kept) \in Nat
    BY <1>1, <1>2
  <2>2. Len(acc.kept) <= m - 1 /\ ToSet(acc.kept) \subseteq ToSet(s)
    BY DEF KeptOf
  <2>3. Len(new.kept) <= m
    BY <1>1, <2>1, <2>2
  <2>4. ToSet(new.kept) \subseteq ToSet(s)
    <3>1. new.kept = acc.kept => ToSet(new.kept) = ToSet(acc.kept)
      OBVIOUS
    <3>2. new.kept = Append(acc.kept, num) => ToSet(new.kept) = ToSet(acc.kept) \cup {num}
      BY <1>4
    <3>3. QED
      BY <1>1, <1>2, <2>2, <3>1, <3>2
  <2>5. QED
    BY <2>3, <2>4
<1>6. ASSUME \A n \in ToSet(s) : OwnBit(n)
      PROVE  /\ {s[i] : i \in 1 .. m} \subseteq ToSet(new.kept)
             /\ new.seen = UNION {DdmBits(s[i]) : i \in 1 .. m}
  <2>1. /\ {s[i] : i \in 1 .. m - 1} \subseteq ToSet(acc.kept)
        /\ acc.seen = UNION {DdmBits(s[i]) : i \in 1 .. m - 1}
    BY <1>6 DEF KeptOf
  <2>2. 1 .. m = (1 .. m - 1) \cup {m}
    BY <1>1
  <2>3. Covered(num) /\ num \in Nat
    BY <1>1, <1>6, NumbersAreNat, OwnBits
  <2>4. new.seen = acc.seen \cup DdmBits(num)
    BY <1>3, <2>3
  <2>5. new.kept = IF acc.seen \cap DdmBits(num) # {} THEN acc.kept ELSE Append(acc.kept, num)
    BY <1>3, <2>3
  <2>6. new.seen = UNION {DdmBits(s[i]) : i \in 1 .. m}
    BY <2>1, <2>2, <2>4
  <2>7. num \in ToSet(new.kept)
    <3>1. CASE acc.seen \cap DdmBits(num) = {}
      BY <1>4, <2>5, <3>1
    <3>2. CASE acc.seen \cap DdmBits(num) # {}
      <4>1. PICK i \in 1 .. m - 1 : DdmBits(s[i]) \cap DdmBits(num) # {}
        BY <2>1, <3>2
      <4> DEFINE k == s[i]
      <4>2. i \in 1 .. Len(s) /\ k \in Numbers /\ k \in ToSet(s)
        BY <1>1 DEF ToSet
      <4> HIDE DEF k
      <4>3. k = num
        <5>1. k \in Nat /\ OwnBit(k) /\ OwnBit(num) /\ DdmBits(k) \cap DdmBits(num) # {}
          BY <1>1, <1>6, <4>1, <4>2, NumbersAreNat DEF k
        <5> HIDE DEF num
        <5>2. QED
          BY <2>3, <5>1, OwnBitsDiffer
      <4>4. num \in ToSet(acc.kept)
        BY <2>1, <4>3 DEF k
      <4>5. QED
        BY <2>5, <3>2, <4>4
    <3>3. QED
      BY <3>1, <3>2
  <2>8. ToSet(acc.kept) \subseteq ToSet(new.kept)
    BY <1>4, <2>5
  <2>9. QED
    BY <2>1, <2>2, <2>6, <2>7, <2>8
<1>7. QED
  BY <1>5, <1>6 DEF KeptOf, new

\* unique_numlist.
LEMMA UniqueNumbers ==
  ASSUME NEW list \in ListOf(Numbers)
  PROVE  LET new == unique_numlist(list)
         IN  /\ new \in ListOf(Numbers) /\ new.multiple = list.multiple
             /\ Len(new.item) <= Len(list.item) /\ ToSet(new.item) \subseteq ToSet(list.item)
             /\ list.multiple => IsInjective(new.item)
             /\ ~list.multiple => new = list
             /\ (\A n \in ToSet(list.item) : OwnBit(n)) =>
                  ToSet(Front(list.item)) \subseteq ToSet(new.item)
<1> DEFINE s == list.item
           N == IF s = <<>> THEN 0 ELSE Len(s) - 1
           A == SoundPasses
           step == UniqueStep(s)
           upto == [i \in 1 .. Len(s) - 1 |-> i]
           it == CHOOSE f : UniqueFold(s, f)
           Added(a, m) == Pass(a, s[m], FoundAt(s, a, m))
           new == unique_numlist(list)
<1>1. /\ s \in Seq(Numbers) /\ list.multiple \in BOOLEAN
      /\ list = [item |-> s, multiple |-> list.multiple]
  BY DEF ListOf
<1>2. /\ N \in Nat /\ N <= Len(s) /\ 1 .. N = 1 .. Len(s) - 1 /\ 1 .. N \subseteq 1 .. Len(s)
      /\ DOMAIN upto = 1 .. N /\ \A m \in 1 .. N : upto[m] = m
  BY <1>1
<1>3. new = IF list.multiple THEN [list EXCEPT !.item = it[DOMAIN upto].kept] ELSE list
  BY DEF unique_numlist, FoldLeft, MapThenFoldSet, UniqueFold, FoundAt
<1>4. Front(s) = [i \in 1 .. N |-> s[i]] /\ Len(s) \in Nat
  <2>1. Front(s) = [i \in 1 .. Len(s) - 1 |-> s[i]]
    BY <1>1 DEF Front
  <2>2. QED
    BY <1>1, <1>2, <2>1
<1> HIDE DEF s, N
<1>5. ASSUME NEW a \in A, NEW m \in 1 .. N
      PROVE  /\ Added(a, m) \in A /\ step[<<a, m>>] = Added(a, m)
             /\ KeptOf(s, m - 1, a) => KeptOf(s, m, Added(a, m))
  <2>1. m \in 1 .. Len(s) - 1
    BY <1>2
  <2>2. Added(a, m) \in A /\ step[<<a, m>>] = Added(a, m)
    BY <1>1, <2>1, UniqueTurn
  <2>3. ASSUME KeptOf(s, m - 1, a)
        PROVE  KeptOf(s, m, Added(a, m))
    BY <1>1, <2>1, <2>3, KeptOfTurn
  <2>4. QED
    BY <2>2, <2>3
<1>6. Steps(A, N, Nothing, step)
  <2>1. step \in [A \X (1 .. N) -> A]
    BY <1>2, <1>5 DEF UniqueStep
  <2>2. QED
    BY <1>2, <2>1, NothingIsSound DEF Steps
<1> HIDE DEF A, step, it
<1>7. PICK f : f = [S \in SUBSET (1 .. N) |-> f[S]] /\ LeftFold(A, N, Nothing, step, f)
  BY <1>6, LeftFolds
<1>8. UniqueFold(s, it)
  <2>1. ASSUME NEW S \in SUBSET (1 .. N)
        PROVE  f[S] = IF S = {} THEN Nothing
                      ELSE Pass(f[S \ {Max(S)}], s[upto[Max(S)]],
                                FoundAt(s, f[S \ {Max(S)}], upto[Max(S)]))
    <3>1. CASE S = {}
      BY <1>7, <3>1 DEF LeftFold
    <3>2. CASE S # {}
      <4> DEFINE k == Max(S)
                 a == f[S \ {k}]
      <4>1. k \in 1 .. N /\ a \in A /\ f[S] = step[<<a, k>>]
        BY <1>7, <3>2 DEF LeftFold
      <4> HIDE DEF k, a
      <4>2. f[S] = Added(a, k) /\ upto[k] = k
        BY <1>2, <1>5, <4>1
      <4>3. QED
        BY <3>2, <4>2 DEF k, a
    <3>3. QED
      BY <3>1, <3>2
  <2>2. UniqueFold(s, f)
    BY <1>2, <1>7, <2>1 DEF UniqueFold
  <2>3. QED
    BY <2>2 DEF it
<1>9. LeftRun(A, N, Nothing, step, it)
  <2>1. ASSUME NEW S \in SUBSET (1 .. N)
        PROVE  IF S = {} THEN it[S] = Nothing
                         ELSE Max(S) \in 1 .. N /\ it[S \ {Max(S)}] \in A =>
                                it[S] = step[<<it[S \ {Max(S)}], Max(S)>>]
    <3> DEFINE k == Max(S)
               a == it[S \ {k}]
    <3>1. it[S] = IF S = {} THEN Nothing ELSE Pass(a, s[upto[k]], FoundAt(s, a, upto[k]))
      BY <1>2, <1>8 DEF UniqueFold
    <3> HIDE DEF k, a
    <3>2. S # {} /\ k \in 1 .. N /\ a \in A => it[S] = step[<<a, k>>]
      BY <1>2, <1>5, <3>1
    <3>3. QED
      BY <3>1, <3>2 DEF k, a
  <2>2. QED
    BY <1>6, <2>1, LeftRuns
<1> DEFINE G == [m \in 0 .. N |-> {a \in A : KeptOf(s, m, a)}]
           last == it[1 .. N]
<1>10. last \in A /\ KeptOf(s, N, last)
  <2>1. Nothing \in G[0]
    <3>1. KeptOf(s, 0, Nothing)
      BY NothingIsSound DEF KeptOf, ToSet
    <3>2. QED
      BY <1>2, <3>1, NothingIsSound DEF A
  <2>2. ASSUME NEW m \in 1 .. N, NEW a \in A, a \in G[m - 1]
        PROVE  step[<<a, m>>] \in G[m]
    <3>1. m - 1 \in 0 .. N /\ m \in 0 .. N
      BY <1>2
    <3>2. KeptOf(s, m - 1, a)
      BY <2>2, <3>1
    <3>3. step[<<a, m>>] \in A /\ KeptOf(s, m, step[<<a, m>>])
      BY <1>5, <3>2
    <3>4. QED
      BY <3>1, <3>3
  <2>3. N \in Nat /\ N \in 0 .. N
    BY <1>2
  <2> HIDE DEF G, upto
  <2>4. last \in G[N]
    BY <1>9, <2>1, <2>2, <2>3, RunKeeps
  <2>5. QED
    BY <2>3, <2>4 DEF G
<1>11. new = IF list.multiple THEN [list EXCEPT !.item = last.kept] ELSE list
  BY <1>2, <1>3
<1> HIDE DEF last, new, upto
<1>12. last.kept \in Seq(Numbers) /\ IsInjective(last.kept)
  BY <1>10 DEF A, SoundPasses, Passes, Sound
<1>13. ToSet(Front(s)) = {s[i] : i \in 1 .. N}
  BY <1>4 DEF ToSet
<1>14. ToSet(Front(s)) \subseteq ToSet(s)
  BY <1>1, <1>2, <1>13 DEF ToSet
<1>15. CASE list.multiple
  <2>1. new = [item |-> last.kept, multiple |-> list.multiple]
    BY <1>1, <1>11, <1>15
  <2>2. Len(last.kept) <= Len(s)
    <3>1. Len(last.kept) <= N /\ Len(last.kept) \in Nat
      BY <1>10, <1>12 DEF KeptOf
    <3>2. QED
      BY <1>2, <1>4, <3>1
  <2>3. QED
    BY <1>1, <1>10, <1>12, <1>13, <1>15, <2>1, <2>2 DEF KeptOf, ListOf, new, s
<1>16. CASE ~list.multiple
  BY <1>4, <1>11, <1>14, <1>16 DEF new, s
<1>17. QED
  BY <1>1, <1>15, <1>16

\* set_numlist_multiple.
LEMMA SetsNumbers ==
  ASSUME NEW list \in ListOf(Numbers), NEW multiple \in BOOLEAN
  PROVE  LET new == set_numlist_multiple(list, multiple)
         IN  /\ new \in ListOf(Numbers) /\ new.multiple = multiple
             /\ Len(new.item) <= Len(list.item) /\ (Unique(list) => Unique(new))
             /\ multiple => ToSet(new.item) = ToSet(list.item)
             /\ ToSet(new.item) \subseteq ToSet(list.item)
             /\ (\A n \in ToSet(list.item) : OwnBit(n)) =>
                  ToSet(Front(list.item)) \subseteq ToSet(new.item)
<1> DEFINE new == set_numlist_multiple(list, multiple)
           u == unique_numlist(list)
<1>1. /\ list.item \in Seq(Numbers) /\ list.multiple \in BOOLEAN /\ Len(list.item) \in Nat
  BY DEF ListOf
<1>2. /\ u \in ListOf(Numbers) /\ u.multiple = list.multiple
      /\ Len(u.item) <= Len(list.item) /\ ToSet(u.item) \subseteq ToSet(list.item)
      /\ list.multiple => IsInjective(u.item)
      /\ ~list.multiple => u = list
      /\ (\A n \in ToSet(list.item) : OwnBit(n)) => ToSet(Front(list.item)) \subseteq ToSet(u.item)
  BY UniqueNumbers
<1>3. new = IF multiple = list.multiple THEN list
            ELSE List(IF multiple THEN list.item ELSE u.item, multiple)
  BY DEF set_numlist_multiple
<1> HIDE DEF new, u
<1>4. ToSet(Front(list.item)) \subseteq ToSet(list.item)
  <2>1. Front(list.item) = [i \in 1 .. Len(list.item) - 1 |-> list.item[i]]
    BY <1>1 DEF Front
  <2>2. QED
    BY <1>1, <2>1 DEF ToSet
<1>5. CASE multiple = list.multiple
  <2>1. new = list
    BY <1>3, <1>5
  <2>2. QED
    BY <1>1, <1>4, <1>5, <2>1 DEF new
<1>6. CASE multiple /\ ~list.multiple
  <2>1. new = [item |-> list.item, multiple |-> TRUE]
    BY <1>1, <1>3, <1>6 DEF List
  <2>2. new \in ListOf(Numbers) /\ new.item = list.item /\ new.multiple = TRUE
    BY <1>1, <2>1 DEF ListOf
  <2>3. Unique(new)
    BY <2>2 DEF Unique
  <2>4. multiple = TRUE
    BY <1>6
  <2>5. Len(new.item) <= Len(list.item) /\ ToSet(new.item) = ToSet(list.item)
    BY <1>1, <2>2
  <2>6. new.multiple = multiple
    BY <2>2, <2>4
  <2>7. QED
    BY <1>4, <2>2, <2>3, <2>5, <2>6 DEF new
<1>7. CASE ~multiple /\ list.multiple
  <2>1. new = [item |-> u.item, multiple |-> FALSE] /\ u.item \in Seq(Numbers)
    BY <1>2, <1>3, <1>7 DEF List, ListOf
  <2>2. new \in ListOf(Numbers) /\ new.item = u.item /\ new.multiple = FALSE
    BY <2>1 DEF ListOf
  <2>3. Unique(new)
    BY <1>2, <1>7, <2>2 DEF Unique
  <2>4. multiple = FALSE
    BY <1>7
  <2>5. QED
    BY <1>2, <2>2, <2>3, <2>4 DEF new
<1>8. QED
  BY <1>1, <1>5, <1>6, <1>7

-----------------------------------------------------------------------------
(* unique_iplist                                                           *)

DropAt(items, i) ==
  IF exist_pos(items, items[i], i - 1) # 1 THEN remove_iplist_at_pos(items, i) ELSE items

DropStep(T, s) == [p \in Seq(T) \X (1 .. Len(s) - 1) |-> DropAt(p[1], p[2] + 1)]

DropFold(s, f) ==
  LET below == [k \in 1 .. Len(s) - 1 |-> k + 1]
  IN  f = [S \in SUBSET DOMAIN below |->
             IF S = {} THEN s ELSE DropAt(f[S \ {Min(S)}], below[Min(S)])]

\* What is left when the items behind place m have been looked at: those up to m, and at
\* most one more, a copy of the first.
LeftBehind(T, s, m, items) ==
  /\ items \in Seq(T) /\ Len(items) \in m .. m + 1
  /\ \A i \in 1 .. m : items[i] = s[i]
  /\ Len(items) = m + 1 => items[m + 1] = s[1] /\ \A i \in 2 .. m : s[i] # s[1]

\* Looking at the item before keeps this: it is dropped if it is found further up.
LEMMA DropTurn ==
  ASSUME NEW T, NEW s \in Seq(T), NEW m \in 1 .. Len(s) - 1, NEW items,
         LeftBehind(T, s, m + 1, items)
  PROVE  LeftBehind(T, s, m, DropAt(items, m + 1))
<1> DEFINE i == m + 1
           new == DropAt(items, i)
           p == exist_pos(items, items[i], m)
<1>1. /\ items \in Seq(T) /\ Len(items) \in i .. i + 1 /\ Len(items) \in Nat
      /\ \A j \in 1 .. i : items[j] = s[j]
      /\ Len(items) = i + 1 => items[i + 1] = s[1] /\ \A j \in 2 .. i : s[j] # s[1]
      /\ m \in Nat /\ m >= 1 /\ i \in 1 .. Len(items) /\ i - 1 = m /\ m <= Len(items)
  BY DEF LeftBehind
<1>2. /\ p \in 0 .. m
      /\ p # 0 => items[p] = items[i]
      /\ \A j \in 1 .. m : items[j] = items[i] => j <= p
  <2>1. m \in Int /\ 0 < m /\ m <= Len(items)
    BY <1>1
  <2> HIDE DEF i
  <2>2. QED
    BY <1>1, <2>1, ExistPos
<1>3. new = IF p # 1 THEN RemoveAt(items, i) ELSE items
  BY <1>1 DEF DropAt, remove_iplist_at_pos
<1>4. /\ RemoveAt(items, i) \in Seq(T) /\ Len(RemoveAt(items, i)) = Len(items) - 1
      /\ \A j \in 1 .. Len(items) - 1 :
           RemoveAt(items, i)[j] = IF j < i THEN items[j] ELSE items[j + 1]
  BY <1>1, RemoveAtProps
<1> HIDE DEF p, new
<1>5. CASE p # 1
  <2> DEFINE r == RemoveAt(items, i)
  <2>1. new = r
    BY <1>3, <1>5
  <2>2. Len(r) \in m .. m + 1 /\ \A j \in 1 .. m : r[j] = s[j]
    <3>1. Len(r) \in m .. m + 1
      BY <1>1, <1>4
    <3>2. ASSUME NEW j \in 1 .. m
          PROVE  r[j] = s[j]
      <4>1. j \in 1 .. Len(items) - 1 /\ j < i /\ j \in 1 .. i
        BY <1>1
      <4>2. QED
        BY <1>1, <1>4, <4>1
    <3>3. QED
      BY <3>1, <3>2
  <2>3. Len(r) = m + 1 => r[m + 1] = s[1] /\ \A j \in 2 .. m : s[j] # s[1]
    BY <1>1, <1>4
  <2>4. QED
    BY <1>4, <2>1, <2>2, <2>3 DEF LeftBehind, new
<1>6. CASE p = 1
  <2>1. new = items
    BY <1>3, <1>6
  <2>2. items[i] = s[1]
    BY <1>1, <1>2, <1>6
  <2>3. Len(items) = i
    <3>1. i \in 2 .. i
      BY <1>1
    <3>2. QED
      BY <1>1, <2>2, <3>1
  <2>4. ASSUME NEW j \in 2 .. m
        PROVE  s[j] # s[1]
    <3>1. j \in 1 .. m /\ j \in 1 .. i /\ ~(j <= 1)
      BY <1>1
    <3>2. items[j] = s[j]
      BY <1>1, <3>1
    <3>3. QED
      BY <1>2, <1>6, <2>2, <3>1, <3>2
  <2>5. \A j \in 1 .. m : items[j] = s[j]
    BY <1>1
  <2>6. QED
    BY <1>1, <2>1, <2>2, <2>3, <2>4, <2>5 DEF LeftBehind, new
<1>7. QED
  BY <1>5, <1>6 DEF new

\* The first and perhaps a copy of it.
LEMMA FirstAndCopy ==
  ASSUME NEW T, NEW s \in Seq(T), s # <<>>, NEW r, LeftBehind(T, s, 1, r)
  PROVE  /\ r \in Seq(T) /\ ToSet(r) \subseteq ToSet(s) /\ s[1] \in ToSet(r)
         /\ DistinctBut(r, 2) /\ Len(r) <= 2 /\ Len(r) \in Nat
<1>1. r \in Seq(T) /\ Len(r) \in {1, 2} /\ r[1] = s[1] /\ (Len(r) = 2 => r[2] = s[1])
  BY DEF LeftBehind
<1>2. DOMAIN r = 1 .. Len(r) /\ 1 \in DOMAIN r /\ 1 \in DOMAIN s
  BY <1>1
<1>3. \A i \in DOMAIN r : i = 1 \/ (i = 2 /\ Len(r) = 2)
  BY <1>1, <1>2
<1>4. \A i \in DOMAIN r : r[i] = s[1]
  BY <1>1, <1>3
<1>5. ToSet(r) \subseteq ToSet(s) /\ s[1] \in ToSet(r)
  BY <1>1, <1>2, <1>4 DEF ToSet
<1>6. DistinctBut(r, 2)
  BY <1>3 DEF DistinctBut
<1>7. \A n \in {1, 2} : n <= 2 /\ n \in Nat
  OBVIOUS
<1>8. QED
  BY <1>1, <1>5, <1>6, <1>7

\* unique_iplist: of a list that allows multiple entries it leaves the first, and perhaps
\* one copy of it.
LEMMA UniqueStrings ==
  ASSUME NEW T, NEW list \in ListOf(T)
  PROVE  LET new == unique_iplist(list)
         IN  /\ new \in ListOf(T) /\ new.multiple = list.multiple
             /\ Len(new.item) <= Len(list.item) /\ ToSet(new.item) \subseteq ToSet(list.item)
             /\ list.item # <<>> => list.item[1] \in ToSet(new.item)
             /\ list.multiple => \E k : DistinctBut(new.item, k)
             /\ ~list.multiple => new = list
<1> DEFINE s == list.item
           N == IF s = <<>> THEN 0 ELSE Len(s) - 1
           A == Seq(T)
           step == DropStep(T, s)
           below == [k \in 1 .. Len(s) - 1 |-> k + 1]
           it == CHOOSE f : DropFold(s, f)
           new == unique_iplist(list)
<1>1. /\ s \in Seq(T) /\ list.multiple \in BOOLEAN
      /\ list = [item |-> s, multiple |-> list.multiple]
  BY DEF ListOf
<1>2. /\ N \in Nat /\ 1 .. N = 1 .. Len(s) - 1 /\ Len(s) \in Nat
      /\ s # <<>> => Len(s) = N + 1
      /\ DOMAIN below = 1 .. N /\ \A m \in 1 .. N : below[m] = m + 1
  BY <1>1
<1>3. new = IF list.multiple THEN [list EXCEPT !.item = it[DOMAIN below]] ELSE list
  BY DEF unique_iplist, FoldRight, MapThenFoldSet, DropFold, DropAt
<1> HIDE DEF s, N
<1>4. ASSUME NEW a \in A, NEW m \in 1 .. N
      PROVE  DropAt(a, m + 1) \in A /\ step[<<a, m>>] = DropAt(a, m + 1)
  <2>1. m + 1 \in DOMAIN a => m + 1 \in 1 .. Len(a)
    OBVIOUS
  <2>2. m + 1 \in DOMAIN a => RemoveAt(a, m + 1) \in A
    BY <2>1, RemoveAtProps
  <2>3. DropAt(a, m + 1) \in A
    BY <2>2 DEF DropAt, remove_iplist_at_pos
  <2>4. step[<<a, m>>] = DropAt(a, m + 1)
    BY <1>2 DEF DropStep
  <2>5. QED
    BY <2>3, <2>4
<1>5. Steps(A, N, s, step)
  <2>1. step \in [A \X (1 .. N) -> A]
    BY <1>2, <1>4 DEF DropStep
  <2>2. QED
    BY <1>1, <1>2, <2>1 DEF Steps
<1> HIDE DEF A, step, it
<1>6. PICK f : f = [S \in SUBSET (1 .. N) |-> f[S]] /\ RightFold(A, N, s, step, f)
  BY <1>5, RightFolds
<1>7. DropFold(s, it)
  <2>1. ASSUME NEW S \in SUBSET (1 .. N)
        PROVE  f[S] = IF S = {} THEN s ELSE DropAt(f[S \ {Min(S)}], below[Min(S)])
    <3>1. CASE S = {}
      BY <1>6, <3>1 DEF RightFold
    <3>2. CASE S # {}
      <4> DEFINE k == Min(S)
                 a == f[S \ {k}]
      <4>1. k \in 1 .. N /\ a \in A /\ f[S] = step[<<a, k>>]
        BY <1>6, <3>2 DEF RightFold
      <4> HIDE DEF k, a
      <4>2. f[S] = DropAt(a, k + 1) /\ below[k] = k + 1
        BY <1>2, <1>4, <4>1
      <4>3. QED
        BY <3>2, <4>2 DEF k, a
    <3>3. QED
      BY <3>1, <3>2
  <2>2. DropFold(s, f)
    BY <1>2, <1>6, <2>1 DEF DropFold
  <2>3. QED
    BY <2>2 DEF it
<1>8. RightRun(A, N, s, step, it)
  <2>1. ASSUME NEW S \in SUBSET (1 .. N)
        PROVE  IF S = {} THEN it[S] = s
                         ELSE Min(S) \in 1 .. N /\ it[S \ {Min(S)}] \in A =>
                                it[S] = step[<<it[S \ {Min(S)}], Min(S)>>]
    <3> DEFINE k == Min(S)
               a == it[S \ {k}]
    <3>1. it[S] = IF S = {} THEN s ELSE DropAt(a, below[k])
      BY <1>2, <1>7 DEF DropFold
    <3> HIDE DEF k, a
    <3>2. S # {} /\ k \in 1 .. N /\ a \in A => it[S] = step[<<a, k>>]
      BY <1>2, <1>4, <3>1
    <3>3. QED
      BY <3>1, <3>2 DEF k, a
  <2>2. QED
    BY <1>5, <2>1, RightRuns
<1> DEFINE G == [m \in 1 .. N + 1 |-> {a \in A : LeftBehind(T, s, m, a)}]
           last == it[1 .. N]
<1>9. ASSUME s # <<>>
      PROVE  LeftBehind(T, s, 1, last)
  <2>1. s \in G[N + 1]
    <3>1. LeftBehind(T, s, N + 1, s) /\ N + 1 \in 1 .. N + 1
      BY <1>1, <1>2, <1>9 DEF LeftBehind
    <3>2. QED
      BY <1>1, <3>1 DEF A
  <2>2. ASSUME NEW m \in 1 .. N, NEW a \in A, a \in G[m + 1]
        PROVE  step[<<a, m>>] \in G[m]
    <3>1. m + 1 \in 1 .. N + 1 /\ m \in 1 .. N + 1 /\ m \in 1 .. Len(s) - 1
      BY <1>2
    <3>2. LeftBehind(T, s, m + 1, a)
      BY <2>2, <3>1
    <3>3. LeftBehind(T, s, m, DropAt(a, m + 1))
      BY <1>1, <3>1, <3>2, DropTurn
    <3>4. step[<<a, m>>] \in A /\ LeftBehind(T, s, m, step[<<a, m>>])
      BY <1>4, <3>3
    <3>5. QED
      BY <3>1, <3>4
  <2>3. N \in Nat /\ 1 \in 1 .. N + 1
    BY <1>2
  <2> HIDE DEF G, below
  <2>4. last \in G[1]
    BY <1>8, <2>1, <2>2, <2>3, RightRunKeeps
  <2>5. QED
    BY <2>3, <2>4 DEF G
<1>10. ASSUME s = <<>>
       PROVE  last = <<>>
  <2>1. 1 .. N = {}
    BY <1>10 DEF N
  <2>2. last = s
    BY <1>2, <1>7, <2>1 DEF DropFold
  <2>3. QED
    BY <1>10, <2>2
<1>11. new = IF list.multiple THEN [list EXCEPT !.item = last] ELSE list
  BY <1>2, <1>3
<1> HIDE DEF last, new, below
<1>12. /\ last \in Seq(T) /\ Len(last) <= Len(s) /\ ToSet(last) \subseteq ToSet(s)
       /\ s # <<>> => s[1] \in ToSet(last)
       /\ \E k : DistinctBut(last, k)
  <2>1. CASE s = <<>>
    <3>1. DistinctBut(last, 0)
      BY <1>10, <2>1 DEF DistinctBut
    <3>2. QED
      BY <1>1, <1>10, <2>1, <3>1
  <2>2. CASE s # <<>>
    <3>1. /\ last \in Seq(T) /\ ToSet(last) \subseteq ToSet(s) /\ s[1] \in ToSet(last)
          /\ DistinctBut(last, 2) /\ Len(last) <= 2 /\ Len(last) \in Nat
      BY <1>1, <1>9, <2>2, FirstAndCopy
    <3>5. Len(last) <= Len(s)
      <4>1. CASE N = 0
        <5>1. 1 .. N = {}
          BY <4>1
        <5>2. it[1 .. N] = s
          BY <1>2, <1>7, <5>1 DEF DropFold
        <5>3. QED
          BY <1>2, <5>2 DEF last
      <4>2. CASE N # 0
        <5>1. N \in Nat /\ Len(s) = N + 1 /\ N >= 1
          BY <1>2, <2>2, <4>2
        <5>2. QED
          BY <3>1, <5>1
      <4>3. QED
        BY <4>1, <4>2
    <3>6. QED
      BY <3>1, <3>5
  <2>3. QED
    BY <2>1, <2>2
<1>13. CASE list.multiple
  <2>1. new = [item |-> last, multiple |-> list.multiple]
    BY <1>1, <1>11, <1>13
  <2>2. new \in ListOf(T) /\ new.item = last /\ new.multiple = list.multiple
    BY <1>1, <1>12, <2>1 DEF ListOf
  <2>3. QED
    BY <1>12, <1>13, <2>2 DEF new, s
<1>14. CASE ~list.multiple
  <2>1. new = list /\ (s # <<>> => s[1] \in ToSet(s))
    BY <1>1, <1>2, <1>11, <1>14 DEF ToSet
  <2>2. QED
    BY <1>2, <1>14, <2>1 DEF new, s
<1>15. QED
  BY <1>1, <1>13, <1>14

\* set_iplist_multiple.
LEMMA SetsStrings ==
  ASSUME NEW T, NEW list \in ListOf(T), NEW multiple \in BOOLEAN
  PROVE  LET new == set_iplist_multiple(list, multiple)
         IN  /\ new \in ListOf(T) /\ new.multiple = multiple
             /\ Len(new.item) <= Len(list.item) /\ (Almost(list) => Almost(new))
             /\ multiple => ToSet(new.item) = ToSet(list.item)
             /\ ToSet(new.item) \subseteq ToSet(list.item)
             /\ list.item # <<>> => list.item[1] \in ToSet(new.item)
<1> DEFINE new == set_iplist_multiple(list, multiple)
           u == unique_iplist(list)
<1>1. /\ list.item \in Seq(T) /\ list.multiple \in BOOLEAN /\ Len(list.item) \in Nat
  BY DEF ListOf
<1>2. /\ u \in ListOf(T) /\ u.multiple = list.multiple
      /\ Len(u.item) <= Len(list.item) /\ ToSet(u.item) \subseteq ToSet(list.item)
      /\ list.item # <<>> => list.item[1] \in ToSet(u.item)
      /\ list.multiple => \E k : DistinctBut(u.item, k)
      /\ ~list.multiple => u = list
  BY UniqueStrings
<1>3. new = IF multiple = list.multiple THEN list
            ELSE List(IF multiple THEN list.item ELSE u.item, multiple)
  BY DEF set_iplist_multiple
<1> HIDE DEF new, u
<1>4. list.item # <<>> => list.item[1] \in ToSet(list.item)
  BY <1>1 DEF ToSet
<1>5. CASE multiple = list.multiple
  <2>1. new = list
    BY <1>3, <1>5
  <2>2. QED
    BY <1>1, <1>4, <1>5, <2>1 DEF new
<1>6. CASE multiple /\ ~list.multiple
  <2>1. new = [item |-> list.item, multiple |-> TRUE]
    BY <1>1, <1>3, <1>6 DEF List
  <2>2. new \in ListOf(T) /\ new.item = list.item /\ new.multiple = TRUE
    BY <1>1, <2>1 DEF ListOf
  <2>3. Almost(new)
    BY <2>2 DEF Almost
  <2>4. multiple = TRUE
    BY <1>6
  <2>5. Len(new.item) <= Len(list.item) /\ ToSet(new.item) = ToSet(list.item)
    BY <1>1, <2>2
  <2>6. new.multiple = multiple
    BY <2>2, <2>4
  <2>7. QED
    BY <1>4, <2>2, <2>3, <2>5, <2>6 DEF new
<1>7. CASE ~multiple /\ list.multiple
  <2>1. new = [item |-> u.item, multiple |-> FALSE] /\ u.item \in Seq(T)
    BY <1>2, <1>3, <1>7 DEF List, ListOf
  <2>2. new \in ListOf(T) /\ new.item = u.item /\ new.multiple = FALSE
    BY <2>1 DEF ListOf
  <2>3. Almost(new)
    BY <1>2, <1>7, <2>2 DEF Almost
  <2>4. multiple = FALSE
    BY <1>7
  <2>5. QED
    BY <1>2, <2>2, <2>3, <2>4 DEF new
<1>8. QED
  BY <1>1, <1>5, <1>6, <1>7

\* append_iplist.
LEMMA Appends ==
  ASSUME NEW T, NEW list \in ListOf(T), NEW e \in T
  PROVE  /\ append_iplist(list, e) \in ListOf(T) /\ append_iplist(list, e).multiple
         /\ ToSet(append_iplist(list, e).item) = ToSet(list.item) \cup {e}
<1>1. list.item \in Seq(T)
  BY DEF ListOf
<1>2. ToSet(Append(list.item, e)) = ToSet(list.item) \cup {e}
  BY <1>1, AppendProps
<1>3. append_iplist(list, e) = [item |-> Append(list.item, e), multiple |-> TRUE]
  BY DEF append_iplist, List
<1>4. QED
  BY <1>1, <1>2, <1>3 DEF ListOf

-----------------------------------------------------------------------------
(* reorder_numlist                                                         *)

\* The items that move: different ones, those of the fragment that are on the list.
LEMMA Chains ==
  ASSUME NEW T, NEW list \in ListOf(T), NEW fragment \in ListOf(T)
  PROVE  /\ Chain(list, fragment) \in ListOf(T) /\ IsInjective(Chain(list, fragment).item)
         /\ ToSet(Chain(list, fragment).item) = ToSet(fragment.item) \cap ToSet(list.item)
<1> DEFINE empty == create_numlist(<<>>, FALSE)
           all == union_numlist(empty, fragment)
<1>1. empty = List(<<>>, FALSE)
  <2>1. Deduplicated(<<>>) = <<>>
    <3> DEFINE it == CHOOSE f : PassFold(<<>>, f)
    <3>1. Deduplicated(<<>>) = it[DOMAIN <<>>].kept
      BY DEF Deduplicated, FoldLeft, MapThenFoldSet, PassFold
    <3>2. PassFold(<<>>, [S \in SUBSET DOMAIN <<>> |-> Nothing])
      BY DEF PassFold
    <3>3. PassFold(<<>>, it)
      BY <3>2
    <3> HIDE DEF it
    <3>4. it[DOMAIN <<>>] = Nothing
      BY <3>3 DEF PassFold
    <3>5. QED
      BY <3>1, <3>4, NothingIsSound
  <2> DEFINE stop == CHOOSE i \in 1 .. Len(<<>>) + 1 :
                       /\ i <= Len(<<>>) => <<>>[i] < 0
                       /\ \A j \in 1 .. i - 1 : <<>>[j] >= 0
  <2>2. empty = List(Deduplicated(SubSeq(<<>>, 1, stop - 1)), FALSE)
    BY DEF create_numlist
  <2>3. stop = 1
    OBVIOUS
  <2>4. SubSeq(<<>>, 1, 1 - 1) = <<>>
    OBVIOUS
  <2>5. QED
    BY <2>1, <2>2, <2>3, <2>4
<1>2. /\ empty \in ListOf(T) /\ empty.multiple = FALSE /\ Unique(empty)
      /\ empty.item = <<>> /\ ToSet(<<>>) = {}
  BY <1>1, EmptyList
<1> HIDE DEF empty
<1>3. /\ all \in ListOf(T) /\ all.multiple = FALSE /\ Unique(all)
      /\ ToSet(all.item) = ToSet(fragment.item)
  <2>1. /\ all \in ListOf(T) /\ all.multiple = empty.multiple
        /\ ToSet(all.item) = ToSet(empty.item) \cup ToSet(fragment.item)
        /\ Unique(empty) => Unique(all)
    BY <1>2, Unions
  <2>2. ToSet(empty.item) = {}
    BY <1>2
  <2> HIDE DEF all
  <2>3. QED
    BY <1>2, <2>1, <2>2
<1> HIDE DEF all
<1>4. Chain(list, fragment) = intersect_numlist(all, list)
  BY DEF Chain, all, empty
<1>5. /\ Thinned(T, all, intersect_numlist(all, list))
      /\ ToSet(intersect_numlist(all, list).item) = ToSet(all.item) \cap ToSet(list.item)
  BY <1>3, Intersects
<1>6. QED
  BY <1>3, <1>4, <1>5 DEF Thinned, Unique

\* Two sequences put together with the second inserted behind place p of the first.
Inserted(rest, chain, p) ==
  [i \in 1 .. Len(rest) + Len(chain) |->
     IF i <= p THEN rest[i]
     ELSE IF i <= p + Len(chain) THEN chain[i - p]
     ELSE rest[i - Len(chain)]]

\* If all their elements differ, nothing is lost and nothing comes twice.
LEMMA InsertedProps ==
  ASSUME NEW T, NEW rest \in Seq(T), NEW chain \in Seq(T), NEW p \in 0 .. Len(rest),
         IsInjective(rest), IsInjective(chain), ToSet(rest) \cap ToSet(chain) = {}
  PROVE  /\ Inserted(rest, chain, p) \in Seq(T)
         /\ Len(Inserted(rest, chain, p)) = Len(rest) + Len(chain)
         /\ IsInjective(Inserted(rest, chain, p))
         /\ ToSet(Inserted(rest, chain, p)) = ToSet(rest) \cup ToSet(chain)
<1> DEFINE R == Len(rest)
           C == Len(chain)
           new == Inserted(rest, chain, p)
<1>1. /\ R \in Nat /\ C \in Nat /\ DOMAIN rest = 1 .. R /\ DOMAIN chain = 1 .. C
      /\ \A i \in 1 .. R : rest[i] \in T
      /\ \A i \in 1 .. C : chain[i] \in T
  OBVIOUS
<1>2. new = [i \in 1 .. R + C |-> IF i <= p THEN rest[i]
                                  ELSE IF i <= p + C THEN chain[i - p] ELSE rest[i - C]]
  BY DEF Inserted
<1>3. \A i \in 1 .. R : \A j \in 1 .. C : rest[i] # chain[j]
  BY <1>1 DEF ToSet
<1> HIDE DEF R, C, new
<1>4. ASSUME NEW i \in 1 .. R + C
      PROVE  /\ i <= p => i \in 1 .. R /\ new[i] = rest[i]
             /\ ~(i <= p) /\ i <= p + C => i - p \in 1 .. C /\ new[i] = chain[i - p]
             /\ ~(i <= p + C) => i - C \in 1 .. R /\ i - C > p /\ new[i] = rest[i - C]
  <2>1. p \in 0 .. R
    BY DEF R
  <2>2. QED
    BY <1>1, <1>2, <2>1
<1>5. \A i \in 1 .. R + C : new[i] \in T
  BY <1>1, <1>4
<1>6. new \in Seq(T) /\ Len(new) = R + C /\ DOMAIN new = 1 .. R + C
  BY <1>1, <1>2, <1>5
<1>7. ASSUME NEW i \in 1 .. R + C, NEW j \in 1 .. R + C, new[i] = new[j]
      PROVE  i = j
  <2>0. p \in Int /\ i \in Int /\ j \in Int
    BY <1>1
  <2>1. \A k, l \in 1 .. R : rest[k] = rest[l] => k = l
    BY <1>1 DEF IsInjective
  <2>2. \A k, l \in 1 .. C : chain[k] = chain[l] => k = l
    BY <1>1 DEF IsInjective
  <2>7. ~(i <= p) /\ i <= p + C <=> ~(j <= p) /\ j <= p + C
    <3>1. ASSUME NEW k \in 1 .. R + C
          PROVE  IF ~(k <= p) /\ k <= p + C THEN \E l \in 1 .. C : new[k] = chain[l]
                                            ELSE \E l \in 1 .. R : new[k] = rest[l]
      BY <1>4
    <3>2. QED
      BY <1>3, <1>7, <3>1
  <2>3. CASE ~(i <= p) /\ i <= p + C
    <3>1. i - p \in 1 .. C /\ new[i] = chain[i - p]
      BY <1>4, <2>3
    <3>2. ~(j <= p) /\ j <= p + C
      BY <2>7, <2>3
    <3>3. j - p \in 1 .. C /\ new[j] = chain[j - p]
      BY <1>4, <3>2
    <3>4. i - p = j - p
      BY <1>7, <2>2, <3>1, <3>3
    <3>5. QED
      BY <2>0, <3>4
  <2>4. CASE i <= p
    <3>1. i \in 1 .. R /\ new[i] = rest[i]
      BY <1>4, <2>4
    <3>2. j <= p \/ ~(j <= p + C)
      BY <1>1, <2>0, <2>4, <2>7
    <3>3. CASE j <= p
      BY <1>4, <1>7, <2>1, <3>1, <3>3
    <3>4. CASE ~(j <= p + C)
      <4>1. j - C \in 1 .. R /\ new[j] = rest[j - C] /\ j - C > p
        BY <1>4, <3>4
      <4>2. i = j - C
        BY <1>7, <2>1, <3>1, <4>1
      <4>3. QED
        BY <1>1, <2>0, <2>4, <4>1, <4>2
    <3>5. QED
      BY <3>2, <3>3, <3>4
  <2>5. CASE ~(i <= p + C)
    <3>1. i - C \in 1 .. R /\ new[i] = rest[i - C] /\ i - C > p
      BY <1>4, <2>5
    <3>2. j <= p \/ ~(j <= p + C)
      BY <1>1, <2>0, <2>5, <2>7
    <3>3. CASE j <= p
      <4>1. j \in 1 .. R /\ new[j] = rest[j]
        BY <1>4, <3>3
      <4>2. j = i - C
        BY <1>7, <2>1, <3>1, <4>1
      <4>3. QED
        BY <1>1, <2>0, <3>3, <3>1, <4>2
    <3>4. CASE ~(j <= p + C)
      <4>1. j - C \in 1 .. R /\ new[j] = rest[j - C]
        BY <1>4, <3>4
      <4>2. i - C = j - C
        BY <1>7, <2>1, <3>1, <4>1
      <4>3. QED
        BY <1>1, <2>0, <4>2
    <3>5. QED
      BY <3>2, <3>3, <3>4
  <2>6. QED
    BY <2>3, <2>4, <2>5
<1>8. ToSet(new) \subseteq ToSet(rest) \cup ToSet(chain)
  BY <1>1, <1>4, <1>6 DEF ToSet
<1>9. ASSUME NEW i \in 1 .. R
      PROVE  \E j \in 1 .. R + C : new[j] = rest[i]
  <2>0. p \in 0 .. R
    BY DEF R
  <2>1. CASE i <= p
    <3>1. i \in 1 .. R + C
      BY <1>1
    <3>2. QED
      BY <1>4, <2>1, <3>1
  <2>2. CASE ~(i <= p)
    <3>1. i + C \in 1 .. R + C /\ ~(i + C <= p + C) /\ (i + C) - C = i
      BY <1>1, <2>0, <2>2
    <3> DEFINE j == i + C
    <3> HIDE DEF j
    <3>2. new[j] = rest[j - C] /\ j - C = i
      BY <1>4, <3>1 DEF j
    <3>3. QED
      BY <3>1, <3>2 DEF j
  <2>3. QED
    BY <2>1, <2>2
<1>10. ASSUME NEW i \in 1 .. C
       PROVE  \E j \in 1 .. R + C : new[j] = chain[i]
  <2>0. p \in 0 .. R
    BY DEF R
  <2>1. i + p \in 1 .. R + C /\ ~(i + p <= p) /\ i + p <= p + C /\ (i + p) - p = i
    BY <1>1, <2>0
  <2> DEFINE j == i + p
  <2> HIDE DEF j
  <2>2. new[j] = chain[j - p] /\ j - p = i
    BY <1>4, <2>1 DEF j
  <2>3. QED
    BY <2>1, <2>2 DEF j
<1>11. ToSet(rest) \cup ToSet(chain) \subseteq ToSet(new)
  <2>1. ASSUME NEW x \in ToSet(rest)
        PROVE  x \in ToSet(new)
    <3>1. PICK i \in 1 .. R : x = rest[i]
      BY <1>1 DEF ToSet
    <3>2. PICK j \in 1 .. R + C : new[j] = rest[i]
      BY <1>9
    <3>3. QED
      BY <1>6, <3>1, <3>2 DEF ToSet
  <2>2. ASSUME NEW x \in ToSet(chain)
        PROVE  x \in ToSet(new)
    <3>1. PICK i \in 1 .. C : x = chain[i]
      BY <1>1 DEF ToSet
    <3>2. PICK j \in 1 .. R + C : new[j] = chain[i]
      BY <1>10
    <3>3. QED
      BY <1>6, <3>1, <3>2 DEF ToSet
  <2>3. QED
    BY <2>1, <2>2
<1>12. IsInjective(new)
  BY <1>6, <1>7 DEF IsInjective
<1>13. QED
  BY <1>6, <1>8, <1>11, <1>12 DEF new, R, C

\* Behind which item of the list without the chain it goes.
LEMMA RefPos ==
  ASSUME NEW T, NEW items \in Seq(T), NEW ref
  PROVE  ref_pos(items, ref) \in 0 .. Len(items)
<1> DEFINE S == {0} \cup {i \in DOMAIN items : exist_numlist(ref, items[i])}
<1>1. S \subseteq 0 .. Len(items) /\ S \subseteq Int /\ S # {} /\ Len(items) \in Int
  OBVIOUS
<1>2. \A x \in S : x <= Len(items)
  BY <1>1
<1> HIDE DEF S
<1>3. Max(S) \in S
  BY <1>1, <1>2, MaxProps
<1>4. QED
  BY <1>1, <1>3 DEF ref_pos, S

\* reorder_numlist: the list is left alone, or without its chain and with the chain put in.
LEMMA Reorders ==
  ASSUME NEW T, NEW list \in ListOf(T), NEW fragment \in ListOf(T), NEW ref, Unique(list)
  PROVE  LET new == reorder_numlist(list, fragment, ref)
             chain == Chain(list, fragment)
             rest == except_numlist(list, chain)
             p == ref_pos(rest.item, ref)
         IN  /\ new \in ListOf(T) /\ new.multiple = list.multiple /\ Unique(new)
             /\ Len(new.item) = Len(list.item) /\ ToSet(new.item) = ToSet(list.item)
             /\ reorder_fails(list, fragment, ref) => new = list
             /\ ~reorder_fails(list, fragment, ref) =>
                  /\ new.item = Inserted(rest.item, chain.item, p)
                  /\ p \in 0 .. Len(rest.item)
<1> DEFINE new == reorder_numlist(list, fragment, ref)
           chain == Chain(list, fragment)
           rest == except_numlist(list, chain)
           p == ref_pos(rest.item, ref)
           all == union_numlist(rest, chain)
           size == Len(chain.item)
           items == [i \in DOMAIN all.item |->
                       IF i <= p THEN all.item[i]
                       ELSE IF i <= p + size THEN chain.item[i - p]
                       ELSE all.item[i - size]]
<1>1. new = IF reorder_fails(list, fragment, ref) THEN list ELSE [all EXCEPT !.item = items]
  BY DEF reorder_numlist
<1>2. list.item \in Seq(T) /\ list.multiple \in BOOLEAN
  BY DEF ListOf
<1>3. /\ chain \in ListOf(T) /\ IsInjective(chain.item) /\ chain.item \in Seq(T)
      /\ ToSet(chain.item) = ToSet(fragment.item) \cap ToSet(list.item)
  BY Chains DEF ListOf
<1> HIDE DEF chain
<1>4. /\ Thinned(T, list, rest)
      /\ ToSet(rest.item) = ToSet(list.item) \ ToSet(chain.item)
  <2>1. chain \in ListOf(T)
    BY <1>3
  <2>2. QED
    BY ONLY <2>1, list \in ListOf(T), Excepts
<1> HIDE DEF rest
<1>5. rest \in ListOf(T) /\ rest.multiple = list.multiple /\ rest.item \in Seq(T) /\ Unique(rest)
  BY <1>4 DEF Thinned, ListOf
<1>6. p \in 0 .. Len(rest.item)
  BY <1>5, RefPos
<1> HIDE DEF p
<1>7. United(T, rest, chain.item, size, all)
  BY <1>3, <1>5, Unites DEF union_numlist
<1> HIDE DEF all
<1>8. ASSUME ~reorder_fails(list, fragment, ref)
      PROVE  /\ new \in ListOf(T) /\ new.multiple = list.multiple /\ Unique(new)
             /\ Len(new.item) = Len(list.item) /\ ToSet(new.item) = ToSet(list.item)
             /\ new.item = Inserted(rest.item, chain.item, p)
  <2>1. ~list.multiple /\ IsInjective(list.item) /\ IsInjective(rest.item)
    BY <1>5, <1>8 DEF reorder_fails, Unique
  <2>2. ToSet(chain.item) \cap ToSet(rest.item) = {} /\ ToSet(rest.item) \cap ToSet(chain.item) = {}
    BY <1>4
  <2>3. /\ all \in ListOf(T) /\ all.multiple = list.multiple /\ all.item \in Seq(T)
        /\ Len(all.item) = Len(rest.item) + size
        /\ \A i \in 1 .. Len(rest.item) : all.item[i] = rest.item[i]
    BY <1>3, <1>5, <1>7, <2>2 DEF United, ListOf
  <2>4. /\ Len(rest.item) \in Nat /\ size \in Nat
        /\ DOMAIN all.item = 1 .. Len(rest.item) + Len(chain.item)
    <3>1. Len(rest.item) \in Nat /\ Len(chain.item) \in Nat
      BY <1>3, <1>5
    <3>2. DOMAIN all.item = 1 .. Len(all.item)
      <4>1. all.item \in Seq(T)
        BY <2>3
      <4>2. QED
        BY <4>1
    <3>3. QED
      BY <2>3, <3>1, <3>2
  <2>5. items = Inserted(rest.item, chain.item, p)
    <3>1. ASSUME NEW i \in 1 .. Len(rest.item) + Len(chain.item)
          PROVE  /\ i <= p => all.item[i] = rest.item[i]
                 /\ ~(i <= p + size) => all.item[i - size] = rest.item[i - size]
      <4> DEFINE R == Len(rest.item)
      <4>0. R \in Nat /\ size \in Nat /\ p \in 0 .. R /\ i \in 1 .. R + size
        BY <1>6, <2>4
      <4> HIDE DEF R, size
      <4>1. i <= p => i \in 1 .. R
        BY <4>0
      <4>2. ~(i <= p + size) => i - size \in 1 .. R
        BY <4>0
      <4> USE DEF R
      <4>3. QED
        BY <2>3, <4>1, <4>2
    <3>2. \A i \in 1 .. Len(rest.item) + Len(chain.item) : i <= p => i <= p + size
      BY <1>6, <2>4
    <3>3. items = [i \in 1 .. Len(rest.item) + Len(chain.item) |->
                     IF i <= p THEN rest.item[i]
                     ELSE IF i <= p + size THEN chain.item[i - p]
                     ELSE rest.item[i - size]]
      BY <2>4, <3>1, <3>2
    <3>4. QED
      BY <3>3 DEF Inserted
  <2>6. /\ items \in Seq(T) /\ Len(items) = Len(rest.item) + Len(chain.item)
        /\ IsInjective(items) /\ ToSet(items) = ToSet(rest.item) \cup ToSet(chain.item)
    <3> DEFINE r == rest.item
               c == chain.item
    <3>1. /\ r \in Seq(T) /\ c \in Seq(T) /\ p \in 0 .. Len(r) /\ IsInjective(r) /\ IsInjective(c)
          /\ ToSet(r) \cap ToSet(c) = {}
      BY <1>3, <1>5, <1>6, <2>1, <2>2
    <3> HIDE DEF r, c, items
    <3>2. /\ Inserted(r, c, p) \in Seq(T) /\ Len(Inserted(r, c, p)) = Len(r) + Len(c)
          /\ IsInjective(Inserted(r, c, p)) /\ ToSet(Inserted(r, c, p)) = ToSet(r) \cup ToSet(c)
      BY <3>1, InsertedProps
    <3>3. QED
      BY <2>5, <3>2 DEF r, c
  <2> HIDE DEF items
  <2>7. new = [item |-> items, multiple |-> list.multiple]
    <3>1. all = [item |-> all.item, multiple |-> all.multiple]
      BY <2>3 DEF ListOf
    <3>2. QED
      BY <1>1, <1>8, <2>3, <3>1
  <2>8. ToSet(items) = ToSet(list.item)
    BY <1>3, <1>4, <2>6
  <2>9. Len(items) = Len(list.item)
    <3>1. Len(items) <= Len(list.item) /\ Len(list.item) <= Len(items)
      BY <1>2, <2>1, <2>6, <2>8, SameLength
    <3>2. Len(items) \in Nat /\ Len(list.item) \in Nat
      <4>1. items \in Seq(T)
        BY <2>6
      <4>2. QED
        BY <1>2, <4>1
    <3>3. QED
      BY <3>1, <3>2
  <2> HIDE DEF new
  <2>10. new \in ListOf(T) /\ new.item = items /\ new.multiple = list.multiple
    BY <1>2, <2>6, <2>7 DEF ListOf
  <2>11. Unique(new)
    BY <2>6, <2>10 DEF Unique
  <2>12. QED
    BY <2>5, <2>8, <2>9, <2>10, <2>11
<1>9. reorder_fails(list, fragment, ref) => new = list
  BY <1>1
<1> HIDE DEF new
<1>10. QED
  BY <1>6, <1>8, <1>9 DEF new, chain, rest, p

-----------------------------------------------------------------------------
(* Link lists                                                              *)

LinksOf(T) == [LinkIds -> Made(T, FALSE)]
Links == LinksOf(FewStrings)

\* What is read of a text.
ReadWords(words) ==
  [i \in DOMAIN words |-> IF \E j \in 1 .. i : Broken(words[j]) THEN Blank ELSE words[i]]

\* The lists among what is read hold members of T.
Readable(T, segments) ==
  /\ Len(segments) \in Nat /\ DOMAIN segments = 1 .. Len(segments)
  /\ \A m \in 1 .. Len(segments) : segments[m][1] \in LinkIds => segments[m][2] \in Seq(T)

\* They do, if those of the text do.
LEMMA ReadableWords ==
  ASSUME NEW T, NEW I, NEW words \in Seq(I \X Seq(T))
  PROVE  Readable(T, ReadWords(words)) /\ Len(ReadWords(words)) = Len(words)
<1> DEFINE N == Len(words)
           read == ReadWords(words)
<1>1. N \in Nat /\ DOMAIN words = 1 .. N /\ \A m \in 1 .. N : words[m][2] \in Seq(T)
  OBVIOUS
<1>2. Blank[1] \notin LinkIds
  BY IpAssumption DEF Blank, LinkIds
<1>3. \A m \in 1 .. N : read[m] = Blank \/ read[m] = words[m]
  BY <1>1 DEF ReadWords
<1>4. DOMAIN read = 1 .. N /\ Len(read) = N
  BY <1>1 DEF ReadWords
<1> HIDE DEF read, N
<1>5. \A m \in 1 .. N : read[m][1] \in LinkIds => read[m][2] \in Seq(T)
  BY <1>1, <1>2, <1>3
<1>6. QED
  BY <1>1, <1>4, <1>5 DEF Readable, read, N

\* A segment of the text of a link list.
PutSegment(link, s) ==
  IF s[1] \in LinkIds THEN [link EXCEPT ![s[1]] = create_iplist(s[2])] ELSE link

LinkStep(T, segments) == [p \in LinksOf(T) \X (1 .. Len(segments)) |-> PutSegment(p[1], segments[p[2]])]

LinkFold(segments, f) ==
  f = [S \in SUBSET DOMAIN segments |->
         IF S = {} THEN [id \in LinkIds |-> List(<<>>, FALSE)]
         ELSE PutSegment(f[S \ {Max(S)}], segments[Max(S)])]

\* A segment puts a list into the array or leaves it alone.
LEMMA PutsSegment ==
  ASSUME NEW T, NEW segments, Readable(T, segments),
         NEW a \in LinksOf(T), NEW m \in 1 .. Len(segments)
  PROVE  /\ PutSegment(a, segments[m]) \in LinksOf(T)
         /\ LinkStep(T, segments)[<<a, m>>] = PutSegment(a, segments[m])
<1> DEFINE s == segments[m]
           tokens == s[2]
           new == create_iplist(tokens)
<1>1. s[1] \in LinkIds => tokens \in Seq(T)
  BY DEF Readable
<1> HIDE DEF tokens
<1>2. s[1] \in LinkIds => new \in Made(T, FALSE)
  <2> SUFFICES ASSUME s[1] \in LinkIds
               PROVE  new \in Made(T, FALSE)
    OBVIOUS
  <2> HIDE DEF s
  <2> DEFINE no == FALSE
  <2>1. no \in BOOLEAN
    OBVIOUS
  <2> HIDE DEF no
  <2>2. /\ create_tokens(tokens, no, no) \in ListOf(T)
        /\ create_tokens(tokens, no, no).multiple = no /\ Unique(create_tokens(tokens, no, no))
    BY <1>1, <2>1, CreatesTokens
  <2>3. QED
    BY <2>2 DEF Made, create_iplist, no
<1> HIDE DEF new
<1>3. PutSegment(a, s) = IF s[1] \in LinkIds THEN [a EXCEPT ![s[1]] = new] ELSE a
  BY DEF PutSegment, new, tokens
<1>4. PutSegment(a, s) \in LinksOf(T)
  BY <1>2, <1>3 DEF LinksOf
<1>5. LinkStep(T, segments)[<<a, m>>] = PutSegment(a, s)
  BY DEF LinkStep
<1>6. QED
  BY <1>4, <1>5

\* create_linkiplist runs through the segments.
LEMMA LinksRun ==
  ASSUME NEW T, NEW words, Readable(T, ReadWords(words))
  PROVE  LET segments == ReadWords(words)
         IN  \E it : /\ LeftRun(LinksOf(T), Len(segments), [id \in LinkIds |-> List(<<>>, FALSE)],
                               LinkStep(T, segments), it)
                     /\ create_linkiplist(words) = it[1 .. Len(segments)]
<1> DEFINE segments == ReadWords(words)
           N == Len(segments)
           A == LinksOf(T)
           base == [id \in LinkIds |-> List(<<>>, FALSE)]
           step == LinkStep(T, segments)
           it == CHOOSE f : LinkFold(segments, f)
<1>1. N \in Nat /\ DOMAIN segments = 1 .. N
  BY DEF Readable
<1>2. create_linkiplist(words) = it[DOMAIN segments]
  BY DEF create_linkiplist, FoldLeft, MapThenFoldSet, LinkFold, PutSegment, ReadWords
<1> HIDE DEF segments
<1>3. base \in A
  BY EmptyList DEF LinksOf, Made
<1>4. ASSUME NEW a \in A, NEW m \in 1 .. N
      PROVE  PutSegment(a, segments[m]) \in A /\ step[<<a, m>>] = PutSegment(a, segments[m])
  BY PutsSegment DEF segments
<1>5. Steps(A, N, base, step)
  <2>1. step \in [A \X (1 .. N) -> A]
    BY <1>1, <1>4 DEF LinkStep
  <2>2. QED
    BY <1>1, <1>3, <2>1 DEF Steps
<1> HIDE DEF A, step, base, it
<1>6. PICK f : f = [S \in SUBSET (1 .. N) |-> f[S]] /\ LeftFold(A, N, base, step, f)
  BY <1>5, LeftFolds
<1>7. LinkFold(segments, it)
  <2>1. ASSUME NEW S \in SUBSET (1 .. N)
        PROVE  f[S] = IF S = {} THEN base ELSE PutSegment(f[S \ {Max(S)}], segments[Max(S)])
    <3>1. CASE S = {}
      BY <1>6, <3>1 DEF LeftFold
    <3>2. CASE S # {}
      <4> DEFINE k == Max(S)
                 a == f[S \ {k}]
      <4>1. k \in 1 .. N /\ a \in A /\ f[S] = step[<<a, k>>]
        BY <1>6, <3>2 DEF LeftFold
      <4> HIDE DEF k, a
      <4>2. f[S] = PutSegment(a, segments[k])
        BY <1>4, <4>1
      <4>3. QED
        BY <3>2, <4>2 DEF k, a
    <3>3. QED
      BY <3>1, <3>2
  <2>2. LinkFold(segments, f)
    BY <1>1, <1>6, <2>1 DEF LinkFold, base
  <2>3. QED
    BY <2>2 DEF it
<1>8. LeftRun(A, N, base, step, it)
  <2>1. ASSUME NEW S \in SUBSET (1 .. N)
        PROVE  IF S = {} THEN it[S] = base
                         ELSE Max(S) \in 1 .. N /\ it[S \ {Max(S)}] \in A =>
                                it[S] = step[<<it[S \ {Max(S)}], Max(S)>>]
    <3> DEFINE k == Max(S)
               a == it[S \ {k}]
    <3>1. it[S] = IF S = {} THEN base ELSE PutSegment(a, segments[k])
      BY <1>1, <1>7 DEF LinkFold, base
    <3> HIDE DEF k, a
    <3>2. S # {} /\ k \in 1 .. N /\ a \in A => it[S] = step[<<a, k>>]
      BY <1>4, <3>1
    <3>3. QED
      BY <3>1, <3>2 DEF k, a
  <2>2. QED
    BY <1>5, <2>1, LeftRuns
<1>9. QED
  BY <1>1, <1>2, <1>8 DEF A, base, step, segments

\* create_linkiplist makes lists of links, whatever words it reads.
LEMMA CreatesLinks ==
  ASSUME NEW T, NEW I, NEW words \in Seq(I \X Seq(T))
  PROVE  create_linkiplist(words) \in LinksOf(T)
<1> DEFINE segments == ReadWords(words)
           N == Len(segments)
           A == LinksOf(T)
           base == [id \in LinkIds |-> List(<<>>, FALSE)]
           step == LinkStep(T, segments)
<1>0. Readable(T, segments)
  BY ReadableWords
<1>1. N \in Nat /\ base \in A
  <2>0. N \in Nat
    BY <1>0 DEF Readable
  <2>1. List(<<>>, FALSE) \in Made(T, FALSE)
    BY EmptyList DEF Made
  <2>2. base \in LinksOf(T)
    BY <2>1 DEF LinksOf
  <2>3. QED
    BY <2>0, <2>2
<1>2. PICK it : LeftRun(A, N, base, step, it) /\ create_linkiplist(words) = it[1 .. N]
  BY <1>0, LinksRun
<1> HIDE DEF A, N, base, step
<1>3. it[1 .. N] \in A
  BY <1>1, <1>2, RunEnds
<1>4. QED
  BY <1>2, <1>3 DEF A

\* insert_linkiplist, remove_linkiplist and clear_linkiplist.
LEMMA ChangesLinks ==
  ASSUME NEW link \in Links, NEW id \in LinkIds, NEW ip \in FewStrings
  PROVE  /\ insert_linkiplist(link, id, ip) \in Links
         /\ remove_linkiplist(link, id, ip) \in Links
         /\ clear_linkiplist(link, id) \in Links
<1> DEFINE old == link[id]
<1>1. old \in ListOf(FewStrings) /\ old.multiple = FALSE /\ Unique(old)
  BY DEF Links, LinksOf, Made
<1> HIDE DEF old
<1>2. insert_iplist(old, ip) \in Made(FewStrings, FALSE)
  BY <1>1, Inserts DEF Made
<1>3. remove_iplist(old, ip) \in Made(FewStrings, FALSE)
  BY <1>1, Removes DEF Made, Thinned
<1>4. List(<<>>, FALSE) \in Made(FewStrings, FALSE)
  BY EmptyList DEF Made
<1>5. /\ insert_linkiplist(link, id, ip) = [link EXCEPT ![id] = insert_iplist(old, ip)]
      /\ remove_linkiplist(link, id, ip) = [link EXCEPT ![id] = remove_iplist(old, ip)]
      /\ clear_linkiplist(link, id) = [link EXCEPT ![id] = List(<<>>, FALSE)]
  BY DEF insert_linkiplist, remove_linkiplist, clear_linkiplist, old
<1>6. \A new \in Made(FewStrings, FALSE) : [link EXCEPT ![id] = new] \in Links
  BY DEF Links, LinksOf
<1>7. QED
  BY <1>2, <1>3, <1>4, <1>5, <1>6

-----------------------------------------------------------------------------
(* Binary search                                                           *)

\* One look of the search at the items from low to high; cmp are the signs of the
\* comparisons, f what it finds in fewer of them.
Look(cmp, f, low, high) ==
  LET mid == (high + low) \div 2
  IN  IF low < high
        THEN IF cmp[mid] = 0 THEN mid
             ELSE IF cmp[mid] < 0 THEN f[<<low, mid - 1>>] ELSE f[<<mid + 1, high>>]
        ELSE IF low = high /\ cmp[low] > 0 THEN low + 1 ELSE low

Ranges(n) == (0 .. n) \X (-1 .. n - 1)
RangesTo(n, m) == {r \in Ranges(n) : r[2] - r[1] + 1 <= m}

Searches(n, cmp, f) == f = [r \in Ranges(n) |-> Look(cmp, f, r[1], r[2])]

\* The halves are smaller.
LEMMA Halves ==
  ASSUME NEW n \in Nat, NEW low \in 0 .. n, NEW high \in -1 .. n - 1, low < high
  PROVE  LET mid == (high + low) \div 2
         IN  /\ mid \in low .. high - 1 /\ mid \in 0 .. n - 1
             /\ <<low, mid - 1>> \in Ranges(n) /\ <<mid + 1, high>> \in Ranges(n)
             /\ (mid - 1) - low < high - low /\ high - (mid + 1) < high - low
<1> DEFINE mid == (high + low) \div 2
<1>1. low \in Nat /\ high \in Nat
  OBVIOUS
<1>2. mid \in Int /\ low <= mid /\ mid < high
  BY <1>1
<1> HIDE DEF mid
<1>3. mid - 1 \in -1 .. n - 1 /\ mid + 1 \in 0 .. n /\ mid \in 0 .. n - 1
  BY <1>1, <1>2
<1>4. <<low, mid - 1>> \in Ranges(n) /\ <<mid + 1, high>> \in Ranges(n)
  BY <1>3 DEF Ranges
<1>5. QED
  BY <1>1, <1>2, <1>3, <1>4 DEF mid

\* The recursive function of a binary search exists.
LEMMA SearchExists ==
  ASSUME NEW n \in Nat, NEW cmp
  PROVE  \E f : Searches(n, cmp, f)
<1> DEFINE Looks(f, m) == \A r \in RangesTo(n, m) : f[r] = Look(cmp, f, r[1], r[2])
           G == {m \in 0 .. n : \E f : Looks(f, m)}
<1>1. 0 \in G
  <2> DEFINE f == [r \in RangesTo(n, 0) |-> r[1]]
  <2>1. ASSUME NEW r \in RangesTo(n, 0)
        PROVE  f[r] = Look(cmp, f, r[1], r[2])
    <3>1. r[1] \in Int /\ r[2] \in Int /\ ~(r[1] < r[2]) /\ r[1] # r[2]
      BY DEF RangesTo, Ranges
    <3>2. QED
      BY <3>1 DEF Look
  <2> HIDE DEF f
  <2>2. \E h : Looks(h, 0)
    BY <2>1
  <2>3. QED
    BY <2>2
<1>2. ASSUME NEW m \in 1 .. n, m - 1 \in G
      PROVE  m \in G
  <2>1. PICK f : Looks(f, m - 1)
    BY <1>2
  <2> DEFINE g == [r \in RangesTo(n, m) |-> Look(cmp, f, r[1], r[2])]
  <2>2. \A r \in RangesTo(n, m - 1) : r \in RangesTo(n, m)
    BY DEF RangesTo, Ranges
  <2>3. \A r \in RangesTo(n, m - 1) : g[r] = f[r]
    BY <2>1, <2>2
  <2>4. ASSUME NEW r \in RangesTo(n, m)
        PROVE  g[r] = Look(cmp, g, r[1], r[2])
    <3> DEFINE low == r[1]
               high == r[2]
               mid == (high + low) \div 2
    <3>0. g[r] = Look(cmp, f, low, high)
      OBVIOUS
    <3> HIDE DEF g
    <3>1. low \in 0 .. n /\ high \in -1 .. n - 1 /\ high - low + 1 <= m
      BY DEF RangesTo, Ranges
    <3> HIDE DEF low, high
    <3>2. CASE low < high
      <4>1. /\ <<low, mid - 1>> \in Ranges(n) /\ <<mid + 1, high>> \in Ranges(n)
            /\ (mid - 1) - low < high - low /\ high - (mid + 1) < high - low
            /\ mid \in Int
        BY <3>1, <3>2, Halves
      <4> HIDE DEF mid
      <4>2. <<low, mid - 1>> \in RangesTo(n, m - 1) /\ <<mid + 1, high>> \in RangesTo(n, m - 1)
        BY <3>1, <4>1 DEF RangesTo
      <4>3. g[<<low, mid - 1>>] = f[<<low, mid - 1>>] /\ g[<<mid + 1, high>>] = f[<<mid + 1, high>>]
        BY <2>3, <4>2
      <4>4. QED
        BY <3>0, <4>3 DEF Look, mid, low, high
    <3>3. CASE ~(low < high)
      BY <3>0, <3>3 DEF Look, low, high
    <3>4. QED
      BY <3>2, <3>3
  <2> HIDE DEF g
  <2>5. \E h : Looks(h, m)
    BY <2>4
  <2>6. QED
    BY <2>5
<1> HIDE DEF G
<1>3. \A m \in 0 .. n : m \in G
  BY <1>1, <1>2, UpTo
<1>4. n \in G
  BY <1>3
<1>5. PICK f : Looks(f, n)
  BY <1>4 DEF G
<1>6. RangesTo(n, n) = Ranges(n)
  BY DEF RangesTo, Ranges
<1> DEFINE h == [r \in Ranges(n) |-> f[r]]
<1>7. ASSUME NEW r \in Ranges(n)
      PROVE  f[r] = Look(cmp, h, r[1], r[2])
  <2> DEFINE low == r[1]
             high == r[2]
             mid == (high + low) \div 2
  <2>0. f[r] = Look(cmp, f, low, high) /\ \A q \in Ranges(n) : h[q] = f[q]
    BY <1>5, <1>6
  <2> HIDE DEF h
  <2>1. low \in 0 .. n /\ high \in -1 .. n - 1
    BY DEF Ranges
  <2> HIDE DEF low, high
  <2>2. CASE low < high
    <3>1. <<low, mid - 1>> \in Ranges(n) /\ <<mid + 1, high>> \in Ranges(n)
      BY <2>1, <2>2, Halves
    <3> HIDE DEF mid
    <3>2. h[<<low, mid - 1>>] = f[<<low, mid - 1>>] /\ h[<<mid + 1, high>>] = f[<<mid + 1, high>>]
      BY <2>0, <3>1
    <3>3. QED
      BY <2>0, <3>2 DEF Look, mid, low, high
  <2>3. CASE ~(low < high)
    BY <2>0, <2>3 DEF Look, low, high
  <2>4. QED
    BY <2>2, <2>3
<1>8. h = [r \in Ranges(n) |-> Look(cmp, h, r[1], r[2])]
  BY <1>7
<1> HIDE DEF h
<1>9. QED
  BY <1>8 DEF Searches

\* What is sought lies between low and high, counted from 0.
Between(n, cmp, low, high) ==
  /\ low <= high + 1
  /\ \A i \in 0 .. low - 1 : cmp[i] > 0
  /\ \A i \in high + 1 .. n - 1 : cmp[i] < 0

\* p is its place.
PlaceIs(n, cmp, p) ==
  /\ p \in 0 .. n
  /\ \A i \in 0 .. p - 1 : cmp[i] > 0
  /\ p < n => cmp[p] <= 0
  /\ \A i \in p + 1 .. n - 1 : cmp[i] < 0

\* It finds the place.
LEMMA SearchFinds ==
  ASSUME NEW n \in Nat, NEW cmp \in [0 .. n - 1 -> Int],
         \A i, j \in 0 .. n - 1 : i < j => cmp[i] > cmp[j],
         NEW f, Searches(n, cmp, f)
  PROVE  PlaceIs(n, cmp, f[<<0, n - 1>>])
<1> DEFINE G == {m \in 0 .. n : \A r \in RangesTo(n, m) :
                   Between(n, cmp, r[1], r[2]) => PlaceIs(n, cmp, f[r])}
<1>1. \A r \in Ranges(n) : f[r] = Look(cmp, f, r[1], r[2])
  BY DEF Searches
<1>2. ASSUME NEW r \in Ranges(n), ~(r[1] < r[2]), Between(n, cmp, r[1], r[2])
      PROVE  PlaceIs(n, cmp, f[r])
  <2> DEFINE low == r[1]
             high == r[2]
  <2>1. low \in 0 .. n /\ high \in -1 .. n - 1
    BY DEF Ranges
  <2>2. f[r] = IF low = high /\ cmp[low] > 0 THEN low + 1 ELSE low
    BY <1>1, <1>2 DEF Look
  <2>3. /\ low <= high + 1 /\ ~(low < high)
        /\ \A i \in 0 .. low - 1 : cmp[i] > 0
        /\ \A i \in high + 1 .. n - 1 : cmp[i] < 0
    BY <1>2 DEF Between
  <2> HIDE DEF low, high
  <2>4. CASE low = high /\ cmp[low] > 0
    <3>1. f[r] = low + 1
      BY <2>2, <2>4
    <3>2. PlaceIs(n, cmp, low + 1)
      BY <2>1, <2>3, <2>4 DEF PlaceIs
    <3>3. QED
      BY <3>1, <3>2
  <2>5. CASE low = high /\ ~(cmp[low] > 0)
    <3>1. f[r] = low
      BY <2>2, <2>5
    <3>2. PlaceIs(n, cmp, low)
      BY <2>1, <2>3, <2>5 DEF PlaceIs
    <3>3. QED
      BY <3>1, <3>2
  <2>6. CASE low # high
    <3>1. f[r] = low /\ low = high + 1
      BY <2>1, <2>2, <2>3, <2>6
    <3>2. PlaceIs(n, cmp, low)
      BY <2>1, <2>3, <3>1 DEF PlaceIs
    <3>3. QED
      BY <3>1, <3>2
  <2>7. QED
    BY <2>4, <2>5, <2>6
<1>3. 0 \in G
  <2>1. ASSUME NEW r \in RangesTo(n, 0), Between(n, cmp, r[1], r[2])
        PROVE  PlaceIs(n, cmp, f[r])
    <3>1. r \in Ranges(n) /\ ~(r[1] < r[2])
      BY DEF RangesTo, Ranges
    <3>2. QED
      BY <1>2, <2>1, <3>1
  <2>2. QED
    BY <2>1
<1>4. ASSUME NEW m \in 1 .. n, m - 1 \in G
      PROVE  m \in G
  <2>1. ASSUME NEW r \in RangesTo(n, m), Between(n, cmp, r[1], r[2])
        PROVE  PlaceIs(n, cmp, f[r])
    <3> DEFINE low == r[1]
               high == r[2]
               mid == (high + low) \div 2
    <3>1. r \in Ranges(n) /\ low \in 0 .. n /\ high \in -1 .. n - 1 /\ high - low + 1 <= m
      BY DEF RangesTo, Ranges
    <3>2. CASE ~(low < high)
      BY <1>2, <2>1, <3>1, <3>2
    <3>3. CASE low < high
      <4>1. f[r] = IF cmp[mid] = 0 THEN mid
                   ELSE IF cmp[mid] < 0 THEN f[<<low, mid - 1>>] ELSE f[<<mid + 1, high>>]
        BY <1>1, <3>1, <3>3 DEF Look
      <4>2. /\ low <= high + 1
            /\ \A i \in 0 .. low - 1 : cmp[i] > 0
            /\ \A i \in high + 1 .. n - 1 : cmp[i] < 0
        BY <2>1 DEF Between
      <4> HIDE DEF low, high
      <4>3. /\ mid \in low .. high - 1 /\ mid \in 0 .. n - 1
            /\ <<low, mid - 1>> \in Ranges(n) /\ <<mid + 1, high>> \in Ranges(n)
            /\ (mid - 1) - low < high - low /\ high - (mid + 1) < high - low
        BY <3>1, <3>3, Halves
      <4> HIDE DEF mid
      <4>4. <<low, mid - 1>> \in RangesTo(n, m - 1) /\ <<mid + 1, high>> \in RangesTo(n, m - 1)
        BY <3>1, <4>3, SMTT(60) DEF RangesTo
      <4>5. cmp[mid] \in Int
        BY <4>3
      <4>6. \A i \in 0 .. mid - 1 : i \in 0 .. n - 1 /\ cmp[i] > cmp[mid] /\ cmp[i] \in Int
        BY <4>3
      <4>7. \A i \in mid + 1 .. n - 1 : i \in 0 .. n - 1 /\ cmp[mid] > cmp[i] /\ cmp[i] \in Int
        BY <4>3
      <4>8. CASE cmp[mid] = 0
        <5>1. f[r] = mid
          BY <4>1, <4>8
        <5>2. PlaceIs(n, cmp, mid)
          BY <4>3, <4>6, <4>7, <4>8 DEF PlaceIs
        <5>3. QED
          BY <5>1, <5>2
      <4>9. CASE cmp[mid] < 0
        <5>1. f[r] = f[<<low, mid - 1>>]
          BY <4>1, <4>5, <4>9
        <5>2. \A i \in mid .. n - 1 : i = mid \/ i \in mid + 1 .. n - 1
          BY <4>3
        <5>3. \A i \in (mid - 1) + 1 .. n - 1 : cmp[i] < 0
          BY <4>3, <4>5, <4>7, <4>9, <5>2
        <5>4. Between(n, cmp, low, mid - 1)
          BY <3>1, <4>2, <4>3, <5>3 DEF Between
        <5> DEFINE q == <<low, mid - 1>>
        <5>5. q[1] = low /\ q[2] = mid - 1 /\ q \in RangesTo(n, m - 1)
          BY <4>4
        <5> HIDE DEF q
        <5>6. PlaceIs(n, cmp, f[q])
          BY <1>4, <5>4, <5>5
        <5>7. QED
          BY <5>1, <5>6 DEF q
      <4>10. CASE cmp[mid] > 0
        <5>1. f[r] = f[<<mid + 1, high>>]
          BY <4>1, <4>5, <4>10
        <5>2. \A i \in 0 .. mid : i = mid \/ i \in 0 .. mid - 1
          BY <4>3
        <5>3. \A i \in 0 .. (mid + 1) - 1 : cmp[i] > 0
          BY <4>3, <4>5, <4>6, <4>10, <5>2
        <5>4. Between(n, cmp, mid + 1, high)
          BY <3>1, <4>2, <4>3, <5>3 DEF Between
        <5> DEFINE q == <<mid + 1, high>>
        <5>5. q[1] = mid + 1 /\ q[2] = high /\ q \in RangesTo(n, m - 1)
          BY <4>4
        <5> HIDE DEF q
        <5>6. PlaceIs(n, cmp, f[q])
          BY <1>4, <5>4, <5>5
        <5>7. QED
          BY <5>1, <5>6 DEF q
      <4>11. QED
        BY <4>5, <4>8, <4>9, <4>10
    <3>4. QED
      BY <3>2, <3>3
  <2>2. m \in 0 .. n
    OBVIOUS
  <2>3. QED
    BY <2>1, <2>2
<1> HIDE DEF G
<1>5. \A m \in 0 .. n : m \in G
  BY <1>3, <1>4, UpTo
<1>6. n \in G
  BY <1>5
<1> DEFINE q == <<0, n - 1>>
<1>7. q \in RangesTo(n, n) /\ q[1] = 0 /\ q[2] = n - 1
  BY DEF RangesTo, Ranges
<1>8. Between(n, cmp, 0, n - 1)
  BY DEF Between
<1> HIDE DEF q
<1>9. PlaceIs(n, cmp, f[q])
  BY <1>6, <1>7, <1>8 DEF G
<1>10. QED
  BY <1>9 DEF q

-----------------------------------------------------------------------------
(* Tag lists                                                               *)

RankAt(items, i) == TagRank[items[i][1]]

TagLists == {list \in [item : Seq(Items), sorted : BOOLEAN] :
               OneItemEach(list.item) /\ (list.sorted => InTagOrder(list.item))}

\* bsearch_pos, written out.
TagSearches(items, tag, pos) ==
  LET n == Len(items)
  IN  pos = [range \in (0 .. n) \X (-1 .. n - 1) |->
        LET low  == range[1]
            high == range[2]
            mid  == (high + low) \div 2
        IN  IF low < high
              THEN IF Compare(tag, items, mid) = 0 THEN mid
                   ELSE IF Compare(tag, items, mid) < 0 THEN pos[<<low, mid - 1>>]
                   ELSE pos[<<mid + 1, high>>]
              ELSE IF low = high /\ Compare(tag, items, low) > 0 THEN low + 1 ELSE low]

\* What an item and its tag are.
LEMMA ItemsAre ==
  ASSUME NEW items \in Seq(Items)
  PROVE  /\ Len(items) \in Nat /\ DOMAIN items = 1 .. Len(items)
         /\ \A i \in 1 .. Len(items) : /\ items[i] \in Items /\ items[i][1] \in Tags
                                       /\ RankAt(items, i) \in Nat
<1>1. Len(items) \in Nat /\ DOMAIN items = 1 .. Len(items) /\ \A i \in 1 .. Len(items) : items[i] \in Items
  OBVIOUS
<1>2. QED
  BY <1>1, TagAssumption DEF Items, RankAt

\* In the order of the tags, bsearch_pos finds the place of a tag.
LEMMA FindsPlace ==
  ASSUME NEW items \in Seq(Items), NEW tag \in Tags, InTagOrder(items)
  PROVE  LET p == bsearch_pos(items, tag)
         IN  /\ p \in 0 .. Len(items)
             /\ \A i \in 1 .. p : RankAt(items, i) < TagRank[tag]
             /\ p < Len(items) => TagRank[tag] <= RankAt(items, p + 1)
             /\ \A i \in p + 2 .. Len(items) : TagRank[tag] < RankAt(items, i)
<1> DEFINE n == Len(items)
           cmp == [i \in 0 .. n - 1 |-> Compare(tag, items, i)]
           pos == CHOOSE f : TagSearches(items, tag, f)
           p == bsearch_pos(items, tag)
<1>1. n \in Nat /\ TagRank[tag] \in Nat /\ \A i \in 1 .. n : RankAt(items, i) \in Nat
  BY ItemsAre, TagAssumption
<1>2. p = pos[<<0, n - 1>>]
  BY DEF bsearch_pos, TagSearches
<1>3. ASSUME NEW f
      PROVE  Searches(n, cmp, f) <=> TagSearches(items, tag, f)
  <2> DEFINE Tag(r) ==
        LET low  == r[1]
            high == r[2]
            mid  == (high + low) \div 2
        IN  IF low < high
              THEN IF Compare(tag, items, mid) = 0 THEN mid
                   ELSE IF Compare(tag, items, mid) < 0 THEN f[<<low, mid - 1>>]
                   ELSE f[<<mid + 1, high>>]
              ELSE IF low = high /\ Compare(tag, items, low) > 0 THEN low + 1 ELSE low
  <2>1. ASSUME NEW r \in Ranges(n)
        PROVE  Look(cmp, f, r[1], r[2]) = Tag(r)
    <3> DEFINE low == r[1]
               high == r[2]
               mid == (high + low) \div 2
    <3>1. low \in 0 .. n /\ high \in -1 .. n - 1
      BY DEF Ranges
    <3>2. low < high => mid \in 0 .. n - 1
      BY <1>1, <3>1, Halves
    <3>3. low < high => cmp[mid] = Compare(tag, items, mid)
      BY <3>2
    <3>4. low = high => cmp[low] = Compare(tag, items, low)
      BY <1>1, <3>1
    <3> HIDE DEF cmp, mid, low, high
    <3>5. QED
      BY <3>3, <3>4 DEF Look, low, high, mid
  <2> HIDE DEF Tag, cmp
  <2>2. Searches(n, cmp, f) <=> f = [r \in Ranges(n) |-> Tag(r)]
    BY <2>1 DEF Searches
  <2>3. TagSearches(items, tag, f) <=> f = [r \in Ranges(n) |-> Tag(r)]
    BY DEF TagSearches, Ranges, Tag
  <2>4. QED
    BY <2>2, <2>3
<1>4. cmp \in [0 .. n - 1 -> Int] /\ \A i \in 0 .. n - 1 : cmp[i] = TagRank[tag] - RankAt(items, i + 1)
  BY <1>1 DEF Compare, RankAt
<1>5. \A i, j \in 0 .. n - 1 : i < j => cmp[i] > cmp[j]
  <2>1. \A i, j \in 1 .. n : i < j => RankAt(items, i) < RankAt(items, j)
    BY DEF InTagOrder, RankAt
  <2>2. QED
    BY <1>1, <1>4, <2>1
<1> HIDE DEF cmp, pos, p, n
<1>6. \E f : TagSearches(items, tag, f)
  BY <1>1, <1>3, SearchExists
<1>7. Searches(n, cmp, pos)
  BY <1>3, <1>6 DEF pos
<1>8. PlaceIs(n, cmp, p)
  BY <1>1, <1>2, <1>4, <1>5, <1>7, SearchFinds
<1>9. p \in 0 .. n
  BY <1>8 DEF PlaceIs
<1>10. ASSUME NEW i \in 1 .. p
       PROVE  RankAt(items, i) < TagRank[tag]
  <2>1. i - 1 \in 0 .. p - 1 /\ i - 1 \in 0 .. n - 1 /\ i \in 1 .. n /\ i - 1 + 1 = i
    BY <1>1, <1>9
  <2>2. cmp[i - 1] > 0
    BY <1>8, <2>1 DEF PlaceIs
  <2>3. QED
    BY <1>1, <1>4, <2>1, <2>2
<1>11. p < n => TagRank[tag] <= RankAt(items, p + 1)
  <2>1. p < n => p \in 0 .. n - 1 /\ p + 1 \in 1 .. n /\ cmp[p] <= 0
    BY <1>1, <1>8, <1>9 DEF PlaceIs
  <2>2. QED
    BY <1>1, <1>4, <2>1
<1>12. ASSUME NEW i \in p + 2 .. n
       PROVE  TagRank[tag] < RankAt(items, i)
  <2>1. i - 1 \in p + 1 .. n - 1 /\ i - 1 \in 0 .. n - 1 /\ i \in 1 .. n /\ i - 1 + 1 = i
    BY <1>1, <1>9
  <2>2. cmp[i - 1] < 0
    BY <1>8, <2>1 DEF PlaceIs
  <2>3. QED
    BY <1>1, <1>4, <2>1, <2>2
<1>13. QED
  BY <1>9, <1>10, <1>11, <1>12 DEF p, n

\* So it finds the tag if it is there.
LEMMA FindsTag ==
  ASSUME NEW items \in Seq(Items), NEW tag \in Tags, InTagOrder(items)
  PROVE  LET p == bsearch_pos(items, tag)
         IN  /\ p \in 0 .. Len(items)
             /\ ~IsAt(items, p, tag) => \A i \in 1 .. Len(items) : items[i][1] # tag
<1> DEFINE p == bsearch_pos(items, tag)
           n == Len(items)
<1>1. /\ p \in 0 .. n /\ n \in Nat
      /\ \A i \in 1 .. p : RankAt(items, i) < TagRank[tag]
      /\ \A i \in p + 2 .. n : TagRank[tag] < RankAt(items, i)
  BY FindsPlace, ItemsAre
<1>2. IsAt(items, p, tag) <=> p < n /\ items[p + 1][1] = tag
  BY DEF IsAt
<1> HIDE DEF p, n
<1>3. ASSUME ~IsAt(items, p, tag), NEW i \in 1 .. n
      PROVE  items[i][1] # tag
  <2>1. i \in 1 .. p \/ i = p + 1 \/ i \in p + 2 .. n
    BY <1>1
  <2>2. i = p + 1 => items[i][1] # tag
    BY <1>1, <1>2, <1>3
  <2>3. TagRank[tag] \in Nat
    BY TagAssumption
  <2>4. RankAt(items, i) # TagRank[tag] => items[i][1] # tag
    BY DEF RankAt
  <2>5. i \in 1 .. p \/ i \in p + 2 .. n => RankAt(items, i) # TagRank[tag]
    BY <1>1, <2>3
  <2>6. QED
    BY <2>1, <2>2, <2>4, <2>5
<1>4. QED
  BY <1>1, <1>3 DEF p, n

\* search_taglist, of a sorted and of any list.
LEMMA Searched ==
  ASSUME NEW list \in TagLists, NEW tag \in Tags
  PROVE  LET p == search_taglist(list, tag)
         IN  /\ p \in -1 .. Len(list.item) - 1
             /\ p >= 0 => list.item[p + 1][1] = tag
             /\ p < 0 => \A i \in 1 .. Len(list.item) : list.item[i][1] # tag
<1> DEFINE items == list.item
           n == Len(items)
<1>1. items \in Seq(Items) /\ (list.sorted => InTagOrder(items)) /\ list.sorted \in BOOLEAN
  BY DEF TagLists
<1>2. n \in Nat /\ DOMAIN items = 1 .. n
  BY <1>1
<1>3. CASE list.sorted
  <2> DEFINE p == bsearch_pos(items, tag)
  <2>1. search_taglist(list, tag) = IF IsAt(items, p, tag) THEN p ELSE -1
    BY <1>3 DEF search_taglist
  <2>2. p \in 0 .. n /\ (~IsAt(items, p, tag) => \A i \in 1 .. n : items[i][1] # tag)
    BY <1>1, <1>3, FindsTag
  <2>3. IsAt(items, p, tag) <=> p < n /\ items[p + 1][1] = tag
    BY DEF IsAt
  <2> HIDE DEF p, items, n
  <2>4. QED
    BY <1>2, <2>1, <2>2, <2>3 DEF items, n
<1>4. CASE ~list.sorted
  <2> DEFINE at == {i \in 1 .. n : items[i][1] = tag}
  <2>1. search_taglist(list, tag) = (IF at # {} THEN Min(at) ELSE 0) - 1
    BY <1>4 DEF search_taglist, SelectInSeq
  <2>2. CASE at = {}
    <3>1. search_taglist(list, tag) = -1
      BY <2>1, <2>2
    <3>2. QED
      BY <1>2, <2>2, <3>1
  <2>3. CASE at # {}
    <3>2. at \subseteq Int /\ at \subseteq Nat
      BY <1>2
    <3>1. PICK x \in at : \A y \in at : x <= y
      <4> HIDE DEF at
      <4>1. QED
        BY <2>3, <3>2, LeastElement
    <3> HIDE DEF at
    <3>3. Min(at) = x
      BY <3>1, <3>2, MinIs
    <3>4. search_taglist(list, tag) = x - 1 /\ x \in 1 .. n /\ items[x][1] = tag
      BY <2>1, <2>3, <3>1, <3>3 DEF at
    <3>5. x - 1 + 1 = x
      BY <3>4
    <3> HIDE DEF items, n
    <3>6. QED
      BY <1>2, <3>4, <3>5 DEF items, n
  <2>4. QED
    BY <2>2, <2>3
<1>5. QED
  BY <1>1, <1>3, <1>4

\* An item whose tag is new is put at its place in a sorted list, at the end of one
\* that is not.
LEMMA PutsItem ==
  ASSUME NEW list \in TagLists, NEW item \in Items, NEW pos \in 0 .. Len(list.item),
         \A i \in 1 .. Len(list.item) : list.item[i][1] # item[1],
         list.sorted =>
           /\ \A i \in 1 .. pos : RankAt(list.item, i) < TagRank[item[1]]
           /\ pos < Len(list.item) => TagRank[item[1]] <= RankAt(list.item, pos + 1)
           /\ \A i \in pos + 2 .. Len(list.item) : TagRank[item[1]] < RankAt(list.item, i)
  PROVE  /\ insert_taglist_pos(list, pos, item) \in TagLists
         /\ insert_taglist_pos(list, pos, item).sorted = list.sorted
         /\ ToSet(insert_taglist_pos(list, pos, item).item) = ToSet(list.item) \cup {item}
<1> DEFINE items == list.item
           n == Len(items)
           new == InsertAt(items, pos + 1, item)
<1>1. /\ items \in Seq(Items) /\ list \in [item : Seq(Items), sorted : BOOLEAN]
      /\ OneItemEach(items) /\ (list.sorted => InTagOrder(items))
  BY DEF TagLists
<1>2. n \in Nat /\ DOMAIN items = 1 .. n /\ pos + 1 \in 1 .. n + 1
  BY <1>1
<1>3. /\ new \in Seq(Items) /\ Len(new) = n + 1
      /\ \A j \in 1 .. n + 1 : new[j] = IF j < pos + 1 THEN items[j]
                                        ELSE IF j = pos + 1 THEN item ELSE items[j - 1]
  <2> DEFINE k == pos + 1
  <2>1. items \in Seq(Items) /\ k \in 1 .. Len(items) + 1
    BY <1>1, <1>2
  <2> HIDE DEF items, k, n
  <2>2. /\ InsertAt(items, k, item) \in Seq(Items) /\ Len(InsertAt(items, k, item)) = Len(items) + 1
        /\ \A j \in 1 .. Len(items) + 1 : InsertAt(items, k, item)[j] =
              IF j < k THEN items[j] ELSE IF j = k THEN item ELSE items[j - 1]
    <3> DEFINE T == Items
    <3>1. items \in Seq(T) /\ k \in 1 .. Len(items) + 1 /\ item \in T
      BY <2>1
    <3> HIDE DEF T
    <3>2. /\ InsertAt(items, k, item) \in Seq(T) /\ Len(InsertAt(items, k, item)) = Len(items) + 1
          /\ \A j \in 1 .. Len(items) + 1 : InsertAt(items, k, item)[j] =
                IF j < k THEN items[j] ELSE IF j = k THEN item ELSE items[j - 1]
      BY ONLY <3>1, InsertAtProps, SMTT(60)
    <3> USE DEF T
    <3>3. QED
      BY ONLY <3>2
  <2>3. QED
    BY <2>2 DEF k, n
<1>4. insert_taglist_pos(list, pos, item) = [list EXCEPT !.item = new]
  BY DEF insert_taglist_pos
<1>5. \A i \in 1 .. n : RankAt(items, i) \in Nat /\ items[i][1] \in Tags
  BY <1>1, ItemsAre
<1>6. TagRank[item[1]] \in Nat
  BY TagAssumption DEF Items
<1>7. \A i, j \in 1 .. n : items[i][1] = items[j][1] => i = j
  BY <1>1, <1>2 DEF OneItemEach
<1>8. list.sorted => \A i, j \in 1 .. n : i < j => RankAt(items, i) < RankAt(items, j)
  BY <1>1, <1>2 DEF InTagOrder, RankAt
<1>9. list.sorted /\ pos < n => TagRank[item[1]] < RankAt(items, pos + 1)
  <2>1. pos < n => pos + 1 \in 1 .. n
    BY <1>2
  <2>2. pos < n => TagRank[item[1]] # RankAt(items, pos + 1)
    <3>1. IsInjective(TagRank) /\ DOMAIN TagRank = Tags /\ item[1] \in Tags
      BY TagAssumption DEF Items
    <3>2. QED
      BY <1>5, <2>1, <3>1 DEF IsInjective, RankAt
  <2>3. QED
    BY <1>5, <1>6, <2>1, <2>2
<1>10. list.sorted => \A i \in pos + 1 .. n : TagRank[item[1]] < RankAt(items, i)
  <2>1. \A i \in pos + 1 .. n : (i = pos + 1 /\ pos < n) \/ i \in pos + 2 .. n
    BY <1>2
  <2>2. QED
    BY <1>9, <2>1
<1> DEFINE from(j) == IF j < pos + 1 THEN j ELSE j - 1
<1>11. \A j \in 1 .. n + 1 : j # pos + 1 => from(j) \in 1 .. n /\ new[j] = items[from(j)]
  BY <1>2, <1>3
<1>12. new[pos + 1] = item
  BY <1>2, <1>3
<1> HIDE DEF items, n, new
<1>13. DOMAIN new = 1 .. n + 1
  BY <1>3
<1>14. OneItemEach(new)
  <2>1. ASSUME NEW i \in 1 .. n + 1, NEW j \in 1 .. n + 1, i # j
        PROVE  new[i][1] # new[j][1]
    <3>1. CASE i = pos + 1
      <4>1. from(j) \in 1 .. n /\ new[j] = items[from(j)] /\ new[i] = item
        BY <1>11, <1>12, <2>1, <3>1
      <4>2. QED
        BY <4>1 DEF items, n
    <3>2. CASE j = pos + 1
      <4>1. from(i) \in 1 .. n /\ new[i] = items[from(i)] /\ new[j] = item
        BY <1>11, <1>12, <2>1, <3>2
      <4>2. QED
        BY <4>1 DEF items, n
    <3>3. CASE i # pos + 1 /\ j # pos + 1
      <4>1. /\ from(i) \in 1 .. n /\ new[i] = items[from(i)]
            /\ from(j) \in 1 .. n /\ new[j] = items[from(j)]
        BY <1>11, <3>3
      <4>2. from(i) # from(j)
        BY <1>2, <2>1, <3>3
      <4>3. QED
        BY <1>7, <4>1, <4>2
    <3>4. QED
      BY <3>1, <3>2, <3>3
  <2>2. QED
    BY <1>13, <2>1 DEF OneItemEach
<1>15. ASSUME list.sorted
       PROVE  InTagOrder(new)
  <2>1. ASSUME NEW i \in 1 .. n + 1, NEW j \in 1 .. n + 1, i < j
        PROVE  TagRank[new[i][1]] < TagRank[new[j][1]]
    <3>1. CASE i = pos + 1
      <4>1. new[j] = items[from(j)] /\ new[i] = item /\ from(j) \in pos + 1 .. n
        BY <1>2, <1>11, <1>12, <2>1, <3>1
      <4>2. TagRank[item[1]] < RankAt(items, from(j))
        BY <1>10, <1>15, <4>1
      <4>3. QED
        BY <4>1, <4>2 DEF RankAt
    <3>2. CASE j = pos + 1
      <4>1. new[i] = items[from(i)] /\ new[j] = item /\ from(i) \in 1 .. pos
        BY <1>2, <1>11, <1>12, <2>1, <3>2
      <4>2. RankAt(items, from(i)) < TagRank[item[1]]
        BY <1>15, <4>1 DEF items
      <4>3. QED
        BY <4>1, <4>2 DEF RankAt
    <3>3. CASE i # pos + 1 /\ j # pos + 1
      <4>1. /\ from(i) \in 1 .. n /\ new[i] = items[from(i)]
            /\ from(j) \in 1 .. n /\ new[j] = items[from(j)]
        BY <1>11, <3>3
      <4>2. from(i) < from(j)
        BY <1>2, <2>1, <3>3
      <4>3. RankAt(items, from(i)) < RankAt(items, from(j))
        BY <1>8, <1>15, <4>1, <4>2
      <4>4. QED
        BY <4>1, <4>3 DEF RankAt
    <3>4. QED
      BY <3>1, <3>2, <3>3
  <2>2. QED
    BY <1>13, <2>1 DEF InTagOrder
<1>16. ToSet(new) = ToSet(items) \cup {item}
  <2>1. \A x : x \in ToSet(new) <=> \E j \in 1 .. n + 1 : new[j] = x
    BY <1>3, ToSetProps
  <2>2. \A x : x \in ToSet(items) <=> \E i \in 1 .. n : items[i] = x
    BY <1>1, ToSetProps DEF n
  <2>3. \A j \in 1 .. n + 1 : new[j] = item \/ \E i \in 1 .. n : items[i] = new[j]
    BY <1>11, <1>12
  <2>4. pos + 1 \in 1 .. n + 1
    BY <1>2
  <2>5. ASSUME NEW i \in 1 .. n
        PROVE  \E j \in 1 .. n + 1 : new[j] = items[i]
    <3>1. CASE i < pos + 1
      <4>1. i \in 1 .. n + 1 /\ i # pos + 1 /\ from(i) = i
        BY <1>2, <3>1
      <4>2. new[i] = items[i]
        BY <1>11, <4>1
      <4>3. QED
        BY <4>1, <4>2
    <3>2. CASE ~(i < pos + 1)
      <4>1. i + 1 \in 1 .. n + 1 /\ i + 1 # pos + 1 /\ from(i + 1) = i
        BY <1>2, <3>2
      <4>2. new[i + 1] = items[i]
        BY <1>11, <4>1
      <4>3. QED
        BY <4>1, <4>2
    <3>3. QED
      BY <3>1, <3>2
  <2> HIDE DEF from
  <2>6. QED
    BY <1>12, <2>1, <2>2, <2>3, <2>4, <2>5
<1>17. QED
  <2>1. /\ insert_taglist_pos(list, pos, item) \in [item : Seq(Items), sorted : BOOLEAN]
        /\ insert_taglist_pos(list, pos, item).item = new
        /\ insert_taglist_pos(list, pos, item).sorted = list.sorted
    BY <1>1, <1>3, <1>4
  <2>2. QED
    BY <1>14, <1>15, <1>16, <2>1 DEF TagLists, items

\* Items picked from a tag list, in their order if it is sorted, are a tag list.
LEMMA PicksItems ==
  ASSUME NEW list \in TagLists, NEW items, NEW at, Picks(Items, list.item, items, at),
         list.sorted => \A i, j \in 1 .. Len(items) : i < j => at[i] < at[j]
  PROVE  [list EXCEPT !.item = items] \in TagLists
<1>1. /\ list.item \in Seq(Items) /\ list \in [item : Seq(Items), sorted : BOOLEAN]
      /\ OneItemEach(list.item) /\ (list.sorted => InTagOrder(list.item))
  BY DEF TagLists
<1>2. /\ items \in Seq(Items)
      /\ \A i \in 1 .. Len(items) : at[i] \in 1 .. Len(list.item) /\ items[i] = list.item[at[i]]
      /\ \A i, j \in 1 .. Len(items) : at[i] = at[j] => i = j
  BY DEF Picks, Injection, IsInjective
<1>3. DOMAIN items = 1 .. Len(items) /\ DOMAIN list.item = 1 .. Len(list.item)
  BY <1>1, <1>2
<1>4. OneItemEach(items)
  BY <1>1, <1>2, <1>3 DEF OneItemEach
<1>5. list.sorted => InTagOrder(items)
  BY <1>1, <1>2, <1>3, SMTT(60) DEF InTagOrder
<1>6. QED
  <2> DEFINE new == [list EXCEPT !.item = items]
  <2>1. new \in [item : Seq(Items), sorted : BOOLEAN] /\ new.item = items /\ new.sorted = list.sorted
    BY <1>1, <1>2
  <2> HIDE DEF new
  <2>2. new \in TagLists
    BY <1>4, <1>5, <2>1 DEF TagLists
  <2>3. QED
    BY <2>2 DEF new

\* remove_taglist_pos.
LEMMA TakesItem ==
  ASSUME NEW list \in TagLists, NEW pos \in 0 .. Len(list.item) - 1
  PROVE  LET new == remove_taglist_pos(list, pos)
         IN  /\ new \in TagLists /\ new.sorted = list.sorted
             /\ ToSet(new.item) = ToSet(list.item) \ {list.item[pos + 1]}
<1> DEFINE items == list.item
           n == Len(items)
           k == pos + 1
           swapped == Front([items EXCEPT ![k] = Last(items)])
           rest == IF list.sorted THEN RemoveAt(items, k) ELSE swapped
<1>1. /\ items \in Seq(Items) /\ list \in [item : Seq(Items), sorted : BOOLEAN]
      /\ OneItemEach(items) /\ (list.sorted => InTagOrder(items))
  BY DEF TagLists
<1>2. n \in Nat /\ DOMAIN items = 1 .. n /\ k \in 1 .. n /\ n >= 1
  BY <1>1
<1>3. remove_taglist_pos(list, pos) = [list EXCEPT !.item = rest]
  BY DEF remove_taglist_pos
<1>4. \A i, j \in 1 .. n : items[i] = items[j] => i = j
  BY <1>1, <1>2 DEF OneItemEach
<1> DEFINE at == [j \in 1 .. n - 1 |->
                    IF list.sorted THEN IF j < k THEN j ELSE j + 1 ELSE IF j = k THEN n ELSE j]
<1> DEFINE Left ==
      /\ rest \in Seq(Items) /\ Len(rest) = n - 1
      /\ \A j \in 1 .. n - 1 : at[j] \in 1 .. n /\ rest[j] = items[at[j]] /\ at[j] # k
      /\ \A i, j \in 1 .. n - 1 : at[i] = at[j] => i = j
      /\ list.sorted => \A i, j \in 1 .. n - 1 : i < j => at[i] < at[j]
      /\ \A i \in 1 .. n : i # k => \E j \in 1 .. n - 1 : at[j] = i
<1>5. ASSUME list.sorted
      PROVE  Left
  <2>1. /\ RemoveAt(items, k) \in Seq(Items) /\ Len(RemoveAt(items, k)) = n - 1
        /\ \A j \in 1 .. n - 1 : RemoveAt(items, k)[j] = IF j < k THEN items[j] ELSE items[j + 1]
    <3> HIDE DEF items, k
    <3>1. QED
      BY <1>1, <1>2, RemoveAtProps DEF n
  <2>2. at = [j \in 1 .. n - 1 |-> IF j < k THEN j ELSE j + 1] /\ rest = RemoveAt(items, k)
    BY <1>5
  <2> HIDE DEF at, items, n, k, rest
  <2>3. /\ rest \in Seq(Items) /\ Len(rest) = n - 1
        /\ \A j \in 1 .. n - 1 : at[j] \in 1 .. n /\ rest[j] = items[at[j]] /\ at[j] # k
        /\ \A i, j \in 1 .. n - 1 : at[i] = at[j] => i = j
        /\ \A i, j \in 1 .. n - 1 : i < j => at[i] < at[j]
        /\ \A i \in 1 .. n : i # k => \E j \in 1 .. n - 1 : at[j] = i
    <3>1. /\ \A j \in 1 .. n - 1 : at[j] \in 1 .. n /\ rest[j] = items[at[j]] /\ at[j] # k
          /\ \A i, j \in 1 .. n - 1 : i < j => at[i] < at[j]
      BY <1>2, <2>1, <2>2
    <3>4. \A i, j \in 1 .. n - 1 : at[i] = at[j] => i = j
      BY <1>2, <2>2
    <3>2. ASSUME NEW i \in 1 .. n, i # k
          PROVE  \E j \in 1 .. n - 1 : at[j] = i
      <4>1. CASE i < k
        <5>1. i \in 1 .. n - 1 /\ at[i] = i
          BY <1>2, <2>2, <4>1
        <5>2. QED
          BY <5>1
      <4>2. CASE i > k
        <5>1. i - 1 \in 1 .. n - 1 /\ at[i - 1] = i
          BY <1>2, <2>2, <4>2
        <5>2. QED
          BY <5>1
      <4>3. QED
        BY <1>2, <3>2, <4>1, <4>2
    <3>3. QED
      BY <2>1, <2>2, <3>1, <3>2, <3>4
  <2>4. QED
    BY <1>5, <2>3, SMTT(60)
<1>6. ASSUME ~list.sorted
      PROVE  Left
  <2> DEFINE e == Last(items)
             over == [items EXCEPT ![k] = e]
  <2>1. /\ over \in Seq(Items) /\ Len(over) = n /\ e = items[n]
        /\ \A j \in 1 .. n : over[j] = IF j = k THEN e ELSE items[j]
    <3>1. e = items[n] /\ e \in Items
      BY <1>1, <1>2 DEF Last
    <3> HIDE DEF e
    <3>2. QED
      BY <1>1, <1>2, <3>1
  <2>2. rest = Front(over)
    BY <1>6
  <2>3. at = [j \in 1 .. n - 1 |-> IF j = k THEN n ELSE j]
    BY <1>6
  <2> HIDE DEF over, e, at, items, n, k, rest
  <2>4. /\ rest \in Seq(Items) /\ Len(rest) = n - 1
        /\ \A j \in 1 .. n - 1 : rest[j] = over[j]
    <3>1. Front(over) = SubSeq(over, 1, n - 1)
      BY <2>1 DEF Front
    <3>2. QED
      BY <1>2, <2>1, <2>2, <3>1
  <2>5. \A j \in 1 .. n - 1 : at[j] \in 1 .. n /\ rest[j] = items[at[j]] /\ at[j] # k
    BY <1>2, <2>1, <2>3, <2>4
  <2>6. \A i, j \in 1 .. n - 1 : at[i] = at[j] => i = j
    BY <1>2, <2>3
  <2>7. ASSUME NEW i \in 1 .. n, i # k
        PROVE  \E j \in 1 .. n - 1 : at[j] = i
    <3>1. CASE i = n
      <4>1. k \in 1 .. n - 1 /\ at[k] = i
        BY <1>2, <2>3, <2>7, <3>1
      <4>2. QED
        BY <4>1
    <3>2. CASE i # n
      <4>1. i \in 1 .. n - 1 /\ at[i] = i
        BY <1>2, <2>3, <2>7, <3>2
      <4>2. QED
        BY <4>1
    <3>3. QED
      BY <3>1, <3>2
  <2>8. QED
    BY <1>6, <2>4, <2>5, <2>6, <2>7
<1>7. /\ rest \in Seq(Items) /\ Len(rest) = n - 1
      /\ \A j \in 1 .. n - 1 : at[j] \in 1 .. n /\ rest[j] = items[at[j]] /\ at[j] # k
      /\ \A i, j \in 1 .. n - 1 : at[i] = at[j] => i = j
      /\ list.sorted => \A i, j \in 1 .. n - 1 : i < j => at[i] < at[j]
      /\ \A i \in 1 .. n : i # k => \E j \in 1 .. n - 1 : at[j] = i
  BY <1>5, <1>6
<1>8. at \in [1 .. n - 1 -> 1 .. n]
  <2>1. DOMAIN at = 1 .. n - 1 /\ at = [j \in 1 .. n - 1 |-> at[j]]
    OBVIOUS
  <2> HIDE DEF at, n, items, k, rest
  <2>2. QED
    BY <1>7, <2>1
<1> HIDE DEF at, rest, swapped, n, k, items
<1>9. Picks(Items, items, rest, at)
  BY <1>2, <1>7, <1>8 DEF Picks, Injection, IsInjective, n
<1>10. [list EXCEPT !.item = rest] \in TagLists
  <2>1. Picks(Items, list.item, rest, at)
    BY <1>9 DEF items
  <2>2. list.sorted => \A i, j \in 1 .. Len(rest) : i < j => at[i] < at[j]
    BY <1>7
  <2>3. QED
    BY <2>1, <2>2, PicksItems
<1>11. ToSet(rest) = ToSet(items) \ {items[k]}
  <2>1. \A x : x \in ToSet(rest) <=> \E j \in 1 .. n - 1 : rest[j] = x
    BY <1>7, ToSetProps
  <2>2. \A x : x \in ToSet(items) <=> \E i \in 1 .. n : items[i] = x
    BY <1>1, ToSetProps DEF n
  <2>3. ASSUME NEW x
        PROVE  x \in ToSet(rest) <=> x \in ToSet(items) /\ x # items[k]
    <3>1. ASSUME x \in ToSet(rest)
          PROVE  x \in ToSet(items) /\ x # items[k]
      <4>1. PICK j \in 1 .. n - 1 : rest[j] = x
        BY <2>1, <3>1
      <4>2. at[j] \in 1 .. n /\ x = items[at[j]] /\ at[j] # k
        BY <1>7, <4>1
      <4>3. QED
        BY <1>2, <1>4, <2>2, <4>2
    <3>2. ASSUME x \in ToSet(items), x # items[k]
          PROVE  x \in ToSet(rest)
      <4>1. PICK i \in 1 .. n : items[i] = x
        BY <2>2, <3>2
      <4>2. PICK j \in 1 .. n - 1 : at[j] = i
        BY <1>7, <3>2, <4>1
      <4>3. QED
        BY <1>7, <2>1, <4>1, <4>2
    <3>3. QED
      BY <3>1, <3>2
  <2>4. QED
    BY <2>3
<1>12. [list EXCEPT !.item = rest].sorted = list.sorted /\ [list EXCEPT !.item = rest].item = rest
  BY <1>1
<1>13. QED
  BY <1>3, <1>10, <1>11, <1>12 DEF items, k

\* The tags on a list.
TagsOf(list) == {item[1] : item \in ToSet(list.item)}

\* They are those of its items.
LEMMA TagsAt ==
  ASSUME NEW list \in TagLists, NEW tag
  PROVE  tag \in TagsOf(list) <=> \E i \in 1 .. Len(list.item) : list.item[i][1] = tag
<1>1. list.item \in Seq(Items)
  BY DEF TagLists
<1>2. \A x : x \in ToSet(list.item) <=> \E i \in 1 .. Len(list.item) : list.item[i] = x
  BY <1>1, ToSetProps
<1>3. QED
  BY <1>2 DEF TagsOf

\* insert_taglist: a tag that is on the list keeps its value.
LEMMA InsertsItem ==
  ASSUME NEW list \in TagLists, NEW item \in Items
  PROVE  /\ insert_taglist(list, item) \in TagLists
         /\ insert_taglist(list, item).sorted = list.sorted
         /\ ToSet(insert_taglist(list, item).item) =
              IF item[1] \in TagsOf(list) THEN ToSet(list.item) ELSE ToSet(list.item) \cup {item}
<1> DEFINE items == list.item
           tag == item[1]
           pos == IF list.sorted THEN bsearch_pos(items, tag) ELSE Len(items)
           there == IF list.sorted THEN IsAt(items, pos, tag) ELSE exist_taglist(list, tag)
<1>1. items \in Seq(Items) /\ (list.sorted => InTagOrder(items)) /\ list.sorted \in BOOLEAN
  BY DEF TagLists
<1>2. Len(items) \in Nat /\ tag \in Tags
  BY <1>1 DEF Items
<1>3. insert_taglist(list, item) = IF there THEN list ELSE insert_taglist_pos(list, pos, item)
  BY DEF insert_taglist
<1> HIDE DEF tag
<1>4. pos \in 0 .. Len(items)
  <2>1. list.sorted => bsearch_pos(items, tag) \in 0 .. Len(items)
    BY <1>1, <1>2, FindsTag
  <2>2. QED
    BY <1>2, <2>1
<1>5. ~there => \A i \in 1 .. Len(items) : items[i][1] # tag
  <2>1. CASE list.sorted
    BY <1>1, <1>2, <2>1, FindsTag
  <2>2. CASE ~list.sorted
    <3>1. search_taglist(list, tag) \in Int
      BY <1>2, Searched
    <3>2. search_taglist(list, tag) < 0 => \A i \in 1 .. Len(items) : items[i][1] # tag
      BY <1>2, Searched
    <3>3. ~there => search_taglist(list, tag) < 0
      BY <2>2, <3>1 DEF exist_taglist
    <3>4. QED
      BY <3>2, <3>3
  <2>3. QED
    BY <2>1, <2>2
<1>6. list.sorted =>
        /\ \A i \in 1 .. pos : RankAt(items, i) < TagRank[tag]
        /\ pos < Len(items) => TagRank[tag] <= RankAt(items, pos + 1)
        /\ \A i \in pos + 2 .. Len(items) : TagRank[tag] < RankAt(items, i)
  BY <1>1, <1>2, FindsPlace
<1>7. ~there => /\ insert_taglist_pos(list, pos, item) \in TagLists
                /\ insert_taglist_pos(list, pos, item).sorted = list.sorted
                /\ ToSet(insert_taglist_pos(list, pos, item).item) = ToSet(items) \cup {item}
  <2> HIDE DEF pos, there
  <2>1. QED
    BY <1>4, <1>5, <1>6, PutsItem DEF tag
<1>8. there <=> tag \in TagsOf(list)
  <2>1. tag \in TagsOf(list) <=> \E i \in 1 .. Len(items) : items[i][1] = tag
    BY TagsAt
  <2>2. there => \E i \in 1 .. Len(items) : items[i][1] = tag
    <3>1. CASE list.sorted
      <4>1. IsAt(items, pos, tag) => pos + 1 \in 1 .. Len(items) /\ items[pos + 1][1] = tag
        BY <1>2, <1>4 DEF IsAt
      <4>2. QED
        BY <3>1, <4>1
    <3>2. CASE ~list.sorted
      <4>1. /\ search_taglist(list, tag) \in -1 .. Len(items) - 1
            /\ search_taglist(list, tag) >= 0 => items[search_taglist(list, tag) + 1][1] = tag
        BY <1>2, Searched
      <4>2. there => search_taglist(list, tag) + 1 \in 1 .. Len(items)
        BY <1>2, <3>2, <4>1 DEF exist_taglist
      <4>3. there => search_taglist(list, tag) >= 0
        BY <3>2 DEF exist_taglist
      <4>4. QED
        BY <4>1, <4>2, <4>3
    <3>3. QED
      BY <3>1, <3>2
  <2> HIDE DEF there
  <2>3. QED
    BY <1>5, <2>1, <2>2
<1>9. QED
  <2> HIDE DEF there, pos
  <2>1. QED
    BY <1>3, <1>7, <1>8 DEF tag

\* remove_taglist: the tag is gone, the other items are left.
LEMMA RemovesTag ==
  ASSUME NEW list \in TagLists, NEW tag \in Tags
  PROVE  LET new == remove_taglist(list, tag)
         IN  /\ new \in TagLists /\ new.sorted = list.sorted
             /\ ToSet(new.item) = {item \in ToSet(list.item) : item[1] # tag}
<1> DEFINE items == list.item
           pos == search_taglist(list, tag)
<1>1. items \in Seq(Items) /\ OneItemEach(items)
  BY DEF TagLists
<1>2. Len(items) \in Nat /\ DOMAIN items = 1 .. Len(items)
  BY <1>1
<1>3. /\ pos \in -1 .. Len(items) - 1
      /\ pos >= 0 => items[pos + 1][1] = tag
      /\ pos < 0 => \A i \in 1 .. Len(items) : items[i][1] # tag
  BY Searched
<1>4. remove_taglist(list, tag) = IF pos >= 0 THEN remove_taglist_pos(list, pos) ELSE list
  BY DEF remove_taglist
<1>5. \A x : x \in ToSet(items) <=> \E i \in 1 .. Len(items) : items[i] = x
  BY <1>1, ToSetProps
<1> HIDE DEF pos
<1>6. CASE pos >= 0
  <2>1. pos \in 0 .. Len(list.item) - 1 /\ pos + 1 \in 1 .. Len(items)
    BY <1>2, <1>3, <1>6
  <2>2. LET new == remove_taglist_pos(list, pos)
        IN  /\ new \in TagLists /\ new.sorted = list.sorted
            /\ ToSet(new.item) = ToSet(items) \ {items[pos + 1]}
    BY <2>1, TakesItem
  <2>3. \A x \in ToSet(items) : x[1] = tag <=> x = items[pos + 1]
    BY <1>1, <1>2, <1>3, <1>5, <1>6, <2>1 DEF OneItemEach
  <2>4. ToSet(items) \ {items[pos + 1]} = {item \in ToSet(items) : item[1] # tag}
    BY <2>3
  <2>5. QED
    BY <1>4, <1>6, <2>2, <2>4
<1>7. CASE ~(pos >= 0)
  <2>1. \A x \in ToSet(items) : x[1] # tag
    BY <1>2, <1>3, <1>5, <1>7
  <2>2. ToSet(items) = {item \in ToSet(items) : item[1] # tag}
    BY <2>1
  <2>3. QED
    BY <1>4, <1>7, <2>2
<1>8. QED
  BY <1>6, <1>7

\* replace_taglist.
LEMMA ReplacesItem ==
  ASSUME NEW list \in TagLists, NEW item \in Items
  PROVE  /\ replace_taglist(list, item) \in TagLists
         /\ replace_taglist(list, item).sorted = list.sorted
         /\ ToSet(replace_taglist(list, item).item) =
              {x \in ToSet(list.item) : x[1] # item[1]} \cup {item}
<1> DEFINE items == list.item
           tag == item[1]
           pos == bsearch_pos(items, tag)
           other == remove_taglist(list, tag)
           over == [list EXCEPT !.item[pos + 1] = item]
<1>1. /\ items \in Seq(Items) /\ (list.sorted => InTagOrder(items)) /\ list.sorted \in BOOLEAN
      /\ OneItemEach(items) /\ list \in [item : Seq(Items), sorted : BOOLEAN]
  BY DEF TagLists
<1>2. Len(items) \in Nat /\ DOMAIN items = 1 .. Len(items) /\ tag \in Tags
  BY <1>1 DEF Items
<1>3. replace_taglist(list, item) =
        IF ~list.sorted THEN insert_taglist_pos(other, Len(other.item), item)
        ELSE IF IsAt(items, pos, tag) THEN over
        ELSE insert_taglist_pos(list, pos, item)
  BY DEF replace_taglist
<1> HIDE DEF tag, pos, over, other
<1>4. CASE ~list.sorted
  <2>1. /\ other \in TagLists /\ other.sorted = list.sorted
        /\ ToSet(other.item) = {x \in ToSet(items) : x[1] # tag}
    BY <1>2, RemovesTag DEF other
  <2>2. other.item \in Seq(Items)
    BY <2>1 DEF TagLists
  <2>3. \A i \in 1 .. Len(other.item) : other.item[i][1] # tag
    BY <2>1, <2>2, ToSetProps
  <2> DEFINE n == Len(other.item)
  <2>4. n \in 0 .. Len(other.item)
    BY <2>2
  <2> HIDE DEF n
  <2>5. /\ insert_taglist_pos(other, n, item) \in TagLists
        /\ insert_taglist_pos(other, n, item).sorted = other.sorted
        /\ ToSet(insert_taglist_pos(other, n, item).item) = ToSet(other.item) \cup {item}
    BY <1>4, <2>1, <2>3, <2>4, PutsItem DEF tag
  <2>6. QED
    BY <1>3, <1>4, <2>1, <2>5 DEF n, tag
<1>5. CASE list.sorted /\ ~IsAt(items, pos, tag)
  <2>1. /\ pos \in 0 .. Len(items)
        /\ \A i \in 1 .. pos : RankAt(items, i) < TagRank[tag]
        /\ pos < Len(items) => TagRank[tag] <= RankAt(items, pos + 1)
        /\ \A i \in pos + 2 .. Len(items) : TagRank[tag] < RankAt(items, i)
    BY <1>1, <1>2, <1>5, FindsPlace DEF pos
  <2>2. \A i \in 1 .. Len(items) : items[i][1] # tag
    BY <1>1, <1>2, <1>5, FindsTag DEF pos
  <2>3. /\ insert_taglist_pos(list, pos, item) \in TagLists
        /\ insert_taglist_pos(list, pos, item).sorted = list.sorted
        /\ ToSet(insert_taglist_pos(list, pos, item).item) = ToSet(items) \cup {item}
    BY <2>1, <2>2, PutsItem DEF tag
  <2>4. ToSet(items) = {x \in ToSet(items) : x[1] # tag}
    BY <1>1, <2>2, ToSetProps
  <2>5. QED
    BY <1>3, <1>5, <2>3, <2>4 DEF tag
<1>6. CASE list.sorted /\ IsAt(items, pos, tag)
  <2>1. pos \in 0 .. Len(items)
    BY <1>1, <1>2, <1>6, FindsTag DEF pos
  <2> DEFINE k == pos + 1
  <2>2. k \in 1 .. Len(items) /\ items[k][1] = tag
    BY <1>2, <1>6, <2>1 DEF IsAt
  <2> HIDE DEF k
  <2> DEFINE new == [items EXCEPT ![k] = item]
  <2>3. new \in Seq(Items) /\ DOMAIN new = DOMAIN items
    BY <1>1, <1>2, <2>2
  <2>4. \A i \in DOMAIN items : new[i][1] = items[i][1]
    BY <1>1, <1>2, <2>2 DEF tag
  <2>5. over = [list EXCEPT !.item = new]
    BY DEF over, k
  <2> HIDE DEF new
  <2>6. OneItemEach(new) /\ InTagOrder(new)
    BY <1>1, <1>6, <2>3, <2>4 DEF OneItemEach, InTagOrder
  <2>7. over \in [item : Seq(Items), sorted : BOOLEAN] /\ over.item = new /\ over.sorted = list.sorted
    BY <1>1, <2>3, <2>5
  <2>8. over \in TagLists
    BY <2>6, <2>7 DEF TagLists
  <2>9. ToSet(new) = {x \in ToSet(items) : x[1] # tag} \cup {item}
    <3>1. \A x : x \in ToSet(new) <=> \E i \in 1 .. Len(items) : new[i] = x
      BY <1>2, <2>3 DEF ToSet
    <3>2. \A x : x \in ToSet(items) <=> \E i \in 1 .. Len(items) : items[i] = x
      BY <1>1, ToSetProps
    <3>3. new[k] = item /\ \A i \in 1 .. Len(items) : i # k => new[i] = items[i]
      BY <1>1, <1>2, <2>2 DEF new
    <3>4. \A i \in 1 .. Len(items) : items[i][1] = tag <=> i = k
      BY <1>1, <1>2, <2>2 DEF OneItemEach
    <3>5. QED
      BY <2>2, <3>1, <3>2, <3>3, <3>4
  <2>10. QED
    BY <1>3, <1>6, <2>7, <2>8, <2>9 DEF tag
<1>7. QED
  BY <1>4, <1>5, <1>6

\* update_taglist.
LEMMA UpdatesItem ==
  ASSUME NEW list \in TagLists, NEW item \in Items
  PROVE  /\ update_taglist(list, item[2], item[1]) \in TagLists
         /\ ToSet(update_taglist(list, item[2], item[1]).item) =
              {x \in ToSet(list.item) : x[1] # item[1]} \cup
              (IF item[2] = NoValue THEN {} ELSE {item})
<1>1. item = <<item[1], item[2]>> /\ item[1] \in Tags
  BY DEF Items
<1>2. /\ remove_taglist(list, item[1]) \in TagLists
      /\ ToSet(remove_taglist(list, item[1]).item) = {x \in ToSet(list.item) : x[1] # item[1]}
  <2> DEFINE tag == item[1]
  <2>1. tag \in Tags
    BY <1>1
  <2> HIDE DEF tag
  <2>2. /\ remove_taglist(list, tag) \in TagLists
        /\ ToSet(remove_taglist(list, tag).item) = {x \in ToSet(list.item) : x[1] # tag}
    BY <2>1, RemovesTag
  <2>3. QED
    BY <2>2 DEF tag
<1>3. /\ replace_taglist(list, item) \in TagLists
      /\ ToSet(replace_taglist(list, item).item) =
           {x \in ToSet(list.item) : x[1] # item[1]} \cup {item}
  BY ReplacesItem
<1>4. QED
  BY <1>1, <1>2, <1>3 DEF update_taglist

\* sort_taglist and unsort_taglist.
LEMMA SortsItems ==
  ASSUME NEW list \in TagLists
  PROVE  /\ sort_taglist(list) \in TagLists /\ unsort_taglist(list) \in TagLists
         /\ ToSet(sort_taglist(list).item) = ToSet(list.item)
<1> DEFINE items == list.item
           key == [item \in ToSet(items) |-> TagRank[item[1]]]
           new == SortedBy(items, key)
<1>1. /\ items \in Seq(Items) /\ OneItemEach(items)
      /\ list \in [item : Seq(Items), sorted : BOOLEAN] /\ (list.sorted => InTagOrder(items))
  BY DEF TagLists
<1>2. /\ Len(items) \in Nat /\ DOMAIN items = 1 .. Len(items)
      /\ \A i \in 1 .. Len(items) : RankAt(items, i) \in Nat /\ items[i][1] \in Tags
  BY <1>1, ItemsAre
<1>3. \A i \in 1 .. Len(items) : key[items[i]] = RankAt(items, i)
  BY <1>1, <1>2, ToSetProps DEF RankAt
<1>4. sort_taglist(list) = [item |-> new, sorted |-> TRUE]
  BY DEF sort_taglist
<1> HIDE DEF key
<1>5. \A i \in 1 .. Len(items) : key[items[i]] \in Int
  BY <1>2, <1>3
<1>6. /\ new \in Seq(Items) /\ Len(new) = Len(items) /\ ToSet(new) = ToSet(items)
      /\ \A i, j \in 1 .. Len(items) : i < j => key[new[i]] <= key[new[j]]
      /\ \E at : Picks(Items, items, new, at)
  <2> HIDE DEF items
  <2>1. QED
    BY <1>1, <1>5, SortedByProps
<1>7. PICK at : Picks(Items, items, new, at)
  BY <1>6
<1> HIDE DEF new
<1>8. /\ \A i \in 1 .. Len(items) : at[i] \in 1 .. Len(items) /\ new[i] = items[at[i]]
      /\ \A i, j \in 1 .. Len(items) : at[i] = at[j] => i = j
  BY <1>6, <1>7 DEF Picks, Injection, IsInjective
<1>9. DOMAIN new = 1 .. Len(items)
  BY <1>6
<1>10. OneItemEach(new)
  BY <1>1, <1>2, <1>8, <1>9, SMTT(60) DEF OneItemEach
<1>11. InTagOrder(new)
  <2>1. ASSUME NEW i \in 1 .. Len(items), NEW j \in 1 .. Len(items), i < j
        PROVE  TagRank[new[i][1]] < TagRank[new[j][1]]
    <3>1. RankAt(items, at[i]) <= RankAt(items, at[j])
      BY <1>3, <1>6, <1>8, <2>1, SMTT(60)
    <3>2. at[i] # at[j]
      BY <1>8, <2>1
    <3>3. items[at[i]][1] # items[at[j]][1]
      BY <1>1, <1>2, <1>8, <3>2 DEF OneItemEach
    <3>4. RankAt(items, at[i]) # RankAt(items, at[j])
      <4>1. IsInjective(TagRank) /\ DOMAIN TagRank = Tags
        BY TagAssumption
      <4>2. QED
        BY <1>2, <1>8, <3>3, <4>1 DEF IsInjective, RankAt
    <3>5. RankAt(items, at[i]) \in Nat /\ RankAt(items, at[j]) \in Nat
      BY <1>2, <1>8
    <3>6. TagRank[new[i][1]] = RankAt(items, at[i]) /\ TagRank[new[j][1]] = RankAt(items, at[j])
      BY <1>8 DEF RankAt
    <3>7. QED
      BY <3>1, <3>4, <3>5, <3>6
  <2>2. QED
    BY <1>9, <2>1 DEF InTagOrder
<1>12. sort_taglist(list) \in TagLists
  BY <1>4, <1>6, <1>10, <1>11 DEF TagLists
<1>13. unsort_taglist(list) \in TagLists
  BY <1>1 DEF TagLists, unsort_taglist
<1>14. QED
  BY <1>4, <1>6, <1>12, <1>13

\* read_taglist: the lines one after the other.
ReadLine(prefix, list, line) == IF line[1] \in prefix THEN insert_taglist(list, line) ELSE list

ReadStep(lines, prefix) ==
  [p \in TagLists \X (1 .. Len(lines)) |-> ReadLine(prefix, p[1], lines[p[2]])]

ReadFold(lines, sorted, prefix, f) ==
  f = [S \in SUBSET DOMAIN lines |->
         IF S = {} THEN [create_taglist EXCEPT !.sorted = sorted]
         ELSE ReadLine(prefix, f[S \ {Max(S)}], lines[Max(S)])]

\* Of the first m lines, those that bring a tag that counts for the first time.
FirstLines(lines, prefix, m) ==
  {lines[i] : i \in {k \in 1 .. m : /\ lines[k][1] \in prefix
                                  /\ \A j \in 1 .. k - 1 : lines[j][1] # lines[k][1]}}

\* The next line is taken if its tag counts and is not on the list yet.
LEMMA NextLine ==
  ASSUME NEW lines \in Seq(Items), NEW prefix, NEW m \in 1 .. Len(lines), NEW list \in TagLists,
         ToSet(list.item) = FirstLines(lines, prefix, m - 1)
  PROVE  ToSet(ReadLine(prefix, list, lines[m]).item) = FirstLines(lines, prefix, m)
<1> DEFINE line == lines[m]
           New(k) == lines[k][1] \in prefix /\ \A j \in 1 .. k - 1 : lines[j][1] # lines[k][1]
<1>1. /\ Len(lines) \in Nat /\ m \in Nat /\ line \in Items
      /\ \A k : k \in 1 .. m <=> k \in 1 .. m - 1 \/ k = m
  OBVIOUS
<1>2. /\ \A x : x \in FirstLines(lines, prefix, m) <=> \E k \in 1 .. m : New(k) /\ lines[k] = x
      /\ \A x : x \in FirstLines(lines, prefix, m - 1) <=>
               \E k \in 1 .. m - 1 : New(k) /\ lines[k] = x
  BY DEF FirstLines
<1>3. FirstLines(lines, prefix, m) =
        IF New(m) THEN FirstLines(lines, prefix, m - 1) \cup {line}
                  ELSE FirstLines(lines, prefix, m - 1)
  <2> HIDE DEF New
  <2>1. QED
    BY <1>1, <1>2
<1>4. ASSUME line[1] \in prefix
      PROVE  line[1] \in TagsOf(list) <=> ~New(m)
  <2>1. line[1] \in TagsOf(list) <=> \E k \in 1 .. m - 1 : New(k) /\ lines[k][1] = line[1]
    BY <1>2 DEF TagsOf
  <2>2. ASSUME ~New(m)
        PROVE  \E k \in 1 .. m - 1 : New(k) /\ lines[k][1] = line[1]
    <3> DEFINE same == {k \in 1 .. m - 1 : lines[k][1] = line[1]}
    <3>1. same # {} /\ same \subseteq Nat
      BY <1>1, <1>4, <2>2
    <3> HIDE DEF same
    <3>2. PICK k \in same : \A j \in same : k <= j
      BY <3>1, LeastElement
    <3>3. k \in 1 .. m - 1 /\ lines[k][1] = line[1]
      BY DEF same
    <3>4. ASSUME NEW j \in 1 .. k - 1
          PROVE  lines[j][1] # lines[k][1]
      <4>1. j \in 1 .. m - 1 /\ ~(k <= j)
        BY <1>1, <3>3
      <4>2. QED
        BY <3>2, <3>3, <4>1 DEF same
    <3>5. QED
      BY <1>4, <3>3, <3>4
  <2>3. ASSUME NEW k \in 1 .. m - 1, lines[k][1] = line[1]
        PROVE  ~New(m)
    BY <2>3
  <2> HIDE DEF New
  <2>4. QED
    BY <2>1, <2>2, <2>3
<1>5. CASE line[1] \in prefix
  <2>1. ReadLine(prefix, list, line) = insert_taglist(list, line)
    BY <1>5 DEF ReadLine
  <2> HIDE DEF New, line
  <2>2. ToSet(insert_taglist(list, line).item) =
          IF line[1] \in TagsOf(list) THEN ToSet(list.item) ELSE ToSet(list.item) \cup {line}
    BY <1>1, InsertsItem
  <2>3. QED
    BY <1>3, <1>4, <1>5, <2>1, <2>2 DEF line
<1>6. CASE line[1] \notin prefix
  <2>1. ReadLine(prefix, list, line) = list
    BY <1>6 DEF ReadLine
  <2>2. ~New(m)
    BY <1>6
  <2>3. QED
    BY <1>3, <2>1, <2>2
<1>7. QED
  BY <1>5, <1>6

\* What read_taglist makes is a tag list, of those lines.
LEMMA ReadsItems ==
  ASSUME NEW lines \in Seq(Items), NEW sorted \in BOOLEAN, NEW prefix
  PROVE  /\ read_taglist(lines, sorted, prefix) \in TagLists
         /\ ToSet(read_taglist(lines, sorted, prefix).item) = FirstLines(lines, prefix, Len(lines))
<1> DEFINE N == Len(lines)
           A == TagLists
           base == [create_taglist EXCEPT !.sorted = sorted]
           step == ReadStep(lines, prefix)
           it == CHOOSE f : ReadFold(lines, sorted, prefix, f)
<1>1. /\ N \in Nat /\ DOMAIN lines = 1 .. N
      /\ \A m \in 1 .. N : lines[m] \in Items
  OBVIOUS
<1>2. read_taglist(lines, sorted, prefix) = it[DOMAIN lines]
  BY DEF read_taglist, FoldLeft, MapThenFoldSet, ReadFold, ReadLine
<1>3. base \in A /\ ToSet(base.item) = {}
  <2>1. base = [item |-> <<>>, sorted |-> sorted]
    BY DEF create_taglist
  <2>2. <<>> \in Seq(Items) /\ DOMAIN <<>> = {}
    OBVIOUS
  <2>3. OneItemEach(<<>>) /\ InTagOrder(<<>>)
    BY <2>2 DEF OneItemEach, InTagOrder
  <2>4. ToSet(<<>>) = {}
    BY DEF ToSet
  <2>5. QED
    BY <2>1, <2>2, <2>3, <2>4 DEF TagLists
<1>4. ASSUME NEW a \in A, NEW m \in 1 .. N
      PROVE  ReadLine(prefix, a, lines[m]) \in A /\ step[<<a, m>>] = ReadLine(prefix, a, lines[m])
  BY <1>1, InsertsItem DEF ReadLine, ReadStep
<1>5. Steps(A, N, base, step)
  <2>1. step \in [A \X (1 .. N) -> A]
    BY <1>1, <1>4 DEF ReadStep
  <2>2. QED
    BY <1>1, <1>3, <2>1 DEF Steps
<1> DEFINE G == [m \in 0 .. N |-> {a \in A : ToSet(a.item) = FirstLines(lines, prefix, m)}]
<1>11. base \in G[0]
  <2>1. FirstLines(lines, prefix, 0) = {} /\ 0 \in 0 .. N
    BY <1>1 DEF FirstLines
  <2>2. QED
    BY <1>3, <2>1
<1>12. ASSUME NEW m \in 1 .. N, NEW a \in A, a \in G[m - 1]
       PROVE  step[<<a, m>>] \in G[m]
  <2>1. m - 1 \in 0 .. N /\ m \in 0 .. N /\ m \in 1 .. Len(lines)
    BY <1>1
  <2>2. ToSet(a.item) = FirstLines(lines, prefix, m - 1)
    BY <1>12, <2>1
  <2>3. ToSet(ReadLine(prefix, a, lines[m]).item) = FirstLines(lines, prefix, m)
    BY <2>1, <2>2, NextLine
  <2>4. QED
    BY <1>4, <2>1, <2>3
<1> HIDE DEF A, step, base, it, G
<1>6. PICK f : f = [S \in SUBSET (1 .. N) |-> f[S]] /\ LeftFold(A, N, base, step, f)
  BY <1>5, LeftFolds
<1>7. ReadFold(lines, sorted, prefix, it)
  <2>1. ASSUME NEW S \in SUBSET (1 .. N)
        PROVE  f[S] = IF S = {} THEN base ELSE ReadLine(prefix, f[S \ {Max(S)}], lines[Max(S)])
    <3>1. CASE S = {}
      BY <1>6, <3>1 DEF LeftFold
    <3>2. CASE S # {}
      <4> DEFINE k == Max(S)
                 a == f[S \ {k}]
      <4>1. k \in 1 .. N /\ a \in A /\ f[S] = step[<<a, k>>]
        BY <1>6, <3>2 DEF LeftFold
      <4> HIDE DEF k, a
      <4>2. f[S] = ReadLine(prefix, a, lines[k])
        BY <1>4, <4>1
      <4>3. QED
        BY <3>2, <4>2 DEF k, a
    <3>3. QED
      BY <3>1, <3>2
  <2>2. ReadFold(lines, sorted, prefix, f)
    BY <1>1, <1>6, <2>1 DEF ReadFold, base
  <2>3. QED
    BY <2>2 DEF it
<1>8. LeftRun(A, N, base, step, it)
  <2>1. ASSUME NEW S \in SUBSET (1 .. N)
        PROVE  IF S = {} THEN it[S] = base
                         ELSE Max(S) \in 1 .. N /\ it[S \ {Max(S)}] \in A =>
                                it[S] = step[<<it[S \ {Max(S)}], Max(S)>>]
    <3> DEFINE k == Max(S)
               a == it[S \ {k}]
    <3>1. it[S] = IF S = {} THEN base ELSE ReadLine(prefix, a, lines[k])
      BY <1>1, <1>7 DEF ReadFold, base
    <3> HIDE DEF k, a
    <3>2. S # {} /\ k \in 1 .. N /\ a \in A => it[S] = step[<<a, k>>]
      BY <1>4, <3>1
    <3>3. QED
      BY <3>1, <3>2 DEF k, a
  <2>2. QED
    BY <1>5, <2>1, LeftRuns
<1>9. it[1 .. N] \in G[N]
  <2>1. N \in Nat /\ base \in G[0]
    BY <1>1, <1>11
  <2> HIDE DEF N
  <2>2. QED
    BY <1>8, <1>12, <2>1, RunKeeps
<1>10. QED
  <2>1. N \in 0 .. N
    BY <1>1
  <2>2. QED
    BY <1>1, <1>2, <1>9, <2>1 DEF A, G

-----------------------------------------------------------------------------
(* What a tag list says                                                    *)

\* A map from the tags of a list that has the value of every item is what it says.
LEMMA MapIs ==
  ASSUME NEW list \in TagLists, NEW map, map = [tag \in TagsOf(list) |-> map[tag]],
         \A item \in ToSet(list.item) : map[item[1]] = item[2]
  PROVE  MapOf(list) = map
<1> DEFINE items == list.item
           at(tag) == CHOOSE i \in DOMAIN items : items[i][1] = tag
<1>1. items \in Seq(Items)
  BY DEF TagLists
<1>2. DOMAIN items = 1 .. Len(items) /\ \A i \in 1 .. Len(items) : items[i] \in ToSet(items)
  BY <1>1, ToSetProps
<1>3. {items[i][1] : i \in DOMAIN items} = TagsOf(list)
  <2>1. \A tag : tag \in TagsOf(list) <=> \E i \in 1 .. Len(items) : items[i][1] = tag
    BY TagsAt
  <2> HIDE DEF items
  <2>2. QED
    BY <1>2, <2>1
<1>4. MapOf(list) = [tag \in TagsOf(list) |-> items[at(tag)][2]]
  BY <1>3 DEF MapOf
<1>5. ASSUME NEW tag \in TagsOf(list)
      PROVE  items[at(tag)][2] = map[tag]
  <2>1. at(tag) \in DOMAIN items /\ items[at(tag)][1] = tag
    BY <1>3
  <2> HIDE DEF at
  <2>2. QED
    BY <1>2, <2>1
<1> HIDE DEF at
<1>6. QED
  BY <1>4, <1>5

\* What a list says, read off its items.
LEMMA MapProps ==
  ASSUME NEW list \in TagLists
  PROVE  /\ DOMAIN MapOf(list) = TagsOf(list)
         /\ MapOf(list) = [tag \in TagsOf(list) |-> MapOf(list)[tag]]
         /\ TagsOf(list) \subseteq Tags
         /\ \A item \in ToSet(list.item) : item[1] \in TagsOf(list) /\ MapOf(list)[item[1]] = item[2]
         /\ \A tag \in TagsOf(list) : <<tag, MapOf(list)[tag]>> \in ToSet(list.item)
<1> DEFINE items == list.item
           at(tag) == CHOOSE i \in DOMAIN items : items[i][1] = tag
<1>1. items \in Seq(Items) /\ OneItemEach(items)
  BY DEF TagLists
<1>2. /\ DOMAIN items = 1 .. Len(items)
      /\ \A i \in 1 .. Len(items) : items[i] \in ToSet(items)
      /\ \A x \in ToSet(items) : x \in Items /\ \E i \in 1 .. Len(items) : items[i] = x
  BY <1>1, ToSetProps
<1>3. {items[i][1] : i \in DOMAIN items} = TagsOf(list)
  <2>1. \A tag : tag \in TagsOf(list) <=> \E i \in 1 .. Len(items) : items[i][1] = tag
    BY TagsAt
  <2> HIDE DEF items
  <2>2. QED
    BY <1>2, <2>1
<1>4. MapOf(list) = [tag \in TagsOf(list) |-> items[at(tag)][2]]
  BY <1>3 DEF MapOf
<1>5. \A tag \in TagsOf(list) : at(tag) \in DOMAIN items /\ items[at(tag)][1] = tag
  BY <1>3
<1> HIDE DEF at
<1>6. ASSUME NEW item \in ToSet(items)
      PROVE  item[1] \in TagsOf(list) /\ MapOf(list)[item[1]] = item[2]
  <2>1. item[1] \in TagsOf(list)
    BY DEF TagsOf
  <2>2. PICK i \in 1 .. Len(items) : items[i] = item
    BY <1>2
  <2>3. at(item[1]) = i
    BY <1>1, <1>2, <1>5, <2>1, <2>2 DEF OneItemEach
  <2>4. QED
    BY <1>4, <2>1, <2>2, <2>3
<1>7. ASSUME NEW tag \in TagsOf(list)
      PROVE  <<tag, MapOf(list)[tag]>> \in ToSet(items)
  <2>1. items[at(tag)] \in Items /\ items[at(tag)] \in ToSet(items)
    BY <1>2, <1>5
  <2>2. items[at(tag)] = <<items[at(tag)][1], items[at(tag)][2]>>
    BY <2>1 DEF Items
  <2>3. QED
    BY <1>4, <1>5, <2>1, <2>2
<1>8. TagsOf(list) \subseteq Tags
  BY <1>2 DEF TagsOf, Items
<1>9. QED
  BY <1>4, <1>6, <1>7, <1>8

\* Lists of the same items say the same.
LEMMA SameMap ==
  ASSUME NEW list \in TagLists, NEW other \in TagLists, ToSet(other.item) = ToSet(list.item)
  PROVE  MapOf(other) = MapOf(list)
<1> DEFINE map == MapOf(list)
<1>1. /\ map = [tag \in TagsOf(list) |-> map[tag]]
      /\ \A item \in ToSet(list.item) : map[item[1]] = item[2]
  BY MapProps
<1>2. TagsOf(other) = TagsOf(list)
  BY DEF TagsOf
<1> HIDE DEF map
<1>3. MapOf(other) = map
  BY <1>1, <1>2, MapIs
<1>4. QED
  BY <1>3 DEF map

\* An item put over what a list says.
LEMMA MapOver ==
  ASSUME NEW list \in TagLists, NEW item \in Items, NEW new \in TagLists,
         ToSet(new.item) = {x \in ToSet(list.item) : x[1] # item[1]} \cup {item}
  PROVE  MapOf(new) = Entered(MapOf(list), item)
<1> DEFINE old == MapOf(list)
           map == Entered(old, item)
<1>1. /\ DOMAIN old = TagsOf(list)
      /\ \A x \in ToSet(list.item) : x[1] \in TagsOf(list) /\ old[x[1]] = x[2]
      /\ \A tag \in TagsOf(list) : <<tag, old[tag]>> \in ToSet(list.item)
  BY MapProps
<1> HIDE DEF old
<1>2. /\ DOMAIN map = {item[1]} \cup DOMAIN old
      /\ map = [tag \in DOMAIN map |-> map[tag]]
      /\ map[item[1]] = item[2]
      /\ \A tag \in DOMAIN old : tag # item[1] => map[tag] = old[tag]
  BY DEF Entered
<1> HIDE DEF map
<1>3. TagsOf(new) = {item[1]} \cup TagsOf(list)
  BY <1>1 DEF TagsOf
<1>4. \A x \in ToSet(new.item) : map[x[1]] = x[2]
  BY <1>1, <1>2
<1>5. MapOf(new) = map
  <2>1. map = [tag \in TagsOf(new) |-> map[tag]]
    BY <1>1, <1>2, <1>3
  <2>2. QED
    BY <1>4, <2>1, MapIs
<1>6. QED
  BY <1>5 DEF map, old

\* An item put on a list whose tag is new.
LEMMA MapWith ==
  ASSUME NEW list \in TagLists, NEW item \in Items, NEW new \in TagLists,
         ToSet(new.item) = IF item[1] \in TagsOf(list) THEN ToSet(list.item)
                                                       ELSE ToSet(list.item) \cup {item}
  PROVE  MapOf(new) = IF item[1] \in DOMAIN MapOf(list) THEN MapOf(list)
                      ELSE Entered(MapOf(list), item)
<1>1. DOMAIN MapOf(list) = TagsOf(list)
  BY MapProps
<1>2. CASE item[1] \in TagsOf(list)
  BY <1>1, <1>2, SameMap
<1>3. CASE item[1] \notin TagsOf(list)
  <2>1. ToSet(list.item) = {x \in ToSet(list.item) : x[1] # item[1]}
    BY <1>3 DEF TagsOf
  <2>2. ToSet(new.item) = {x \in ToSet(list.item) : x[1] # item[1]} \cup {item}
    BY <1>3, <2>1
  <2>3. QED
    BY <1>1, <1>3, <2>2, MapOver
<1>4. QED
  BY <1>2, <1>3

\* A list without a tag.
LEMMA MapWithout ==
  ASSUME NEW list \in TagLists, NEW tag, NEW new \in TagLists,
         ToSet(new.item) = {x \in ToSet(list.item) : x[1] # tag}
  PROVE  MapOf(new) = [t \in DOMAIN MapOf(list) \ {tag} |-> MapOf(list)[t]]
<1> DEFINE old == MapOf(list)
           map == [t \in DOMAIN old \ {tag} |-> old[t]]
<1>1. /\ DOMAIN old = TagsOf(list)
      /\ \A x \in ToSet(list.item) : x[1] \in TagsOf(list) /\ old[x[1]] = x[2]
  BY MapProps
<1> HIDE DEF old
<1>2. TagsOf(new) = TagsOf(list) \ {tag}
  BY DEF TagsOf
<1>3. map = [t \in TagsOf(new) |-> map[t]]
  BY <1>1, <1>2
<1>4. \A x \in ToSet(new.item) : map[x[1]] = x[2]
  BY <1>1, <1>2
<1> HIDE DEF map
<1>5. MapOf(new) = map
  BY <1>3, <1>4, MapIs
<1>6. QED
  BY <1>5 DEF map, old

\* What exist_taglist and get_taglist return.
LEMMA Gets ==
  ASSUME NEW list \in TagLists, NEW tag \in Tags
  PROVE  /\ exist_taglist(list, tag) <=> tag \in TagsOf(list)
         /\ get_taglist(list, tag) =
              IF tag \in DOMAIN MapOf(list) THEN MapOf(list)[tag] ELSE NoValue
<1> DEFINE p == search_taglist(list, tag)
           map == MapOf(list)
<1>1. /\ p \in -1 .. Len(list.item) - 1
      /\ p >= 0 => list.item[p + 1][1] = tag
      /\ p < 0 => \A i \in 1 .. Len(list.item) : list.item[i][1] # tag
  BY Searched
<1>2. list.item \in Seq(Items)
  BY DEF TagLists
<1>3. Len(list.item) \in Nat /\ \A i \in 1 .. Len(list.item) : list.item[i] \in ToSet(list.item)
  BY <1>2, ToSetProps
<1>4. /\ DOMAIN map = TagsOf(list)
      /\ \A x \in ToSet(list.item) : x[1] \in TagsOf(list) /\ map[x[1]] = x[2]
  BY MapProps
<1>5. get_taglist(list, tag) = IF p >= 0 /\ list.item[p + 1][2] # NoValue
                                 THEN list.item[p + 1][2] ELSE NoValue
  BY DEF get_taglist, get_taglist_default
<1>6. tag \in TagsOf(list) <=> \E i \in 1 .. Len(list.item) : list.item[i][1] = tag
  BY TagsAt
<1>7. exist_taglist(list, tag) <=> p >= 0
  BY DEF exist_taglist
<1> HIDE DEF p, map
<1>8. CASE p >= 0
  <2> DEFINE k == p + 1
  <2>1. k \in 1 .. Len(list.item) /\ list.item[k][1] = tag
    BY <1>1, <1>3, <1>8
  <2>2. get_taglist(list, tag) = list.item[k][2]
    BY <1>5, <1>8
  <2> HIDE DEF k
  <2>3. tag \in TagsOf(list) /\ map[tag] = list.item[k][2]
    BY <1>3, <1>4, <2>1
  <2>4. QED
    BY <1>4, <1>7, <1>8, <2>2, <2>3 DEF map
<1>9. CASE ~(p >= 0)
  <2>1. p < 0
    BY <1>1, <1>3, <1>9
  <2>2. QED
    BY <1>1, <1>4, <1>5, <1>6, <1>7, <1>9, <2>1 DEF map
<1>10. QED
  BY <1>8, <1>9

\* Sorted lists of the same items are equal.
LEMMA SameOrder ==
  ASSUME NEW a \in Seq(Items), NEW b \in Seq(Items), OneItemEach(a), InTagOrder(a), InTagOrder(b),
         ToSet(a) = ToSet(b), Len(a) = Len(b)
  PROVE  \A i \in 1 .. Len(a) : a[i] = b[i]
<1> DEFINE n == Len(a)
           differ == {i \in 1 .. n : a[i] # b[i]}
<1>1. /\ n \in Nat /\ DOMAIN a = 1 .. n /\ DOMAIN b = 1 .. n
      /\ \A i \in 1 .. n : RankAt(a, i) \in Nat /\ RankAt(b, i) \in Nat
  BY ItemsAre
<1>2. /\ \A i \in 1 .. n : \E j \in 1 .. n : a[i] = b[j]
      /\ \A i \in 1 .. n : \E j \in 1 .. n : b[i] = a[j]
  BY <1>1 DEF ToSet
<1>3. /\ \A i, j \in 1 .. n : i < j => RankAt(a, i) < RankAt(a, j)
      /\ \A i, j \in 1 .. n : i < j => RankAt(b, i) < RankAt(b, j)
      /\ \A i, j \in 1 .. n : a[i] = b[j] => RankAt(a, i) = RankAt(b, j)
  BY <1>1 DEF InTagOrder, RankAt
<1> HIDE DEF n
<1>4. ASSUME NEW i \in 1 .. n, a[i] # b[i], \A j \in 1 .. i - 1 : a[j] = b[j]
      PROVE  FALSE
  <2>1. PICK j \in 1 .. n : a[i] = b[j]
    BY <1>2
  <2>2. PICK k \in 1 .. n : b[i] = a[k]
    BY <1>2
  <2>3. j # i /\ k # i
    BY <1>4, <2>1, <2>2
  <2>4. ~(j < i)
    <3>1. ASSUME j < i
          PROVE  FALSE
      <4>1. j \in 1 .. i - 1
        BY <1>1, <3>1
      <4>2. a[i] = a[j]
        BY <1>4, <2>1, <4>1
      <4>3. RankAt(a, j) < RankAt(a, i) /\ RankAt(a, i) = RankAt(a, j)
        BY <1>3, <3>1, <4>2 DEF RankAt
      <4>4. QED
        BY <1>1, <4>3
    <3>2. QED
      BY <3>1
  <2>5. ~(k < i)
    <3>1. ASSUME k < i
          PROVE  FALSE
      <4>1. k \in 1 .. i - 1
        BY <1>1, <3>1
      <4>2. b[i] = b[k]
        BY <1>4, <2>2, <4>1
      <4>3. RankAt(b, k) < RankAt(b, i) /\ RankAt(b, i) = RankAt(b, k)
        BY <1>3, <3>1, <4>2 DEF RankAt
      <4>4. QED
        BY <1>1, <4>3
    <3>2. QED
      BY <3>1
  <2>6. i < j /\ i < k
    BY <1>1, <2>3, <2>4, <2>5
  <2>7. RankAt(b, i) < RankAt(b, j) /\ RankAt(a, i) < RankAt(a, k)
    BY <1>3, <2>6
  <2>8. RankAt(a, i) = RankAt(b, j) /\ RankAt(a, k) = RankAt(b, i)
    BY <1>3, <2>1, <2>2
  <2>9. QED
    BY <1>1, <2>7, <2>8
<1>5. differ = {}
  <2>1. differ \subseteq Nat /\ differ \subseteq 1 .. n
    BY <1>1
  <2>2. ASSUME differ # {}
        PROVE  FALSE
    <3> HIDE DEF differ
    <3>1. PICK i \in differ : \A j \in differ : i <= j
      BY <2>1, <2>2, LeastElement
    <3>2. i \in 1 .. n /\ a[i] # b[i]
      BY DEF differ
    <3>3. ASSUME NEW j \in 1 .. i - 1
          PROVE  a[j] = b[j]
      <4>1. j \in 1 .. n /\ ~(i <= j)
        BY <1>1, <3>2
      <4>2. j \notin differ
        BY <3>1, <4>1
      <4>3. QED
        BY <4>1, <4>2 DEF differ
    <3>4. QED
      BY <1>4, <3>2, <3>3
  <2>3. QED
    BY <2>2
<1>6. QED
  BY <1>5 DEF n

\* Lists that say the same have the same items, and are equally long.
LEMMA SameItems ==
  ASSUME NEW a \in TagLists, NEW b \in TagLists
  PROVE  /\ MapOf(a) = MapOf(b) <=> ToSet(a.item) = ToSet(b.item)
         /\ ToSet(a.item) \subseteq ToSet(b.item) =>
              /\ Len(a.item) <= Len(b.item)
              /\ Len(a.item) = Len(b.item) => ToSet(a.item) = ToSet(b.item)
<1>1. a.item \in Seq(Items) /\ b.item \in Seq(Items) /\ OneItemEach(a.item) /\ OneItemEach(b.item)
  BY DEF TagLists
<1>2. IsInjective(a.item) /\ IsInjective(b.item)
  BY <1>1 DEF OneItemEach, IsInjective
<1>3. ToSet(a.item) \subseteq ToSet(b.item) =>
        /\ Len(a.item) <= Len(b.item)
        /\ Len(a.item) = Len(b.item) => ToSet(a.item) = ToSet(b.item)
  <2> DEFINE s == a.item
             r == b.item
  <2>1. s \in Seq(Items) /\ r \in Seq(Items) /\ IsInjective(s) /\ IsInjective(r)
    BY <1>1, <1>2
  <2> HIDE DEF s, r
  <2>2. ToSet(s) \subseteq ToSet(r) =>
          Len(s) <= Len(r) /\ (Len(s) = Len(r) => ToSet(s) = ToSet(r))
    BY <2>1, SameLength
  <2>3. QED
    BY <2>2 DEF s, r
<1>4. ToSet(a.item) = ToSet(b.item) => MapOf(a) = MapOf(b)
  BY SameMap
<1>5. ASSUME NEW c \in TagLists, NEW d \in TagLists, MapOf(c) = MapOf(d)
      PROVE  ToSet(c.item) \subseteq ToSet(d.item)
  <2>1. ASSUME NEW x \in ToSet(c.item)
        PROVE  x \in ToSet(d.item)
    <3>1. x[1] \in TagsOf(c) /\ MapOf(c)[x[1]] = x[2] /\ DOMAIN MapOf(c) = TagsOf(c)
      BY MapProps
    <3>2. x[1] \in TagsOf(d)
      BY <1>5, <3>1, MapProps
    <3>3. <<x[1], MapOf(d)[x[1]]>> \in ToSet(d.item)
      BY <3>2, MapProps
    <3>4. c.item \in Seq(Items)
      BY DEF TagLists
    <3>5. x = <<x[1], x[2]>>
      BY <3>4, ToSetProps DEF Items
    <3>6. QED
      BY <1>5, <3>1, <3>3, <3>5
  <2>2. QED
    BY <2>1
<1>6. MapOf(a) = MapOf(b) => ToSet(a.item) = ToSet(b.item)
  BY <1>5
<1>7. QED
  BY <1>3, <1>4, <1>6

\* compare_taglist.
LEMMA Compares ==
  ASSUME NEW a \in TagLists, NEW b \in TagLists
  PROVE  /\ compare_taglist(a, b) \in BOOLEAN
         /\ MapOf(a) = MapOf(b) => ~compare_taglist(a, b)
         /\ MapOf(a) # MapOf(b) /\ ~compare_taglist(a, b) =>
              /\ ~(a.sorted /\ b.sorted)
              /\ \E tag \in DOMAIN MapOf(a) \ DOMAIN MapOf(b) : MapOf(a)[tag] = NoValue
<1>1. /\ a.item \in Seq(Items) /\ b.item \in Seq(Items) /\ OneItemEach(a.item)
      /\ (a.sorted => InTagOrder(a.item)) /\ (b.sorted => InTagOrder(b.item))
  BY DEF TagLists
<1>2. /\ Len(a.item) \in Nat /\ Len(b.item) \in Nat /\ DOMAIN a.item = 1 .. Len(a.item)
      /\ \A i \in 1 .. Len(a.item) : a.item[i] \in ToSet(a.item) /\ a.item[i][1] \in Tags
      /\ \A x \in ToSet(a.item) : x \in Items /\ \E i \in 1 .. Len(a.item) : a.item[i] = x
  BY <1>1, ItemsAre, ToSetProps
<1>3. compare_taglist(a, b) \in BOOLEAN
  BY DEF compare_taglist
<1>4. compare_taglist(a, b) <=>
        \/ Len(a.item) # Len(b.item)
        \/ a.sorted /\ b.sorted /\ \E i \in 1 .. Len(a.item) : a.item[i] # b.item[i]
        \/ /\ ~(a.sorted /\ b.sorted)
           /\ \E i \in 1 .. Len(a.item) : get_taglist(b, a.item[i][1]) # a.item[i][2]
  BY <1>2 DEF compare_taglist
<1>5. /\ DOMAIN MapOf(a) = TagsOf(a) /\ DOMAIN MapOf(b) = TagsOf(b)
      /\ \A x \in ToSet(a.item) : x[1] \in TagsOf(a) /\ MapOf(a)[x[1]] = x[2]
      /\ \A tag \in TagsOf(b) : <<tag, MapOf(b)[tag]>> \in ToSet(b.item)
  BY MapProps
<1>6. \A i \in 1 .. Len(a.item) : get_taglist(b, a.item[i][1]) =
        IF a.item[i][1] \in TagsOf(b) THEN MapOf(b)[a.item[i][1]] ELSE NoValue
  BY <1>2, <1>5, Gets
<1>7. ASSUME MapOf(a) = MapOf(b)
      PROVE  ~compare_taglist(a, b)
  <2>1. ToSet(a.item) = ToSet(b.item)
    BY <1>7, SameItems
  <2>2. Len(a.item) = Len(b.item)
    <3>1. Len(a.item) <= Len(b.item) /\ Len(b.item) <= Len(a.item)
      BY <2>1, SameItems
    <3>2. QED
      BY <1>2, <3>1
  <2>3. a.sorted /\ b.sorted => \A i \in 1 .. Len(a.item) : a.item[i] = b.item[i]
    <3> DEFINE s == a.item
               r == b.item
    <3>1. s \in Seq(Items) /\ r \in Seq(Items) /\ ToSet(s) = ToSet(r) /\ Len(s) = Len(r) /\ OneItemEach(s)
      BY <1>1, <2>1, <2>2
    <3>2. a.sorted /\ b.sorted => InTagOrder(s) /\ InTagOrder(r)
      BY <1>1
    <3> HIDE DEF s, r
    <3>3. a.sorted /\ b.sorted => \A i \in 1 .. Len(s) : s[i] = r[i]
      BY <3>1, <3>2, SameOrder
    <3>4. QED
      BY <3>3 DEF s, r
  <2>4. \A i \in 1 .. Len(a.item) : get_taglist(b, a.item[i][1]) = a.item[i][2]
    BY <1>2, <1>5, <1>6, <1>7
  <2>5. QED
    BY <1>4, <2>2, <2>3, <2>4
<1>8. ASSUME MapOf(a) # MapOf(b), ~compare_taglist(a, b)
      PROVE  /\ ~(a.sorted /\ b.sorted)
             /\ \E tag \in DOMAIN MapOf(a) \ DOMAIN MapOf(b) : MapOf(a)[tag] = NoValue
  <2>1. Len(a.item) = Len(b.item) /\ ~(ToSet(a.item) \subseteq ToSet(b.item))
    BY <1>4, <1>8, SameItems
  <2>2. ~(a.sorted /\ b.sorted)
    <3>1. ASSUME \A i \in 1 .. Len(a.item) : a.item[i] = b.item[i]
          PROVE  ToSet(a.item) \subseteq ToSet(b.item)
      <4>1. \A i \in 1 .. Len(b.item) : b.item[i] \in ToSet(b.item)
        BY <1>1, ToSetProps
      <4>2. ASSUME NEW x \in ToSet(a.item)
            PROVE  x \in ToSet(b.item)
        <5>1. PICK i \in 1 .. Len(a.item) : a.item[i] = x
          BY <1>2
        <5>2. i \in 1 .. Len(b.item) /\ b.item[i] = x
          BY <2>1, <3>1, <5>1
        <5>3. QED
          BY <4>1, <5>2
      <4>3. QED
        BY <4>2
    <3>2. QED
      BY <1>4, <1>8, <2>1, <3>1
  <2>3. \A i \in 1 .. Len(a.item) : get_taglist(b, a.item[i][1]) = a.item[i][2]
    BY <1>4, <1>8, <2>2
  <2>4. PICK x \in ToSet(a.item) : x \notin ToSet(b.item)
    BY <2>1
  <2>5. PICK i \in 1 .. Len(a.item) : a.item[i] = x
    BY <1>2, <2>4
  <2>6. x[1] \notin TagsOf(b)
    <3>1. ASSUME x[1] \in TagsOf(b)
          PROVE  FALSE
      <4>1. MapOf(b)[x[1]] = x[2]
        BY <1>6, <2>3, <2>5, <3>1
      <4>2. x = <<x[1], x[2]>>
        BY <1>2 DEF Items
      <4>3. QED
        BY <1>5, <2>4, <3>1, <4>1, <4>2
    <3>2. QED
      BY <3>1
  <2>7. x[2] = NoValue
    BY <1>6, <2>3, <2>5, <2>6
  <2>8. x[1] \in DOMAIN MapOf(a) \ DOMAIN MapOf(b) /\ MapOf(a)[x[1]] = NoValue
    BY <1>5, <2>6, <2>7
  <2>9. QED
    BY <2>2, <2>8
<1>9. QED
  BY <1>3, <1>7, <1>8

\* What a text says: for every tag that counts, the value of its first line.
LEMMA MapOfText ==
  ASSUME NEW lines \in Seq(Items), NEW prefix, NEW list \in TagLists,
         ToSet(list.item) = FirstLines(lines, prefix, Len(lines))
  PROVE  LET first(tag) == lines[SelectInSeq(lines, LAMBDA line : line[1] = tag)]
         IN  MapOf(list) = [tag \in {line[1] : line \in ToSet(lines)} \cap prefix |-> first(tag)[2]]
<1> DEFINE n == Len(lines)
           at(tag) == SelectInSeq(lines, LAMBDA line : line[1] = tag)
           D == {line[1] : line \in ToSet(lines)} \cap prefix
           map == [tag \in D |-> lines[at(tag)][2]]
           New(k) == lines[k][1] \in prefix /\ \A j \in 1 .. k - 1 : lines[j][1] # lines[k][1]
<1>1. n \in Nat /\ \A x : x \in ToSet(lines) <=> \E i \in 1 .. n : lines[i] = x
  BY ToSetProps
<1>2. \A x : x \in ToSet(list.item) <=> \E k \in 1 .. n : New(k) /\ lines[k] = x
  BY DEF FirstLines
<1>3. ASSUME NEW tag, NEW i \in 1 .. n, lines[i][1] = tag
      PROVE  \E k \in 1 .. n : /\ lines[k][1] = tag /\ \A j \in 1 .. k - 1 : lines[j][1] # tag
                               /\ at(tag) = k
  <2> DEFINE same == {k \in 1 .. n : lines[k][1] = tag}
  <2>1. same \subseteq Nat /\ same \subseteq Int /\ same # {}
    BY <1>1, <1>3
  <2>2. at(tag) = Min(same)
    BY <2>1 DEF SelectInSeq
  <2> HIDE DEF same
  <2>3. PICK k \in same : \A j \in same : k <= j
    BY <2>1, LeastElement
  <2>4. Min(same) = k
    BY <2>1, <2>3, MinIs
  <2>5. k \in 1 .. n /\ lines[k][1] = tag
    BY DEF same
  <2>6. ASSUME NEW j \in 1 .. k - 1
        PROVE  lines[j][1] # tag
    <3>1. j \in 1 .. n /\ ~(k <= j)
      BY <1>1, <2>5
    <3>2. QED
      BY <2>3, <3>1 DEF same
  <2> HIDE DEF at
  <2>7. QED
    BY <2>2, <2>4, <2>5, <2>6
<1> HIDE DEF at
<1>4. TagsOf(list) = D
  <2>1. ASSUME NEW tag \in D
        PROVE  tag \in TagsOf(list)
    <3>1. PICK i \in 1 .. n : lines[i][1] = tag
      BY <1>1
    <3>2. PICK k \in 1 .. n : lines[k][1] = tag /\ \A j \in 1 .. k - 1 : lines[j][1] # tag
      BY <1>3, <3>1
    <3>3. lines[k] \in ToSet(list.item)
      BY <1>2, <3>2
    <3>4. QED
      BY <3>2, <3>3 DEF TagsOf
  <2>2. ASSUME NEW x \in ToSet(list.item)
        PROVE  x[1] \in D
    <3>1. PICK k \in 1 .. n : New(k) /\ lines[k] = x
      BY <1>2
    <3>2. QED
      BY <1>1, <3>1
  <2>3. QED
    BY <2>1, <2>2 DEF TagsOf
<1>5. ASSUME NEW x \in ToSet(list.item)
      PROVE  map[x[1]] = x[2]
  <2>1. PICK k \in 1 .. n : New(k) /\ lines[k] = x
    BY <1>2
  <2>2. PICK l \in 1 .. n : /\ lines[l][1] = x[1] /\ \A j \in 1 .. l - 1 : lines[j][1] # x[1]
                            /\ at(x[1]) = l
    BY <1>3, <2>1
  <2>3. ~(l < k) /\ ~(k < l)
    <3>1. l < k => l \in 1 .. k - 1
      BY <1>1
    <3>2. k < l => k \in 1 .. l - 1
      BY <1>1
    <3>3. QED
      BY <2>1, <2>2, <3>1, <3>2
  <2>4. k = l
    BY <1>1, <2>3
  <2>5. x[1] \in D
    BY <1>1, <2>1
  <2>6. QED
    BY <2>1, <2>2, <2>4, <2>5
<1>6. map = [tag \in TagsOf(list) |-> map[tag]]
  BY <1>4
<1> HIDE DEF map
<1>7. MapOf(list) = map
  BY <1>5, <1>6, MapIs
<1>8. QED
  BY <1>7 DEF map, at

-----------------------------------------------------------------------------
(* The arguments of the calls                                              *)

\* SeqsUpTo are the sequences up to a length.
LEMMA ShortSequences ==
  ASSUME NEW S, NEW n \in Nat, NEW s \in SeqsUpTo(S, n)
  PROVE  s \in Seq(S) /\ Len(s) \in Nat /\ Len(s) <= n
<1>1. PICK k \in 0 .. n : s \in [1 .. k -> S]
  BY DEF SeqsUpTo
<1>2. QED
  BY <1>1

\* The calls get lists of numbers or strings, and words and texts that fit on a list.
LEMMA Arguments ==
  /\ NumArgs \subseteq ListOf(Numbers) /\ IpArgs \subseteq ListOf(Strings)
  /\ \A w \in Words : w \in Seq(Numbers \cup {-1}) /\ Len(w) <= MaxNumLen + MaxIpLen
  /\ \A t \in Texts : t \in Seq(Strings) /\ Len(t) <= MaxNumLen + MaxIpLen
  /\ \E I : Segments \subseteq Seq(I \X Seq(FewStrings))
  /\ \A lines \in SeqsUpTo(Items, MaxArg) : lines \in Seq(Items)
<1>1. /\ MaxArg \in Nat /\ MaxArg + 1 \in Nat /\ MaxArg + 1 <= MaxNumLen + MaxIpLen
      /\ MaxNumLen + MaxIpLen \in Nat
  BY ListsAssumption
<1>9. \A T, s : s \in Seq(T) => List(s, TRUE) \in ListOf(T)
  <2> DEFINE yes == TRUE
  <2>1. yes \in BOOLEAN
    OBVIOUS
  <2> HIDE DEF yes
  <2>2. \A T, s : s \in Seq(T) => List(s, yes) \in ListOf(T)
    BY <2>1 DEF List, ListOf
  <2>3. QED
    BY <2>2 DEF yes
<1>2. NumArgs \subseteq ListOf(Numbers)
  <2>1. \A s \in SeqsUpTo(Numbers, MaxArg) : s \in Seq(Numbers)
    BY <1>1, ShortSequences
  <2>2. QED
    BY <1>9, <2>1 DEF NumArgs
<1>3. IpArgs \subseteq ListOf(Strings)
  <2>1. \A s \in SeqsUpTo(FewStrings, MaxArg) : s \in Seq(FewStrings)
    BY <1>1, ShortSequences
  <2>2. \A s \in Seq(FewStrings) : s \in Seq(Strings)
    BY ListsAssumption
  <2>3. QED
    BY <1>9, <2>1, <2>2 DEF IpArgs
<1>4. \A w \in Words : w \in Seq(Numbers \cup {-1}) /\ Len(w) <= MaxNumLen + MaxIpLen
  <2>1. ASSUME NEW w \in Words
        PROVE  w \in Seq(Numbers \cup {-1}) /\ Len(w) <= MaxNumLen + MaxIpLen
    <3> DEFINE n == MaxArg + 1
               S == Numbers \cup {-1}
    <3>1. n \in Nat /\ w \in SeqsUpTo(S, n)
      BY <1>1 DEF Words
    <3> HIDE DEF n, S
    <3>2. w \in Seq(S) /\ Len(w) \in Nat /\ Len(w) <= n
      BY <3>1, ShortSequences
    <3>3. QED
      BY <1>1, <3>2 DEF n, S
  <2>2. QED
    BY <2>1
<1>5. \A t \in Texts : t \in Seq(Strings) /\ Len(t) <= MaxNumLen + MaxIpLen
  <2>1. ASSUME NEW t \in Texts
        PROVE  t \in Seq(Strings) /\ Len(t) <= MaxNumLen + MaxIpLen
    <3> DEFINE n == MaxArg + 1
    <3>1. n \in Nat /\ t \in SeqsUpTo(Plain, n)
      BY <1>1 DEF Texts
    <3> HIDE DEF n
    <3>2. t \in Seq(Plain) /\ Len(t) \in Nat /\ Len(t) <= n
      BY <3>1, ShortSequences
    <3>3. \A s \in Seq(Plain) : s \in Seq(Strings)
      BY DEF Plain
    <3>4. QED
      BY <1>1, <3>2, <3>3 DEF n
  <2>2. QED
    BY <2>1
<1>6. \E I : Segments \subseteq Seq(I \X Seq(FewStrings))
  <2> DEFINE I == {NoId, -1, 0, LinkSize, LinkSize + 1}
             F == FewStrings \cap OneWord
             P == I \X (SeqsUpTo(F, MaxArg) \ {<<>>})
             Q == I \X Seq(FewStrings)
  <2>1. ASSUME NEW s \in SeqsUpTo(F, MaxArg)
        PROVE  s \in Seq(FewStrings)
    <3>1. s \in Seq(F)
      BY <1>1, ShortSequences
    <3>2. \A t \in Seq(F) : t \in Seq(FewStrings)
      OBVIOUS
    <3>3. QED
      BY <3>1, <3>2
  <2>2. P \subseteq Q
    BY <2>1
  <2>3. Segments = SeqsUpTo(P, MaxArg)
    BY DEF Segments
  <2> HIDE DEF P, Q
  <2>4. \A s \in Segments : s \in Seq(P)
    BY <1>1, <2>3, ShortSequences
  <2>5. \A s \in Segments : s \in Seq(Q)
    BY <2>2, <2>4
  <2>6. QED
    BY <2>5 DEF Q
<1>7. \A lines \in SeqsUpTo(Items, MaxArg) : lines \in Seq(Items)
  BY <1>1, ShortSequences
<1>8. QED
  BY <1>2, <1>3, <1>4, <1>5, <1>6, <1>7

-----------------------------------------------------------------------------
(* The invariant                                                           *)

\* The list is one of its kind.
Holds(k, list) ==
  \/ /\ k = "num" /\ list \in ListOf(Numbers) /\ Unique(list)
     /\ Len(list.item) <= MaxNumLen + MaxIpLen
  \/ /\ k = "ip" /\ list \in ListOf(Strings) /\ Almost(list)
     /\ Len(list.item) <= MaxNumLen + MaxIpLen
  \/ k = "link" /\ list \in Links
  \/ k = "tag" /\ list \in TagLists

\* Members, of a call op that turns before into new.
MembersTold(k, op, args, before, new) ==
  LET old   == ToSet(before.item)
      after == ToSet(new.item)
      arg   == args[1]
  IN  k \in {"num", "ip"} =>
        /\ op \in {"insert", "insert_at"} => after = old \cup {arg}
        /\ op = "remove" /\ Unique(before) => after = old \ {arg}
        /\ op = "union"     => after = old \cup ToSet(arg.item)
        /\ op = "intersect" => after = old \cap ToSet(arg.item)
        /\ op = "except"    => after = old \ ToSet(arg.item)
        /\ op \in {"keep", "reorder", "get_free", "serialize"} => after = old
        /\ op = "unique" =>
             /\ after \subseteq old
             /\ (k = "num" /\ \A n \in old : OwnBit(n)) => ToSet(Front(before.item)) \subseteq after
             /\ k = "ip" /\ old # {} => before.item[1] \in after

PlacedTold(op, args, before, new) == op = "insert_at" => PlacedAt(before, args[1], args[2], new)

\* Reordered.
ReorderedTold(op, args, before, new, ret) ==
  op = "reorder" =>
    LET moved   == Chain(before, args[1]).item
        anchors == ToSet(args[2].item)
        others  == Dropping(before.item, ToSet(moved))
    IN  /\ ret = 0 => new = before
        /\ ret = 1 /\ moved # <<>> =>
             \E p \in 0 .. Len(others) :
               /\ new.item = SubSeq(others, 1, p) \o moved \o SubSeq(others, p + 1, Len(others))
               /\ IF anchors = {} THEN p = 0 ELSE p > 0 /\ others[p] \in anchors
               /\ \A i \in p + 1 .. Len(others) : others[i] \notin anchors

\* FreeIsFree.
FreeTold(op, new, ret) ==
  op = "get_free" => ret \in 1 .. Len(new.item) + 1 /\ ~exist_numlist(new, ret)

\* TagsAreMap.
TagsTold(k, op, args, before, new, ret) ==
  k = "tag" =>
    LET old == MapOf(before)
        now == MapOf(new)
        arg == args[1]
        first(lines, tag) == lines[SelectInSeq(lines, LAMBDA line : line[1] = tag)]
    IN  /\ op = "keep" => now = old
        /\ op = "insert" => now = IF arg[1] \in DOMAIN old THEN old ELSE Entered(old, arg)
        /\ op = "replace" => now = Entered(old, arg)
        /\ op = "update" =>
             now = IF arg[2] = NoValue THEN [tag \in DOMAIN old \ {arg[1]} |-> old[tag]]
                                       ELSE Entered(old, arg)
        /\ op = "get" =>
             ret = <<arg \in DOMAIN old, IF arg \in DOMAIN old THEN old[arg] ELSE NoValue>>
        /\ op = "read" =>
             now = [tag \in {line[1] : line \in ToSet(arg)} \cap args[2] |-> first(arg, tag)[2]]
        /\ op = "compare" =>
             \/ ret = (old # MapOf(arg))
             \/ /\ ~(new.sorted /\ arg.sorted) /\ ~ret
                /\ \E tag \in DOMAIN old \ DOMAIN MapOf(arg) : old[tag] = NoValue

Told(k, op, args, before, new, ret) ==
  /\ MembersTold(k, op, args, before, new)
  /\ PlacedTold(op, args, before, new)
  /\ ReorderedTold(op, args, before, new, ret)
  /\ FreeTold(op, new, ret)
  /\ TagsTold(k, op, args, before, new, ret)

IInv ==
  /\ Holds(kind, obj)
  /\ \/ call = Idle
     \/ /\ DOMAIN call = {"op", "args", "before", "ret"}
        /\ Told(kind, call.op, call.args, call.before, obj, call.ret)

\* A call keeps the invariant if the list it leaves is one of its kind and does what the
\* properties say of it.
LEMMA Called ==
  ASSUME NEW k, NEW op, NEW args, NEW new, NEW ret, Calls(k, op, args, new, ret),
         Holds(kind', new), Told(kind', op, args, obj, new, ret)
  PROVE  IInv'
<1>1. obj' = new /\ call' = [op |-> op, args |-> args, before |-> obj, ret |-> ret]
  BY DEF Calls
<1>2. DOMAIN call' = {"op", "args", "before", "ret"}
  BY <1>1
<1>3. call'.op = op /\ call'.args = args /\ call'.before = obj /\ call'.ret = ret
  BY <1>1
<1>4. QED
  BY <1>1, <1>2, <1>3 DEF IInv

\* A call that leaves the kind of the list alone.
LEMMA OnIt ==
  ASSUME NEW k, NEW op, NEW args, NEW new, NEW ret, On(k, op, args, new, ret),
         Holds(k, new), Told(k, op, args, obj, new, ret)
  PROVE  IInv'
<1>1. Calls(k, op, args, new, ret) /\ kind' = k
  BY DEF On, Calls
<1>2. QED
  BY <1>1, Called

\* Most calls of number and string lists tell only what happens to the members,
\* those of link lists tell nothing, those of tag lists what happens to the map.
LEMMA OnlyMembers ==
  ASSUME NEW k, NEW op, NEW args, NEW before, NEW new, NEW ret,
         k # "tag", op \notin {"insert_at", "reorder", "get_free"},
         MembersTold(k, op, args, before, new)
  PROVE  Told(k, op, args, before, new, ret)
BY DEF Told, PlacedTold, ReorderedTold, FreeTold, TagsTold

\* The calls of tag lists tell only what happens to the map.
LEMMA OnlyMap ==
  ASSUME NEW op, NEW args, NEW before, NEW new, NEW ret,
         op \notin {"insert_at", "reorder", "get_free"},
         TagsTold("tag", op, args, before, new, ret)
  PROVE  Told("tag", op, args, before, new, ret)
BY DEF Told, PlacedTold, ReorderedTold, FreeTold, MembersTold

\* The invariant implies the properties.
LEMMA Implied ==
  IInv => TypeOK /\ NoDuplicates /\ Members /\ Placed /\ Reordered /\ FreeIsFree /\ TagsAreMap
<1> SUFFICES ASSUME IInv
             PROVE  TypeOK /\ NoDuplicates /\ Members /\ Placed /\ Reordered /\ FreeIsFree /\ TagsAreMap
  OBVIOUS
<1>1. Holds(kind, obj)
  BY DEF IInv
<1>2. TypeOK
  <2>1. call = Idle \/ DOMAIN call = {"op", "args", "before", "ret"}
    BY DEF IInv
  <2>2. CASE kind = "num"
    BY <1>1, <2>1, <2>2 DEF Holds, TypeOK, ListOf
  <2>3. CASE kind = "ip"
    BY <1>1, <2>1, <2>3 DEF Holds, TypeOK, ListOf
  <2>4. CASE kind = "link"
    <3>1. \A id \in LinkIds : obj[id] \in Made(FewStrings, FALSE)
      BY <1>1, <2>4 DEF Holds, Links, LinksOf
    <3>2. QED
      BY <2>1, <2>4, <3>1 DEF TypeOK, Made, ListOf
  <2>5. CASE kind = "tag"
    BY <1>1, <2>1, <2>5 DEF Holds, TypeOK, TagLists
  <2>6. QED
    BY <1>1, <2>2, <2>3, <2>4, <2>5 DEF Holds
<1>3. NoDuplicates
  <2>1. CASE kind = "num"
    BY <1>1, <2>1 DEF Holds, NoDuplicates, Unique
  <2>2. CASE kind = "ip"
    <3>1. obj.item \in Seq(Strings) /\ (~obj.multiple => \E k : DistinctBut(obj.item, k))
      BY <1>1, <2>2 DEF Holds, ListOf, Almost
    <3>2. ~obj.multiple => Len(obj.item) - Cardinality(ToSet(obj.item)) <= 1
      BY <3>1, OneToSpare
    <3>3. QED
      BY <2>2, <3>2 DEF NoDuplicates
  <2>3. CASE kind = "link"
    <3>1. \A id \in LinkIds : obj[id] \in Made(FewStrings, FALSE)
      BY <1>1, <2>3 DEF Holds, Links, LinksOf
    <3>2. QED
      BY <2>3, <3>1 DEF NoDuplicates, Made, Unique
  <2>4. CASE kind = "tag"
    BY <1>1, <2>4 DEF Holds, NoDuplicates, TagLists
  <2>5. QED
    BY <1>1, <2>1, <2>2, <2>3, <2>4 DEF Holds
<1>4. CASE call = Idle
  BY <1>2, <1>3, <1>4 DEF Members, Placed, Reordered, FreeIsFree, TagsAreMap, Idle
<1>5. CASE call # Idle
  <2>1. Told(kind, call.op, call.args, call.before, obj, call.ret)
    BY <1>5 DEF IInv
  <2>2. Members
    BY <2>1 DEF Told, Members, MembersTold, Unique
  <2>3. Placed
    BY <2>1 DEF Told, Placed, PlacedTold, PlacedAt
  <2>4. Reordered
    BY <2>1 DEF Told, Reordered, ReorderedTold
  <2>5. FreeIsFree
    BY <2>1 DEF Told, FreeIsFree, FreeTold
  <2>6. TagsAreMap
    BY <2>1 DEF Told, TagsAreMap, TagsTold
  <2>7. QED
    BY <1>2, <1>3, <2>2, <2>3, <2>4, <2>5, <2>6
<1>6. QED
  BY <1>4, <1>5

\* It holds before the first call.
LEMMA Initially == Init => IInv
<1> SUFFICES ASSUME Init
             PROVE  IInv
  OBVIOUS
<1>1. call = Idle
  BY DEF Init
<1>2. CASE kind \in {"num", "ip"} /\ obj \in {List(<<>>, FALSE), List(<<>>, TRUE)}
  <2>1. PICK m \in BOOLEAN : obj = List(<<>>, m)
    BY <1>2
  <2>2. /\ obj \in ListOf(Numbers) /\ obj \in ListOf(Strings)
        /\ Unique(obj) /\ Almost(obj) /\ obj.item = <<>>
    BY <2>1, EmptyList
  <2>3. Len(obj.item) <= MaxNumLen + MaxIpLen
    BY <2>2, ListsAssumption
  <2>4. QED
    BY <1>1, <1>2, <2>2, <2>3 DEF IInv, Holds
<1>3. CASE kind = "link" /\ obj = EmptyLink
  <2>1. <<>> \in Seq({0} \X Seq(FewStrings))
    OBVIOUS
  <2> DEFINE none == <<>>
  <2>2. none \in Seq({0} \X Seq(FewStrings))
    BY <2>1
  <2> HIDE DEF none
  <2>3. create_linkiplist(none) \in LinksOf(FewStrings)
    BY <2>2, CreatesLinks
  <2>4. QED
    BY <1>1, <1>3, <2>3 DEF Links, IInv, Holds, EmptyLink, none
<1>4. CASE kind = "tag" /\ obj = create_taglist
  <2>1. <<>> \in Seq(Items) /\ DOMAIN <<>> = {}
    OBVIOUS
  <2>2. create_taglist \in TagLists
    BY <2>1 DEF create_taglist, TagLists, OneItemEach
  <2>3. QED
    BY <1>1, <1>4, <2>2 DEF IInv, Holds
<1>5. QED
  BY <1>2, <1>3, <1>4 DEF Init

-----------------------------------------------------------------------------
(* reorder_numlist, what it says                                           *)

\* Behind the last item of the reference, or at the front.
LEMMA LastReference ==
  ASSUME NEW T, NEW items \in Seq(T), NEW ref \in ListOf(T)
  PROVE  LET p == ref_pos(items, ref)
             anchors == ToSet(ref.item)
         IN  /\ p \in 0 .. Len(items)
             /\ p = 0 \/ items[p] \in anchors
             /\ \A i \in 1 .. Len(items) : items[i] \in anchors => i <= p
<1> DEFINE found == {i \in DOMAIN items : exist_numlist(ref, items[i])}
           all == {0} \cup found
<1>1. Len(items) \in Nat /\ DOMAIN items = 1 .. Len(items) /\ ref.item \in Seq(T)
  BY DEF ListOf
<1>2. \A i \in DOMAIN items : i \in found <=> items[i] \in ToSet(ref.item)
  BY <1>1, ExistsMember DEF exist_numlist
<1>3. all \subseteq Int /\ all # {} /\ Len(items) \in Int /\ \A x \in all : x <= Len(items)
  BY <1>1
<1>4. found \subseteq 1 .. Len(items)
  BY <1>1
<1>5. ref_pos(items, ref) = Max(all)
  BY DEF ref_pos
<1> HIDE DEF found
<1>6. Max(all) \in all /\ \A y \in all : Max(all) >= y
  <2> HIDE DEF all
  <2>1. QED
    BY <1>3, MaxProps
<1> DEFINE p == Max(all)
<1>7. (p = 0 \/ p \in found) /\ \A i \in found : p >= i
  BY <1>6
<1> HIDE DEF p
<1>8. p \in 0 .. Len(items)
  <2>1. CASE p = 0
    BY <1>1, <2>1
  <2>2. CASE p \in found
    BY <1>1, <1>4, <2>2
  <2>3. QED
    BY <1>7, <2>1, <2>2
<1>9. p = 0 \/ items[p] \in ToSet(ref.item)
  BY <1>1, <1>2, <1>4, <1>7
<1>10. \A i \in 1 .. Len(items) : items[i] \in ToSet(ref.item) => i <= p
  <2>1. \A i \in 1 .. Len(items) : items[i] \in ToSet(ref.item) => p >= i
    BY <1>1, <1>2, <1>7
  <2>2. QED
    BY <1>8, <2>1
<1> HIDE DEF all
<1>11. QED
  BY <1>5, <1>8, <1>9, <1>10 DEF p

\* The three parts of the list.
LEMMA InsertedParts ==
  ASSUME NEW T, NEW rest \in Seq(T), NEW chain \in Seq(T), NEW p \in 0 .. Len(rest)
  PROVE  Inserted(rest, chain, p) = SubSeq(rest, 1, p) \o chain \o SubSeq(rest, p + 1, Len(rest))
<1> DEFINE R == Len(rest)
           C == Len(chain)
           a == SubSeq(rest, 1, p)
           c == SubSeq(rest, p + 1, R)
           ab == a \o chain
<1>1. R \in Nat /\ C \in Nat /\ p \in Nat /\ p <= R
  OBVIOUS
<1>2. a \in Seq(T) /\ Len(a) = p /\ \A i \in 1 .. p : a[i] = rest[i]
  BY <1>1
<1>3. c \in Seq(T) /\ Len(c) = R - p /\ \A i \in 1 .. R - p : c[i] = rest[i + p]
  BY <1>1
<1> HIDE DEF a, c
<1>4. /\ ab \in Seq(T) /\ Len(ab) = p + C
      /\ \A i \in 1 .. p + C : ab[i] = IF i <= p THEN rest[i] ELSE chain[i - p]
  <2>0. a \in Seq(T) /\ chain \in Seq(T)
    BY <1>2
  <2>1. /\ ab \in Seq(T) /\ Len(ab) = Len(a) + Len(chain)
        /\ \A i \in 1 .. Len(a) + Len(chain) : ab[i] = IF i <= Len(a) THEN a[i] ELSE chain[i - Len(a)]
    BY ONLY <2>0
  <2>2. Len(a) + Len(chain) = p + C
    BY <1>2
  <2> HIDE DEF ab
  <2>3. \A i \in 1 .. p + C : ab[i] = IF i <= p THEN a[i] ELSE chain[i - p]
    BY <1>2, <2>1, <2>2
  <2>4. \A i \in 1 .. p + C : i <= p => i \in 1 .. p
    BY <1>1
  <2>5. QED
    BY <1>2, <2>1, <2>2, <2>3, <2>4
<1> HIDE DEF ab
<1> DEFINE abc == ab \o c
<1>5. /\ abc \in Seq(T) /\ Len(abc) = R + C
      /\ \A i \in 1 .. R + C : abc[i] = IF i <= p + C THEN ab[i] ELSE c[i - (p + C)]
  <2>0. ab \in Seq(T) /\ c \in Seq(T)
    BY <1>3, <1>4
  <2>1. /\ abc \in Seq(T) /\ Len(abc) = Len(ab) + Len(c)
        /\ \A i \in 1 .. Len(ab) + Len(c) : abc[i] = IF i <= Len(ab) THEN ab[i] ELSE c[i - Len(ab)]
    BY ONLY <2>0
  <2>2. Len(ab) + Len(c) = R + C
    BY <1>1, <1>3, <1>4
  <2> HIDE DEF abc
  <2>3. QED
    BY <1>4, <2>1, <2>2
<1> HIDE DEF abc
<1>6. abc = Inserted(rest, chain, p)
  <2>1. ASSUME NEW i \in 1 .. R + C
        PROVE  abc[i] = IF i <= p THEN rest[i] ELSE IF i <= p + C THEN chain[i - p] ELSE rest[i - C]
    <3>1. CASE i <= p
      <4>1. i \in 1 .. p + C /\ i <= p + C
        BY <1>1, <3>1
      <4>2. QED
        BY <1>4, <1>5, <3>1, <4>1
    <3>2. CASE ~(i <= p) /\ i <= p + C
      <4>1. i \in 1 .. p + C
        BY <1>1, <3>2
      <4>2. QED
        BY <1>4, <1>5, <3>2, <4>1
    <3>3. CASE ~(i <= p) /\ ~(i <= p + C)
      <4>1. i - (p + C) \in 1 .. R - p /\ (i - (p + C)) + p = i - C
        BY <1>1, <3>3
      <4>2. c[i - (p + C)] = rest[i - C]
        BY <1>3, <4>1
      <4>3. QED
        BY <1>5, <3>3, <4>2
    <3>4. QED
      BY <3>1, <3>2, <3>3
  <2>2. abc = [i \in 1 .. R + C |-> abc[i]]
    BY <1>5
  <2>3. QED
    BY <2>1, <2>2 DEF Inserted
<1>7. QED
  BY <1>6 DEF abc, ab, a, c

\* reorder_numlist does what Reordered says.
LEMMA ReordersRight ==
  ASSUME NEW T, NEW list \in ListOf(T), NEW fragment \in ListOf(T), NEW ref \in ListOf(T),
         Unique(list), NEW args, args[1] = fragment, args[2] = ref
  PROVE  ReorderedTold("reorder", args, list, reorder_numlist(list, fragment, ref),
                       IF reorder_fails(list, fragment, ref) THEN 0 ELSE 1)
<1> DEFINE fails == reorder_fails(list, fragment, ref)
           new == reorder_numlist(list, fragment, ref)
           chain == Chain(list, fragment)
           moved == chain.item
           rest == except_numlist(list, chain)
           others == Dropping(list.item, ToSet(moved))
           anchors == ToSet(ref.item)
           p == ref_pos(rest.item, ref)
<1>1. /\ chain \in ListOf(T) /\ IsInjective(moved)
      /\ ToSet(moved) = ToSet(fragment.item) \cap ToSet(list.item)
  BY Chains
<1>2. moved \in Seq(T) /\ list.item \in Seq(T) /\ ref.item \in Seq(T)
  BY <1>1 DEF ListOf
<1> HIDE DEF chain
<1>3. rest.item = others
  <2> DEFINE S == {x \in ToSet(list.item) : exist_numlist(chain, x) # FALSE}
  <2>1. rest = [list EXCEPT !.item = Dropping(list.item, S)]
    BY DEF except_numlist, yinyan_numlist
  <2>2. \A x : exist_numlist(chain, x) <=> x \in ToSet(moved)
    BY <1>2, ExistsMember DEF exist_numlist
  <2>3. S = ToSet(moved)
    <3>1. S = {x \in ToSet(list.item) : exist_numlist(chain, x)}
      BY DEF exist_numlist
    <3>2. QED
      BY <1>1, <2>2, <3>1
  <2> HIDE DEF S, rest
  <2>4. rest.item = Dropping(list.item, S)
    BY <2>1 DEF ListOf
  <2>5. QED
    BY <2>3, <2>4
<1>4. ToSet(rest.item) = ToSet(list.item) \ ToSet(moved) /\ rest \in ListOf(T)
  <2>1. Thinned(T, list, rest) /\ ToSet(rest.item) = ToSet(list.item) \ ToSet(chain.item)
    BY <1>1, Excepts
  <2> HIDE DEF rest
  <2>2. QED
    BY <2>1 DEF Thinned
<1>5. rest.item \in Seq(T)
  BY <1>4 DEF ListOf
<1> HIDE DEF rest
<1>6. /\ fails => new = list
      /\ ~fails => new.item = Inserted(rest.item, moved, p) /\ p \in 0 .. Len(rest.item)
  BY Reorders DEF chain, rest
<1>7. /\ p \in 0 .. Len(rest.item)
      /\ p = 0 \/ rest.item[p] \in anchors
      /\ \A i \in 1 .. Len(rest.item) : rest.item[i] \in anchors => i <= p
  BY <1>5, LastReference
<1>8. ASSUME ~fails, moved # <<>>, anchors # {}
      PROVE  p > 0
  <2>1. ref.item # <<>>
    BY <1>8, EmptyList
  <2>2. /\ ~ \E i \in DOMAIN ref.item : exist_numlist(chain, ref.item[i])
        /\ \E i \in DOMAIN ref.item : exist_numlist(list, ref.item[i])
    BY <1>8, <2>1 DEF reorder_fails, chain
  <2>3. PICK i \in DOMAIN ref.item : exist_numlist(list, ref.item[i]) /\ ~exist_numlist(chain, ref.item[i])
    BY <2>2
  <2>4. ref.item[i] \in ToSet(list.item) /\ ref.item[i] \notin ToSet(moved) /\ ref.item[i] \in anchors
    BY <1>2, <2>3, ExistsMember, ToSetProps DEF exist_numlist
  <2>5. ref.item[i] \in ToSet(rest.item)
    BY <1>4, <2>4
  <2>6. PICK k \in 1 .. Len(rest.item) : rest.item[k] = ref.item[i]
    BY <1>5, <2>5, ToSetProps
  <2> HIDE DEF p
  <2>7. k <= p /\ k >= 1 /\ p \in Int /\ k \in Int
    BY <1>5, <1>7, <2>4, <2>6
  <2>8. QED
    BY <2>7
<1> HIDE DEF fails, new, p, anchors, others
<1>9. fails => new = list
  BY <1>6
<1>10. ASSUME ~fails, moved # <<>>
       PROVE  \E q \in 0 .. Len(others) :
                /\ new.item = SubSeq(others, 1, q) \o moved \o SubSeq(others, q + 1, Len(others))
                /\ IF anchors = {} THEN q = 0 ELSE q > 0 /\ others[q] \in anchors
                /\ \A i \in q + 1 .. Len(others) : others[i] \notin anchors
  <2>1. others \in Seq(T) /\ p \in 0 .. Len(others) /\ Len(others) \in Nat
    BY <1>3, <1>5, <1>7
  <2>2. new.item = SubSeq(others, 1, p) \o moved \o SubSeq(others, p + 1, Len(others))
    BY <1>2, <1>3, <1>6, <1>10, <2>1, InsertedParts
  <2>3. IF anchors = {} THEN p = 0 ELSE p > 0 /\ others[p] \in anchors
    BY <1>3, <1>7, <1>8, <1>10, <2>1
  <2>4. \A i \in p + 1 .. Len(others) : others[i] \notin anchors
    <3>1. \A i \in p + 1 .. Len(others) : i \in 1 .. Len(others) /\ ~(i <= p)
      BY <2>1
    <3>2. QED
      BY <1>3, <1>7, <3>1
  <2>5. QED
    BY <2>1, <2>2, <2>3, <2>4
<1> DEFINE ret == IF fails THEN 0 ELSE 1
<1>11. (ret = 0 => fails) /\ (ret = 1 => ~fails)
  OBVIOUS
<1>12. Chain(list, args[1]).item = moved /\ ToSet(args[2].item) = anchors
  BY DEF chain, anchors
<1> HIDE DEF ret
<1>13. ReorderedTold("reorder", args, list, new, ret)
  <2> DEFINE Right ==
        \E q \in 0 .. Len(others) :
                /\ new.item = SubSeq(others, 1, q) \o moved \o SubSeq(others, q + 1, Len(others))
                /\ IF anchors = {} THEN q = 0 ELSE q > 0 /\ others[q] \in anchors
                /\ \A i \in q + 1 .. Len(others) : others[i] \notin anchors
  <2>1. (ret = 0 => new = list) /\ (ret = 1 /\ moved # <<>> => Right)
    BY <1>9, <1>10, <1>11
  <2>2. ReorderedTold("reorder", args, list, new, ret) <=>
          (ret = 0 => new = list) /\ (ret = 1 /\ moved # <<>> => Right)
    <3>1. Dropping(list.item, ToSet(moved)) = others
      BY DEF others
    <3> HIDE DEF moved
    <3>2. QED
      BY <1>12, <3>1 DEF ReorderedTold
  <2>3. QED
    BY <2>1, <2>2
<1>14. QED
  BY <1>13 DEF new, ret, fails

-----------------------------------------------------------------------------
(* get_free_numlist                                                        *)

\* One turn of the loop that marks the slots.
Mark(n, map, num) == IF num + 1 < n + 2 THEN [map EXCEPT ![num] = map[num + 1] + 1] ELSE map

Maps(n) == [0 .. n + 1 -> Nat]

MarkStep(items) ==
  [p \in Maps(Len(items)) \X (1 .. Len(items)) |-> Mark(Len(items), p[1], items[p[2]])]

MarkFold(items, f) ==
  f = [S \in SUBSET DOMAIN items |->
         IF S = {} THEN [v \in 0 .. Len(items) + 1 |-> 0]
         ELSE Mark(Len(items), f[S \ {Min(S)}], items[Min(S)])]

\* From every slot the steps lead over numbers of S, of which the small ones are marked.
Marked(n, S, map) ==
  /\ map \in Maps(n)
  /\ \A v \in 0 .. n + 1 : v + map[v] <= n + 1 /\ \A j \in v .. v + map[v] - 1 : j \in S
  /\ \A num \in S : num <= n => map[num] > 0

\* Marking one more number keeps this.
LEMMA MarkTurn ==
  ASSUME NEW n \in Nat, NEW S, S \subseteq Nat, NEW num \in Nat, NEW map, Marked(n, S, map)
  PROVE  Marked(n, S \cup {num}, Mark(n, map, num))
<1> DEFINE new == Mark(n, map, num)
<1>1. CASE ~(num + 1 < n + 2)
  <2>1. new = map /\ ~(num <= n)
    BY <1>1 DEF Mark
  <2> HIDE DEF new
  <2>2. \A k \in S \cup {num} : k <= n => k \in S
    BY <2>1
  <2>3. QED
    BY <2>1, <2>2 DEF Marked, new
<1>2. CASE num + 1 < n + 2
  <2>1. new = [map EXCEPT ![num] = map[num + 1] + 1] /\ num <= n
    BY <1>2 DEF Mark
  <2>2. num \in 0 .. n + 1 /\ num + 1 \in 0 .. n + 1 /\ map \in [0 .. n + 1 -> Nat]
    BY <1>2 DEF Marked, Maps
  <2>3. /\ new \in [0 .. n + 1 -> Nat] /\ new[num] = map[num + 1] + 1
        /\ \A v \in 0 .. n + 1 : v # num => new[v] = map[v]
    BY <2>1, <2>2
  <2> HIDE DEF new
  <2>4. /\ \A v \in 0 .. n + 1 : v + map[v] <= n + 1 /\ \A j \in v .. v + map[v] - 1 : j \in S
        /\ \A k \in S : k <= n => map[k] > 0
    BY DEF Marked
  <2>5. ASSUME NEW v \in 0 .. n + 1
        PROVE  v + new[v] <= n + 1 /\ \A j \in v .. v + new[v] - 1 : j \in S \cup {num}
    <3>1. CASE v # num
      <4>1. new[v] = map[v]
        BY <2>3, <3>1
      <4>2. QED
        BY <2>4, <4>1
    <3>2. CASE v = num
      <4> DEFINE m == map[num + 1]
      <4>1. m \in Nat /\ new[v] = m + 1
        BY <2>2, <2>3, <3>2
      <4>2. (num + 1) + m <= n + 1 /\ \A j \in num + 1 .. (num + 1) + m - 1 : j \in S
        BY <2>2, <2>4
      <4> HIDE DEF m
      <4>3. \A j \in v .. v + new[v] - 1 : j = num \/ j \in num + 1 .. (num + 1) + m - 1
        BY <3>2, <4>1
      <4>4. QED
        BY <3>2, <4>1, <4>2, <4>3
    <3>3. QED
      BY <3>1, <3>2
  <2>6. ASSUME NEW k \in S \cup {num}, k <= n
        PROVE  new[k] > 0
    <3>1. CASE k = num
      BY <2>2, <2>3, <3>1
    <3>2. CASE k # num
      <4>1. k \in S /\ map[k] > 0
        BY <2>4, <2>6, <3>2
      <4>2. k \in 0 .. n + 1
        BY <2>6, <4>1
      <4>3. QED
        BY <2>3, <3>2, <4>1, <4>2
    <3>3. QED
      BY <3>1, <3>2
  <2>7. QED
    BY <2>3, <2>5, <2>6 DEF Marked, Maps, new
<1>3. QED
  BY <1>1, <1>2

\* The map of a list.
LEMMA MapMade ==
  ASSUME NEW items \in Seq(Numbers)
  PROVE  Marked(Len(items), ToSet(items), UsageMap(items))
<1> DEFINE n == Len(items)
           A == Maps(n)
           base == [v \in 0 .. n + 1 |-> 0]
           step == MarkStep(items)
           it == CHOOSE f : MarkFold(items, f)
           Later(m) == {items[i] : i \in m .. n}
           G == [m \in 1 .. n + 1 |-> {map \in A : Marked(n, Later(m), map)}]
<1>1. n \in Nat /\ DOMAIN items = 1 .. n /\ \A m \in 1 .. n : items[m] \in Nat
  <2>1. n \in Nat /\ DOMAIN items = 1 .. n /\ \A m \in 1 .. n : items[m] \in Numbers
    OBVIOUS
  <2>2. QED
    BY <2>1, NumbersAreNat
<1>2. UsageMap(items) = it[DOMAIN items]
  BY DEF UsageMap, FoldRight, MapThenFoldSet, MarkFold, Mark
<1>3. base \in A
  BY DEF Maps
<1>4. \A m \in 1 .. n + 1 : Later(m) \subseteq Nat
  BY <1>1
<1>5. ASSUME NEW a \in A, NEW m \in 1 .. n
      PROVE  Mark(n, a, items[m]) \in A /\ step[<<a, m>>] = Mark(n, a, items[m])
  <2> DEFINE num == items[m]
  <2>1. num \in Nat
    BY <1>1
  <2>2. step[<<a, m>>] = Mark(n, a, num)
    BY <1>1 DEF MarkStep
  <2> HIDE DEF num
  <2>3. Mark(n, a, num) \in A
    BY <1>1, <2>1, SMTT(60) DEF Mark, Maps
  <2>4. QED
    BY <2>2, <2>3 DEF num
<1>6. Steps(A, n, base, step)
  <2>1. step \in [A \X (1 .. n) -> A]
    BY <1>1, <1>5 DEF MarkStep
  <2>2. QED
    BY <1>1, <1>3, <2>1 DEF Steps
<1>7. base \in G[n + 1]
  <2>1. n + 1 \in 1 .. n + 1 /\ Later(n + 1) = {}
    BY <1>1
  <2>2. Marked(n, {}, base)
    BY <1>1, <1>3 DEF Marked, Maps
  <2>3. QED
    BY <1>3, <2>1, <2>2
<1>8. ASSUME NEW m \in 1 .. n, NEW a \in A, a \in G[m + 1]
      PROVE  step[<<a, m>>] \in G[m]
  <2> DEFINE k == m + 1
             num == items[m]
             S == Later(k)
             new == Mark(n, a, num)
  <2>1. k \in 1 .. n + 1 /\ m \in 1 .. n + 1 /\ num \in Nat
    BY <1>1
  <2>2. Marked(n, S, a) /\ S \subseteq Nat
    BY <1>4, <1>8, <2>1
  <2>3. S \cup {num} = Later(m)
    <3>1. \A i \in m .. n : i = m \/ i \in k .. n
      BY <1>1
    <3>2. m \in m .. n /\ \A i \in k .. n : i \in m .. n
      BY <1>1
    <3>3. QED
      BY <3>1, <3>2
  <2> HIDE DEF S
  <2>4. Marked(n, S \cup {num}, new)
    <3> HIDE DEF num
    <3>1. n \in Nat /\ num \in Nat
      BY <1>1, <2>1
    <3> HIDE DEF n
    <3>2. QED
      BY <2>2, <3>1, MarkTurn
  <2>5. new \in A /\ step[<<a, m>>] = new
    BY <1>5
  <2> HIDE DEF new, step
  <2>6. QED
    BY <2>1, <2>3, <2>4, <2>5
<1> HIDE DEF A, step, base, it
<1>9. PICK f : f = [S \in SUBSET (1 .. n) |-> f[S]] /\ RightFold(A, n, base, step, f)
  BY <1>6, RightFolds
<1>10. MarkFold(items, it)
  <2>1. ASSUME NEW S \in SUBSET (1 .. n)
        PROVE  f[S] = IF S = {} THEN base ELSE Mark(n, f[S \ {Min(S)}], items[Min(S)])
    <3>1. CASE S = {}
      BY <1>9, <3>1 DEF RightFold
    <3>2. CASE S # {}
      <4> DEFINE k == Min(S)
                 a == f[S \ {k}]
      <4>1. k \in 1 .. n /\ a \in A /\ f[S] = step[<<a, k>>]
        BY <1>9, <3>2 DEF RightFold
      <4> HIDE DEF k, a
      <4>2. f[S] = Mark(n, a, items[k])
        BY <1>5, <4>1
      <4>3. QED
        BY <3>2, <4>2 DEF k, a
    <3>3. QED
      BY <3>1, <3>2
  <2>2. MarkFold(items, f)
    BY <1>1, <1>9, <2>1 DEF MarkFold, base
  <2>3. QED
    BY <2>2 DEF it
<1>11. RightRun(A, n, base, step, it)
  <2>1. ASSUME NEW S \in SUBSET (1 .. n)
        PROVE  IF S = {} THEN it[S] = base
                         ELSE Min(S) \in 1 .. n /\ it[S \ {Min(S)}] \in A =>
                                it[S] = step[<<it[S \ {Min(S)}], Min(S)>>]
    <3> DEFINE k == Min(S)
               a == it[S \ {k}]
    <3>1. it[S] = IF S = {} THEN base ELSE Mark(n, a, items[k])
      BY <1>1, <1>10 DEF MarkFold, base
    <3> HIDE DEF k, a
    <3>2. S # {} /\ k \in 1 .. n /\ a \in A => it[S] = step[<<a, k>>]
      BY <1>5, <3>1
    <3>3. QED
      BY <3>1, <3>2 DEF k, a
  <2>2. QED
    BY <1>6, <2>1, RightRuns
<1>12. it[1 .. n] \in G[1]
  <2>1. n \in Nat
    BY <1>1
  <2> HIDE DEF n, G
  <2>2. QED
    BY <1>7, <1>8, <1>11, <2>1, RightRunKeeps
<1>13. Later(1) = ToSet(items)
  BY <1>1 DEF ToSet
<1>14. 1 \in 1 .. n + 1
  BY <1>1
<1>15. Marked(n, ToSet(items), it[1 .. n])
  BY <1>12, <1>13, <1>14
<1>16. QED
  BY <1>1, <1>2, <1>15

\* The walk over occupied slots.
Walks(n, map, f) == f = [i \in Nat |-> IF i < n + 2 /\ map[i] > 0 THEN f[i + map[i]] ELSE i]

\* The recursive function of the walk exists: every step goes up.
LEMMA WalkExists ==
  ASSUME NEW n \in Nat, NEW map \in Maps(n)
  PROVE  \E f : Walks(n, map, f)
<1> DEFINE Goes(f, i) == f[i] = IF i < n + 2 /\ map[i] > 0 THEN f[i + map[i]] ELSE i
           From(m) == {i \in Nat : i >= n + 2 - m}
           G == {m \in 0 .. n + 2 : \E f : \A i \in From(m) : Goes(f, i)}
<1>1. 0 \in G
  <2> DEFINE f == [i \in Nat |-> i]
  <2>1. \A i \in From(0) : f[i] = i /\ ~(i < n + 2)
    OBVIOUS
  <2> HIDE DEF f
  <2>2. \A i \in From(0) : Goes(f, i)
    BY <2>1
  <2> HIDE DEF From, Goes
  <2>3. QED
    BY <2>2
<1>2. ASSUME NEW m \in 1 .. n + 2, m - 1 \in G
      PROVE  m \in G
  <2> DEFINE k == n + 2 - m
  <2>1. PICK f : \A i \in From(m - 1) : Goes(f, i)
    BY <1>2
  <2>2. k \in 0 .. n + 1 /\ k \in Nat
    OBVIOUS
  <2> DEFINE g == [i \in Nat |-> IF i = k THEN IF map[k] > 0 THEN f[k + map[k]] ELSE k ELSE f[i]]
  <2>3. \A i \in Nat : i # k => g[i] = f[i]
    OBVIOUS
  <2>4. g[k] = IF map[k] > 0 THEN f[k + map[k]] ELSE k
    BY <2>2
  <2> HIDE DEF g
  <2>5. map[k] \in Nat
    BY <2>2 DEF Maps
  <2>6. ASSUME NEW i \in From(m)
        PROVE  Goes(g, i)
    <3>1. CASE i = k
      <4>1. map[k] > 0 => k + map[k] \in Nat /\ k + map[k] # k
        BY <2>2, <2>5
      <4>2. map[k] > 0 => g[k + map[k]] = f[k + map[k]]
        BY <2>3, <4>1
      <4>3. k < n + 2
        BY <2>2
      <4> HIDE DEF k
      <4>4. QED
        BY <2>4, <3>1, <4>2, <4>3
    <3>2. CASE i # k
      <4>1. i \in From(m - 1) /\ i \in Nat /\ i > k
        BY <3>2
      <4>2. Goes(f, i)
        BY <2>1, <4>1
      <4>3. i < n + 2 /\ map[i] > 0 => i + map[i] \in Nat /\ i + map[i] # k
        <5>1. i < n + 2 => map[i] \in Nat
          BY <4>1 DEF Maps
        <5>2. QED
          BY <2>2, <4>1, <5>1
      <4> HIDE DEF k
      <4>4. QED
        BY <2>3, <3>2, <4>1, <4>2, <4>3
    <3>3. QED
      BY <3>1, <3>2
  <2> HIDE DEF Goes, From
  <2>7. \E h : \A i \in From(m) : Goes(h, i)
    BY <2>6
  <2>8. m \in 0 .. n + 2
    OBVIOUS
  <2>9. QED
    BY <2>7, <2>8
<1>3. n + 2 \in G
  <2> DEFINE N == n + 2
  <2>1. N \in Nat
    OBVIOUS
  <2> HIDE DEF N, G
  <2>2. 0 \in G /\ \A m \in 1 .. N : m - 1 \in G => m \in G
    BY <1>1, <1>2 DEF N
  <2>3. \A m \in 0 .. N : m \in G
    BY <2>1, <2>2, UpTo
  <2>4. QED
    BY <2>1, <2>3 DEF N
<1>4. PICK f : \A i \in From(n + 2) : Goes(f, i)
  BY <1>3
<1>5. \A i \in Nat : Goes(f, i)
  <2>1. \A i \in Nat : i \in From(n + 2)
    OBVIOUS
  <2>2. QED
    BY <1>4, <2>1
<1> DEFINE h == [i \in Nat |-> f[i]]
<1>6. ASSUME NEW i \in Nat
      PROVE  Goes(h, i)
  <2>1. i < n + 2 => map[i] \in Nat
    BY DEF Maps
  <2>2. i < n + 2 /\ map[i] > 0 => h[i + map[i]] = f[i + map[i]]
    BY <2>1
  <2>3. h[i] = f[i]
    OBVIOUS
  <2> HIDE DEF h
  <2>4. QED
    BY <1>5, <2>2, <2>3
<1>7. h = [i \in Nat |-> IF i < n + 2 /\ map[i] > 0 THEN h[i + map[i]] ELSE i]
  <2>1. h = [i \in Nat |-> h[i]]
    OBVIOUS
  <2> HIDE DEF h
  <2>2. QED
    BY <1>6, <2>1
<1>8. QED
  BY <1>7 DEF Walks

\* The walk ends at a number that is not on the list.
LEMMA Free ==
  ASSUME NEW list \in ListOf(Numbers)
  PROVE  FreeTold("get_free", list, get_free_numlist(list))
<1> DEFINE items == list.item
           n == Len(items)
           S == ToSet(items)
           map == UsageMap(items)
           walk == CHOOSE f : Walks(n, map, f)
           G == {m \in 0 .. n : \A i \in 1 .. n + 1 :
                   i >= n + 1 - m /\ (1 .. i - 1) \subseteq S =>
                     walk[i] \in 1 .. n + 1 /\ walk[i] \notin S}
<1>1. items \in Seq(Numbers)
  BY DEF ListOf
<1>2. n \in Nat
  BY <1>1
<1>3. Marked(n, S, map)
  BY <1>1, MapMade
<1>4. get_free_numlist(list) = walk[1]
  BY DEF get_free_numlist, Walks
<1> HIDE DEF map
<1>5. Walks(n, map, walk)
  <2>1. map \in Maps(n)
    BY <1>3 DEF Marked
  <2> HIDE DEF n
  <2>2. \E f : Walks(n, map, f)
    BY <1>2, <2>1, WalkExists
  <2>3. QED
    BY <2>2
<1> HIDE DEF walk
<1>6. \A i \in 1 .. n + 1 : walk[i] = IF map[i] > 0 THEN walk[i + map[i]] ELSE i
  BY <1>2, <1>5 DEF Walks
<1>7. ~((1 .. n + 1) \subseteq S)
  <2> SUFFICES ASSUME (1 .. n + 1) \subseteq S
               PROVE  FALSE
    OBVIOUS
  <2> DEFINE at == [v \in 1 .. n + 1 |-> CHOOSE i \in 1 .. n : items[i] = v]
             m == n + 1
  <2>1. \A v \in 1 .. n + 1 : \E i \in 1 .. n : items[i] = v
    BY <1>1, ToSetProps
  <2>2. \A v \in 1 .. n + 1 : at[v] \in 1 .. n /\ items[at[v]] = v
    BY <2>1
  <2>3. at \in [1 .. n + 1 -> 1 .. n]
    BY <2>1
  <2> HIDE DEF at
  <2>4. \A v, w \in 1 .. n + 1 : at[v] = at[w] => v = w
    <3>1. \A v, w \in 1 .. n + 1 : at[v] = at[w] => items[at[v]] = v /\ items[at[w]] = w
      BY <2>2
    <3>2. QED
      BY <3>1
  <2>5. at \in Injection(1 .. m, 1 .. n) /\ m \in Nat
    BY <1>2, <2>3, <2>4 DEF Injection, IsInjective
  <2> HIDE DEF m, n
  <2>6. m <= n
    BY <1>2, <2>5, Pigeonhole
  <2>7. QED
    BY <1>2, <2>6 DEF m
<1>8. S \subseteq Nat
  BY <1>1, NumbersAreNat, ToSetProps
<1> HIDE DEF n, S, items
<1>9. /\ map \in [0 .. n + 1 -> Nat]
      /\ \A v \in 0 .. n + 1 : v + map[v] <= n + 1 /\ \A j \in v .. v + map[v] - 1 : j \in S
      /\ \A num \in S : num <= n => map[num] > 0
  BY <1>3 DEF Marked, Maps
<1>10. ASSUME NEW i \in 1 .. n + 1, (1 .. i - 1) \subseteq S, ~(map[i] > 0)
       PROVE  walk[i] \in 1 .. n + 1 /\ walk[i] \notin S
  <2>1. walk[i] = i
    BY <1>6, <1>10
  <2>2. i \notin S
    <3>1. CASE i <= n
      BY <1>9, <1>10, <3>1
    <3>2. CASE ~(i <= n)
      <4>1. i = n + 1
        BY <1>2, <3>2
      <4>2. i \in S => (1 .. n + 1) \subseteq S
        BY <1>2, <1>10, <4>1
      <4>3. QED
        BY <1>7, <4>2
    <3>3. QED
      BY <3>1, <3>2
  <2>3. QED
    BY <2>1, <2>2
<1>11. ASSUME NEW i \in 1 .. n + 1, (1 .. i - 1) \subseteq S, map[i] > 0,
              NEW k, k = i + map[i]
       PROVE  k \in 1 .. n + 1 /\ k > i /\ (1 .. k - 1) \subseteq S
  <2>1. i \in 0 .. n + 1
    BY <1>2
  <2> DEFINE m == map[i]
  <2>2. m \in Nat /\ m > 0 /\ i + m <= n + 1 /\ \A j \in i .. i + m - 1 : j \in S
    BY <1>9, <1>11, <2>1
  <2> HIDE DEF m
  <2>3. \A j \in 1 .. i + m - 1 : j \in 1 .. i - 1 \/ j \in i .. i + m - 1
    BY <2>2
  <2>4. (1 .. i + m - 1) \subseteq S
    BY <1>11, <2>2, <2>3
  <2>5. k = i + m
    BY <1>11 DEF m
  <2>6. QED
    BY <1>2, <2>2, <2>4, <2>5
<1>12. 0 \in G
  <2>1. ASSUME NEW i \in 1 .. n + 1, i >= n + 1 - 0, (1 .. i - 1) \subseteq S
        PROVE  walk[i] \in 1 .. n + 1 /\ walk[i] \notin S
    <3>1. i = n + 1
      BY <1>2, <2>1
    <3>2. ~(map[i] > 0)
      <4> DEFINE k == i + map[i]
      <4>0. k = i + map[i]
        OBVIOUS
      <4> HIDE DEF k
      <4>1. map[i] > 0 => k \in 1 .. n + 1 /\ k > i
        BY <1>11, <2>1, <4>0
      <4>2. QED
        BY <1>2, <3>1, <4>1
    <3>3. QED
      BY <1>10, <2>1, <3>2
  <2>2. 0 \in 0 .. n
    BY <1>2
  <2>3. QED
    BY <2>1, <2>2
<1>13. ASSUME NEW m \in 1 .. n, m - 1 \in G
       PROVE  m \in G
  <2>1. ASSUME NEW i \in 1 .. n + 1, i >= n + 1 - m, (1 .. i - 1) \subseteq S
        PROVE  walk[i] \in 1 .. n + 1 /\ walk[i] \notin S
    <3>1. CASE ~(map[i] > 0)
      BY <1>10, <2>1, <3>1
    <3>2. CASE map[i] > 0
      <4> DEFINE k == i + map[i]
      <4>0. k = i + map[i]
        OBVIOUS
      <4> HIDE DEF k
      <4>1. k \in 1 .. n + 1 /\ k > i /\ (1 .. k - 1) \subseteq S
        BY <1>11, <2>1, <3>2, <4>0
      <4>2. walk[i] = walk[k]
        BY <1>6, <3>2, <4>0
      <4>3. k >= n + 1 - (m - 1)
        BY <1>2, <2>1, <4>1
      <4>4. walk[k] \in 1 .. n + 1 /\ walk[k] \notin S
        BY <1>13, <4>1, <4>3
      <4>5. QED
        BY <4>2, <4>4
    <3>3. QED
      BY <3>1, <3>2
  <2>2. m \in 0 .. n
    BY <1>2
  <2>3. QED
    BY <2>1, <2>2
<1>14. n \in G
  <2> HIDE DEF G
  <2>1. \A m \in 0 .. n : m \in G
    BY <1>2, <1>12, <1>13, UpTo
  <2>2. QED
    BY <1>2, <2>1
<1>15. walk[1] \in 1 .. n + 1 /\ walk[1] \notin S
  <2>1. 1 \in 1 .. n + 1 /\ 1 >= n + 1 - n /\ (1 .. 1 - 1) \subseteq S
    BY <1>2
  <2>2. QED
    BY <1>14, <2>1
<1>16. exist_numlist(list, walk[1]) <=> walk[1] \in S
  BY <1>1, ExistsMember DEF exist_numlist, S, items
<1>17. QED
  BY <1>4, <1>15, <1>16 DEF FreeTold, n, items

-----------------------------------------------------------------------------
(* Number lists, call by call                                              *)

\* What the invariant says when a number list is called.
NumCalled == IInv /\ kind = "num"

\* What it says of the number list.
LEMMA NumHeld ==
  ASSUME NumCalled
  PROVE  /\ obj \in ListOf(Numbers) /\ Unique(obj) /\ Len(obj.item) \in Nat
         /\ Len(obj.item) <= MaxNumLen + MaxIpLen
         /\ obj.multiple \in BOOLEAN /\ obj.item \in Seq(Numbers)
<1>1. obj \in ListOf(Numbers) /\ Unique(obj) /\ Len(obj.item) <= MaxNumLen + MaxIpLen
  BY DEF NumCalled, IInv, Holds
<1>2. obj.item \in Seq(Numbers) /\ obj.multiple \in BOOLEAN
  BY <1>1 DEF ListOf
<1>3. Len(obj.item) \in Nat
  BY <1>2
<1>4. QED
  BY <1>1, <1>2, <1>3

\* A list no longer than the one before, or one that Fits, is short enough.
LEMMA NumHolds ==
  ASSUME NumCalled, NEW new \in ListOf(Numbers), Unique(new),
         \/ Len(new.item) <= Len(obj.item)
         \/ Len(new.item) <= MaxNumLen
  PROVE  Holds("num", new)
<1>1. Len(obj.item) \in Nat /\ Len(obj.item) <= MaxNumLen + MaxIpLen
  BY NumHeld
<1>2. new.item \in Seq(Numbers)
  BY DEF ListOf
<1>3. Len(new.item) \in Nat /\ MaxNumLen \in Nat /\ MaxIpLen \in Nat
  BY <1>2, ListsAssumption
<1>4. Len(new.item) <= MaxNumLen + MaxIpLen
  BY <1>1, <1>3
<1>5. QED
  BY <1>4 DEF Holds

\* A call that tells only what happens to the members.
LEMMA NumEasy ==
  ASSUME NumCalled, NEW op, NEW args, NEW new, NEW ret, On("num", op, args, new, ret),
         op \notin {"insert_at", "reorder", "get_free"},
         new \in ListOf(Numbers), Unique(new),
         \/ Len(new.item) <= Len(obj.item)
         \/ Len(new.item) <= MaxNumLen,
         MembersTold("num", op, args, obj, new)
  PROVE  IInv'
<1>1. Holds("num", new)
  BY NumHolds
<1>2. Told("num", op, args, obj, new, ret)
  BY OnlyMembers
<1>3. QED
  BY <1>1, <1>2, OnIt

\* create_numlist.
LEMMA NumCreates == NumCalled /\ NumCreate => IInv'
<1> SUFFICES ASSUME NumCalled, NumCreate
             PROVE  IInv'
  OBVIOUS
<1>1. PICK w \in Words, m \in BOOLEAN : On("num", "create", <<w>>, create_numlist(w, m), 1)
  BY DEF NumCreate
<1> DEFINE new == create_numlist(w, m)
           args == <<w>>
<1>2. w \in Seq(Numbers \cup {-1}) /\ Len(w) <= MaxNumLen + MaxIpLen
  BY Arguments
<1>3. new \in ListOf(Numbers) /\ Unique(new) /\ Len(new.item) <= Len(w)
  BY <1>2, CreatesNumbers
<1>4. Len(w) \in Nat /\ new.item \in Seq(Numbers) /\ MaxNumLen + MaxIpLen \in Nat
  BY <1>2, <1>3, ListsAssumption DEF ListOf
<1> HIDE DEF new, args
<1>5. Holds("num", new)
  BY <1>2, <1>3, <1>4 DEF Holds
<1>6. Told("num", "create", args, obj, new, 1)
  BY OnlyMembers DEF MembersTold
<1>7. QED
  BY <1>1, <1>5, <1>6, OnIt DEF new, args

\* insert_numlist.
LEMMA NumInserts == NumCalled /\ NumInsert => IInv'
<1> SUFFICES ASSUME NumCalled, NumInsert
             PROVE  IInv'
  OBVIOUS
<1>1. PICK n \in Numbers : /\ Fits(insert_numlist(obj, n))
                           /\ On("num", "insert", <<n>>, insert_numlist(obj, n), 1)
  BY DEF NumInsert
<1> DEFINE new == insert_numlist(obj, n)
           args == <<n>>
<1>2. obj \in ListOf(Numbers) /\ Unique(obj) /\ kind = "num"
  BY NumHeld DEF NumCalled
<1>3. new \in ListOf(Numbers) /\ Unique(new) /\ ToSet(new.item) = ToSet(obj.item) \cup {n}
  BY <1>2, Inserts
<1>4. Len(new.item) <= MaxNumLen
  BY <1>1, <1>2 DEF Fits
<1>5. MembersTold("num", "insert", args, obj, new)
  <2> HIDE DEF new
  <2>1. QED
    BY <1>3 DEF MembersTold
<1> HIDE DEF new, args
<1>6. On("num", "insert", args, new, 1)
  BY <1>1 DEF new, args
<1>7. QED
  BY <1>3, <1>4, <1>5, <1>6, NumEasy

\* insert_numlist_at_pos, and unshift_numlist, which calls it.
LEMMA NumPuts ==
  ASSUME NumCalled, NEW n \in Numbers, NEW pos \in Int, Fits(insert_numlist(obj, n)),
         On("num", "insert_at", <<n, pos>>, insert_numlist_at_pos(obj, pos, n), 1)
  PROVE  IInv'
<1> DEFINE new == insert_numlist_at_pos(obj, pos, n)
           args == <<n, pos>>
<1>1. obj \in ListOf(Numbers) /\ Unique(obj) /\ kind = "num"
  BY NumHeld DEF NumCalled
<1>2. /\ new \in ListOf(Numbers)
      /\ Len(new.item) = Len(insert_numlist(obj, n).item)
      /\ ToSet(new.item) = ToSet(obj.item) \cup {n}
      /\ Unique(new) /\ PlacedAt(obj, n, pos, new)
  BY <1>1, InsertsAt
<1>3. Len(new.item) <= MaxNumLen
  BY <1>1, <1>2 DEF Fits
<1>4. args[1] = n /\ args[2] = pos
  OBVIOUS
<1> HIDE DEF new, args
<1>5. Holds("num", new)
  BY <1>2, <1>3, NumHolds
<1>6. MembersTold("num", "insert_at", args, obj, new)
  BY <1>2, <1>4 DEF MembersTold
<1>7. PlacedTold("insert_at", args, obj, new)
  BY <1>2, <1>4 DEF PlacedTold
<1>8. Told("num", "insert_at", args, obj, new, 1)
  BY <1>6, <1>7 DEF Told, ReorderedTold, FreeTold, TagsTold
<1>9. On("num", "insert_at", args, new, 1)
  BY DEF new, args
<1>10. QED
  BY <1>5, <1>8, <1>9, OnIt

\* The two calls of it.
LEMMA NumInsertsAt == NumCalled /\ (NumInsertAt \/ NumUnshift) => IInv'
<1> SUFFICES ASSUME NumCalled, NumInsertAt \/ NumUnshift
             PROVE  IInv'
  OBVIOUS
<1>1. CASE NumInsertAt
  <2>1. PICK n \in Numbers, pos \in -1 .. MaxNumLen :
          /\ Fits(insert_numlist(obj, n))
          /\ On("num", "insert_at", <<n, pos>>, insert_numlist_at_pos(obj, pos, n), 1)
    BY <1>1 DEF NumInsertAt
  <2>2. pos \in Int
    BY ListsAssumption
  <2>3. QED
    BY <2>1, <2>2, NumPuts
<1>2. CASE NumUnshift
  <2> DEFINE zero == 0
  <2>1. PICK n \in Numbers :
          /\ Fits(insert_numlist(obj, n))
          /\ On("num", "insert_at", <<n, zero>>, insert_numlist_at_pos(obj, zero, n), 1)
    BY <1>2 DEF NumUnshift, unshift_numlist
  <2>2. zero \in Int
    OBVIOUS
  <2> HIDE DEF zero
  <2>3. QED
    BY <2>1, <2>2, NumPuts
<1>3. QED
  BY <1>1, <1>2

\* remove_numlist.
LEMMA NumRemoves == NumCalled /\ NumRemove => IInv'
<1> SUFFICES ASSUME NumCalled, NumRemove
             PROVE  IInv'
  OBVIOUS
<1>1. PICK n \in Numbers : On("num", "remove", <<n>>, remove_numlist(obj, n), 1)
  BY DEF NumRemove
<1> DEFINE new == remove_numlist(obj, n)
           args == <<n>>
<1>2. obj \in ListOf(Numbers) /\ Unique(obj)
  BY NumHeld
<1>3. /\ Thinned(Numbers, obj, new)
      /\ ToSet(new.item) = ToSet(obj.item) \ {n}
  BY <1>2, Removes
<1>4. args[1] = n
  OBVIOUS
<1> HIDE DEF new, args
<1>5. new \in ListOf(Numbers) /\ Unique(new) /\ Len(new.item) <= Len(obj.item)
  BY <1>2, <1>3 DEF Thinned
<1>6. MembersTold("num", "remove", args, obj, new)
  BY <1>3, <1>4 DEF MembersTold
<1>7. On("num", "remove", args, new, 1)
  BY <1>1 DEF new, args
<1>8. QED
  BY <1>5, <1>6, <1>7, NumEasy

\* union_numlist.
LEMMA NumUnions == NumCalled /\ NumUnion => IInv'
<1> SUFFICES ASSUME NumCalled, NumUnion
             PROVE  IInv'
  OBVIOUS
<1>1. PICK t \in NumArgs : /\ Fits(union_numlist(obj, t))
                           /\ On("num", "union", <<t>>, union_numlist(obj, t), 1)
  BY DEF NumUnion
<1> DEFINE new == union_numlist(obj, t)
           args == <<t>>
<1>2. obj \in ListOf(Numbers) /\ Unique(obj) /\ t \in ListOf(Numbers) /\ kind = "num"
  BY NumHeld, Arguments DEF NumCalled
<1>3. /\ new \in ListOf(Numbers) /\ Unique(new)
      /\ ToSet(new.item) = ToSet(obj.item) \cup ToSet(t.item)
  BY <1>2, Unions
<1>4. Len(new.item) <= MaxNumLen
  BY <1>1, <1>2 DEF Fits
<1>5. args[1] = t
  OBVIOUS
<1> HIDE DEF new, args
<1>6. MembersTold("num", "union", args, obj, new)
  BY <1>3, <1>5 DEF MembersTold
<1>7. On("num", "union", args, new, 1)
  BY <1>1 DEF new, args
<1>8. QED
  BY <1>3, <1>4, <1>6, <1>7, NumEasy

\* intersect_numlist and except_numlist.
LEMMA NumSieves == NumCalled /\ (NumIntersect \/ NumExcept) => IInv'
<1> SUFFICES ASSUME NumCalled, NumIntersect \/ NumExcept
             PROVE  IInv'
  OBVIOUS
<1>1. obj \in ListOf(Numbers) /\ Unique(obj)
  BY NumHeld
<1>2. CASE NumIntersect
  <2>1. PICK t \in NumArgs : On("num", "intersect", <<t>>, intersect_numlist(obj, t), 1)
    BY <1>2 DEF NumIntersect
  <2> DEFINE new == intersect_numlist(obj, t)
             args == <<t>>
  <2>2. t \in ListOf(Numbers)
    BY Arguments
  <2>3. Thinned(Numbers, obj, new) /\ ToSet(new.item) = ToSet(obj.item) \cap ToSet(t.item)
    BY <1>1, <2>2, Intersects
  <2>4. args[1] = t
    OBVIOUS
  <2> HIDE DEF new, args
  <2>5. new \in ListOf(Numbers) /\ Unique(new) /\ Len(new.item) <= Len(obj.item)
    BY <1>1, <2>3 DEF Thinned
  <2>6. MembersTold("num", "intersect", args, obj, new)
    BY <2>3, <2>4 DEF MembersTold
  <2>7. On("num", "intersect", args, new, 1)
    BY <2>1 DEF new, args
  <2>8. QED
    BY <2>5, <2>6, <2>7, NumEasy
<1>3. CASE NumExcept
  <2>1. PICK t \in NumArgs : On("num", "except", <<t>>, except_numlist(obj, t), 1)
    BY <1>3 DEF NumExcept
  <2> DEFINE new == except_numlist(obj, t)
             args == <<t>>
  <2>2. t \in ListOf(Numbers)
    BY Arguments
  <2>3. Thinned(Numbers, obj, new) /\ ToSet(new.item) = ToSet(obj.item) \ ToSet(t.item)
    BY <1>1, <2>2, Excepts
  <2>4. args[1] = t
    OBVIOUS
  <2> HIDE DEF new, args
  <2>5. new \in ListOf(Numbers) /\ Unique(new) /\ Len(new.item) <= Len(obj.item)
    BY <1>1, <2>3 DEF Thinned
  <2>6. MembersTold("num", "except", args, obj, new)
    BY <2>3, <2>4 DEF MembersTold
  <2>7. On("num", "except", args, new, 1)
    BY <2>1 DEF new, args
  <2>8. QED
    BY <2>5, <2>6, <2>7, NumEasy
<1>4. QED
  BY <1>2, <1>3

\* unique_numlist, alone and as set_numlist_multiple uses it.
LEMMA NumUniques == NumCalled /\ (NumUnique \/ NumSetMultiple) => IInv'
<1> SUFFICES ASSUME NumCalled, NumUnique \/ NumSetMultiple
             PROVE  IInv'
  OBVIOUS
<1>1. obj \in ListOf(Numbers) /\ Unique(obj) /\ obj.multiple \in BOOLEAN
  BY NumHeld
<1> DEFINE args == <<>>
<1> HIDE DEF args
<1>2. ASSUME NEW new, new \in ListOf(Numbers), Unique(new), Len(new.item) <= Len(obj.item),
             ToSet(new.item) \subseteq ToSet(obj.item),
             (\A n \in ToSet(obj.item) : OwnBit(n)) => ToSet(Front(obj.item)) \subseteq ToSet(new.item),
             On("num", "unique", args, new, 1)
      PROVE  IInv'
  <2>1. MembersTold("num", "unique", args, obj, new)
    BY <1>2 DEF MembersTold
  <2>2. QED
    BY <1>2, <2>1, NumEasy
<1>3. CASE NumUnique
  <2> DEFINE new == unique_numlist(obj)
  <2>1. On("num", "unique", args, new, 1)
    BY <1>3 DEF NumUnique, args
  <2>2. /\ new \in ListOf(Numbers) /\ new.multiple = obj.multiple
        /\ Len(new.item) <= Len(obj.item) /\ ToSet(new.item) \subseteq ToSet(obj.item)
        /\ obj.multiple => IsInjective(new.item)
        /\ ~obj.multiple => new = obj
        /\ (\A n \in ToSet(obj.item) : OwnBit(n)) => ToSet(Front(obj.item)) \subseteq ToSet(new.item)
    BY <1>1, UniqueNumbers
  <2> HIDE DEF new
  <2>3. Unique(new)
    BY <1>1, <2>2 DEF Unique
  <2>4. QED
    BY <1>2, <2>1, <2>2, <2>3
<1>4. CASE NumSetMultiple
  <2>1. PICK m \in BOOLEAN :
          On("num", IF m THEN "keep" ELSE "unique", <<>>, set_numlist_multiple(obj, m), 1)
    BY <1>4 DEF NumSetMultiple
  <2> DEFINE new == set_numlist_multiple(obj, m)
  <2>2. /\ new \in ListOf(Numbers)
        /\ Len(new.item) <= Len(obj.item) /\ Unique(new)
        /\ m => ToSet(new.item) = ToSet(obj.item)
        /\ ToSet(new.item) \subseteq ToSet(obj.item)
        /\ (\A n \in ToSet(obj.item) : OwnBit(n)) => ToSet(Front(obj.item)) \subseteq ToSet(new.item)
    BY <1>1, SetsNumbers
  <2>3. On("num", IF m THEN "keep" ELSE "unique", args, new, 1)
    BY <2>1 DEF args
  <2> HIDE DEF new
  <2>4. CASE m
    <3>1. On("num", "keep", args, new, 1)
      BY <2>3, <2>4
    <3>2. MembersTold("num", "keep", args, obj, new)
      BY <2>2, <2>4 DEF MembersTold
    <3>3. QED
      BY <2>2, <3>1, <3>2, NumEasy
  <2>5. CASE ~m
    <3>1. On("num", "unique", args, new, 1)
      BY <2>3, <2>5
    <3>2. QED
      BY <1>2, <2>2, <3>1
  <2>6. QED
    BY <2>4, <2>5
<1>5. QED
  BY <1>3, <1>4

\* sort_numlist and sort_numlist_reverse.
LEMMA NumSorts == NumCalled /\ NumSort => IInv'
<1> SUFFICES ASSUME NumCalled, NumSort
             PROVE  IInv'
  OBVIOUS
<1> DEFINE args == <<>>
<1> HIDE DEF args
<1>1. obj \in ListOf(Numbers) /\ Unique(obj) /\ obj.item \in Seq(Numbers)
  BY NumHeld
<1>2. \A i \in 1 .. Len(obj.item) : obj.item[i] \in Int /\ obj.item[i] \in ToSet(obj.item)
  <2>1. \A i \in 1 .. Len(obj.item) : obj.item[i] \in Numbers /\ obj.item[i] \in ToSet(obj.item)
    BY <1>1, ToSetProps
  <2>2. \A n \in Numbers : n \in Int
    BY NumbersAreNat
  <2>3. QED
    BY <2>1, <2>2
<1>3. ASSUME NEW key, \A i \in 1 .. Len(obj.item) : key[obj.item[i]] \in Int,
             NEW new, new = [obj EXCEPT !.item = SortedBy(@, key)],
             On("num", "keep", args, new, 1)
      PROVE  IInv'
  <2>1. Thinned(Numbers, obj, new) /\ ToSet(new.item) = ToSet(obj.item)
    BY <1>1, <1>3, Sorts
  <2>2. new \in ListOf(Numbers) /\ Unique(new) /\ Len(new.item) <= Len(obj.item)
    BY <1>1, <2>1 DEF Thinned
  <2>3. MembersTold("num", "keep", args, obj, new)
    BY <2>1 DEF MembersTold
  <2>4. On("num", "keep", args, new, 1)
    BY <1>3
  <2>5. QED
    BY ONLY NumCalled, <2>2, <2>3, <2>4, NumEasy
<1>4. CASE On("num", "keep", <<>>, sort_numlist(obj), 1)
  <2> DEFINE key == [n \in ToSet(obj.item) |-> n]
             new == sort_numlist(obj)
  <2>1. new = [obj EXCEPT !.item = SortedBy(@, key)]
    BY DEF sort_numlist
  <2>2. \A i \in 1 .. Len(obj.item) : key[obj.item[i]] \in Int
    BY <1>2
  <2>3. On("num", "keep", args, new, 1)
    BY <1>4 DEF args
  <2> HIDE DEF key, new
  <2>4. QED
    BY <1>3, <2>1, <2>2, <2>3
<1>5. CASE On("num", "keep", <<>>, sort_numlist_reverse(obj), 1)
  <2> DEFINE key == [n \in ToSet(obj.item) |-> -n]
             new == sort_numlist_reverse(obj)
  <2>1. new = [obj EXCEPT !.item = SortedBy(@, key)]
    BY DEF sort_numlist_reverse
  <2>2. \A i \in 1 .. Len(obj.item) : key[obj.item[i]] \in Int
    BY <1>2
  <2>3. On("num", "keep", args, new, 1)
    BY <1>5 DEF args
  <2> HIDE DEF key, new
  <2>4. QED
    BY <1>3, <2>1, <2>2, <2>3
<1>6. QED
  BY <1>4, <1>5 DEF NumSort

\* serialize_numlist.
LEMMA NumSerializes == NumCalled /\ NumSerialize => IInv'
<1> SUFFICES ASSUME NumCalled, NumSerialize
             PROVE  IInv'
  OBVIOUS
<1> DEFINE args == <<>>
           ret == serialize_numlist(obj)
<1>1. On("num", "serialize", args, obj, ret)
  BY DEF NumSerialize
<1> HIDE DEF args, ret
<1>2. MembersTold("num", "serialize", args, obj, obj)
  BY DEF MembersTold
<1>3. obj \in ListOf(Numbers) /\ Unique(obj) /\ Len(obj.item) <= Len(obj.item)
  BY NumHeld
<1>4. QED
  BY <1>1, <1>2, <1>3, NumEasy

\* create_iplist_from_numlist.
LEMMA NumToStrings == NumCalled /\ NumToIp => IInv'
<1> SUFFICES ASSUME NumCalled, NumToIp
             PROVE  IInv'
  OBVIOUS
<1> DEFINE args == <<>>
           new == create_iplist_from_numlist(obj)
<1>1. Calls("num", "to_ip", args, new, 1) /\ kind' = "ip"
  BY DEF NumToIp
<1>2. /\ obj \in ListOf(Numbers) /\ Len(obj.item) \in Nat
      /\ Len(obj.item) <= MaxNumLen + MaxIpLen
  BY NumHeld
<1>3. new \in ListOf(Strings) /\ Almost(new) /\ Len(new.item) <= Len(obj.item)
  BY <1>2, StringsOfNumbers
<1>4. new.item \in Seq(Strings) /\ MaxNumLen + MaxIpLen \in Nat
  BY <1>3, ListsAssumption DEF ListOf
<1>5. Len(new.item) \in Nat
  BY <1>4
<1> HIDE DEF args, new
<1>6. Holds("ip", new)
  BY <1>2, <1>3, <1>4, <1>5 DEF Holds
<1>7. Told("ip", "to_ip", args, obj, new, 1)
  BY OnlyMembers DEF MembersTold
<1>8. QED
  BY <1>1, <1>6, <1>7, Called

\* reorder_numlist.
LEMMA NumReorders == NumCalled /\ NumReorder => IInv'
<1> SUFFICES ASSUME NumCalled, NumReorder
             PROVE  IInv'
  OBVIOUS
<1>1. PICK f, r \in {a \in NumArgs : IsInjective(a.item)} :
        On("num", "reorder", <<f, r>>, reorder_numlist(obj, f, r),
           IF reorder_fails(obj, f, r) THEN 0 ELSE 1)
  BY DEF NumReorder
<1> DEFINE new == reorder_numlist(obj, f, r)
           ret == IF reorder_fails(obj, f, r) THEN 0 ELSE 1
           args == <<f, r>>
<1>2. obj \in ListOf(Numbers) /\ Unique(obj) /\ f \in ListOf(Numbers) /\ r \in ListOf(Numbers)
  BY NumHeld, Arguments
<1>3. /\ new \in ListOf(Numbers) /\ Unique(new) /\ Len(new.item) = Len(obj.item)
      /\ ToSet(new.item) = ToSet(obj.item)
  BY <1>2, Reorders
<1>4. args[1] = f /\ args[2] = r
  OBVIOUS
<1>5. On("num", "reorder", args, new, ret)
  BY <1>1
<1> HIDE DEF args
<1>6. ReorderedTold("reorder", args, obj, new, ret)
  BY <1>2, <1>4, ReordersRight
<1> HIDE DEF new, ret
<1>7. Holds("num", new)
  <2>1. Len(obj.item) \in Nat
    BY NumHeld
  <2>2. Len(new.item) <= Len(obj.item)
    BY <1>3, <2>1
  <2>3. QED
    BY <1>3, <2>2, NumHolds
<1>8. MembersTold("num", "reorder", args, obj, new)
  BY <1>3 DEF MembersTold
<1>9. Told("num", "reorder", args, obj, new, ret)
  BY <1>6, <1>8 DEF Told, PlacedTold, FreeTold, TagsTold
<1>10. QED
  BY <1>5, <1>7, <1>9, OnIt

\* get_free_numlist.
LEMMA NumGetsFree == NumCalled /\ NumGetFree => IInv'
<1> SUFFICES ASSUME NumCalled, NumGetFree
             PROVE  IInv'
  OBVIOUS
<1> DEFINE ret == get_free_numlist(obj)
           args == <<>>
<1>1. On("num", "get_free", args, obj, ret)
  BY DEF NumGetFree
<1>2. obj \in ListOf(Numbers) /\ Unique(obj) /\ Len(obj.item) \in Nat
  BY NumHeld
<1>3. FreeTold("get_free", obj, ret)
  BY <1>2, Free
<1> HIDE DEF ret, args
<1>4. Holds("num", obj)
  BY <1>2, NumHolds
<1>5. MembersTold("num", "get_free", args, obj, obj)
  BY DEF MembersTold
<1>6. Told("num", "get_free", args, obj, obj, ret)
  BY <1>3, <1>5 DEF Told, PlacedTold, ReorderedTold, TagsTold
<1>7. QED
  BY <1>1, <1>4, <1>6, OnIt

\* No call of a number list breaks the invariant.
LEMMA NumSteps == NumCalled /\ NumNext => IInv'
<1> SUFFICES ASSUME NumCalled, NumNext
             PROVE  IInv'
  OBVIOUS
<1>1. CASE NumCreate
  BY <1>1, NumCreates
<1>2. CASE NumInsert
  BY <1>2, NumInserts
<1>3. CASE NumInsertAt \/ NumUnshift
  BY <1>3, NumInsertsAt
<1>4. CASE NumRemove
  BY <1>4, NumRemoves
<1>5. CASE NumUnion
  BY <1>5, NumUnions
<1>6. CASE NumIntersect \/ NumExcept
  BY <1>6, NumSieves
<1>7. CASE NumUnique \/ NumSetMultiple
  BY <1>7, NumUniques
<1>8. CASE NumSort
  BY <1>8, NumSorts
<1>9. CASE NumReorder
  BY <1>9, NumReorders
<1>10. CASE NumGetFree
  BY <1>10, NumGetsFree
<1>11. CASE NumSerialize
  BY <1>11, NumSerializes
<1>12. CASE NumToIp
  BY <1>12, NumToStrings
<1>13. QED
  BY <1>1, <1>2, <1>3, <1>4, <1>5, <1>6, <1>7, <1>8, <1>9, <1>10, <1>11, <1>12 DEF NumNext

-----------------------------------------------------------------------------
(* String lists, call by call                                              *)

\* What the invariant says when a string list is called.
IpCalled == IInv /\ kind = "ip"

\* What the invariant says of the string list.
LEMMA IpHeld ==
  ASSUME IpCalled
  PROVE  /\ obj \in ListOf(Strings) /\ Almost(obj) /\ Len(obj.item) \in Nat
         /\ Len(obj.item) <= MaxNumLen + MaxIpLen
         /\ obj.multiple \in BOOLEAN /\ obj.item \in Seq(Strings)
<1>1. obj \in ListOf(Strings) /\ Almost(obj) /\ Len(obj.item) <= MaxNumLen + MaxIpLen
  BY DEF IpCalled, IInv, Holds
<1>2. obj.item \in Seq(Strings) /\ obj.multiple \in BOOLEAN
  BY <1>1 DEF ListOf
<1>3. Len(obj.item) \in Nat
  BY <1>2
<1>4. QED
  BY <1>1, <1>2, <1>3

\* A call that tells only what happens to the members.
LEMMA IpEasy ==
  ASSUME IpCalled, NEW op, NEW args, NEW new, NEW ret, On("ip", op, args, new, ret),
         op \notin {"insert_at", "reorder", "get_free"},
         new \in ListOf(Strings), Almost(new),
         \/ Len(new.item) <= Len(obj.item)
         \/ Len(new.item) <= MaxIpLen,
         MembersTold("ip", op, args, obj, new)
  PROVE  IInv'
<1>1. Len(obj.item) \in Nat /\ Len(obj.item) <= MaxNumLen + MaxIpLen
  BY IpHeld
<1>2. new.item \in Seq(Strings)
  BY DEF ListOf
<1>3. Len(new.item) \in Nat /\ MaxNumLen \in Nat /\ MaxIpLen \in Nat
  BY <1>2, ListsAssumption
<1>4. Len(new.item) <= MaxNumLen + MaxIpLen
  BY <1>1, <1>3
<1>5. Holds("ip", new)
  BY <1>4 DEF Holds
<1>6. Told("ip", op, args, obj, new, ret)
  BY OnlyMembers
<1>7. QED
  BY <1>5, <1>6, OnIt

\* create_iplist and create_iplist_multiple.
LEMMA IpCreates == IpCalled /\ IpCreate => IInv'
<1> SUFFICES ASSUME IpCalled, IpCreate
             PROVE  IInv'
  OBVIOUS
<1>1. PICK t \in Texts : \/ On("ip", "create", <<t>>, create_iplist(t), 1)
                         \/ On("ip", "create", <<t>>, create_iplist_multiple(t), 1)
  BY DEF IpCreate
<1> DEFINE args == <<t>>
<1>2. t \in Seq(Strings) /\ Len(t) <= MaxNumLen + MaxIpLen
  BY Arguments
<1>3. Len(t) \in Nat /\ MaxNumLen + MaxIpLen \in Nat
  BY <1>2, ListsAssumption
<1>4. ASSUME NEW m \in BOOLEAN, On("ip", "create", args, create_tokens(t, m, m), 1)
      PROVE  IInv'
  <2> DEFINE new == create_tokens(t, m, m)
  <2>1. new \in ListOf(Strings) /\ Unique(new) /\ Len(new.item) <= Len(t)
    BY <1>2, CreatesTokens
  <2>2. On("ip", "create", args, new, 1)
    BY <1>4
  <2> HIDE DEF new, args
  <2>3. new.item \in Seq(Strings)
    BY <2>1 DEF ListOf
  <2>4. Len(new.item) \in Nat
    BY <2>3
  <2>5. Almost(new)
    BY <2>1, DistinctAll DEF Almost, Unique
  <2>6. Holds("ip", new)
    BY <1>2, <1>3, <2>1, <2>4, <2>5 DEF Holds
  <2>7. Told("ip", "create", args, obj, new, 1)
    BY OnlyMembers DEF MembersTold
  <2>8. QED
    BY <2>2, <2>6, <2>7, OnIt
<1> HIDE DEF args
<1>5. CASE On("ip", "create", <<t>>, create_iplist(t), 1)
  <2> DEFINE no == FALSE
  <2>1. On("ip", "create", args, create_tokens(t, no, no), 1)
    BY <1>5 DEF create_iplist, args
  <2>2. no \in BOOLEAN
    OBVIOUS
  <2> HIDE DEF no
  <2>3. QED
    BY <1>4, <2>1, <2>2
<1>6. CASE On("ip", "create", <<t>>, create_iplist_multiple(t), 1)
  <2> DEFINE yes == TRUE
  <2>1. On("ip", "create", args, create_tokens(t, yes, yes), 1)
    BY <1>6 DEF create_iplist_multiple, args
  <2>2. yes \in BOOLEAN
    OBVIOUS
  <2> HIDE DEF yes
  <2>3. QED
    BY <1>4, <2>1, <2>2
<1>7. QED
  BY <1>1, <1>5, <1>6

\* insert_iplist and append_iplist.
LEMMA IpInserts == IpCalled /\ (IpInsert \/ IpAppend) => IInv'
<1> SUFFICES ASSUME IpCalled, IpInsert \/ IpAppend
             PROVE  IInv'
  OBVIOUS
<1>1. obj \in ListOf(Strings) /\ Almost(obj) /\ kind = "ip"
  BY IpHeld DEF IpCalled
<1>2. ASSUME NEW s \in Strings, NEW new, new \in ListOf(Strings), Almost(new), Fits(new),
             ToSet(new.item) = ToSet(obj.item) \cup {s}, On("ip", "insert", <<s>>, new, 1)
      PROVE  IInv'
  <2> DEFINE args == <<s>>
  <2>1. args[1] = s /\ On("ip", "insert", args, new, 1)
    BY <1>2
  <2> HIDE DEF args
  <2>2. MembersTold("ip", "insert", args, obj, new)
    BY <1>2, <2>1 DEF MembersTold
  <2>3. Len(new.item) <= MaxIpLen
    BY <1>1, <1>2 DEF Fits
  <2>4. QED
    BY <1>2, <2>1, <2>2, <2>3, IpEasy
<1>3. CASE IpInsert
  <2>1. PICK s \in Strings : /\ Fits(insert_iplist(obj, s))
                             /\ On("ip", "insert", <<s>>, insert_iplist(obj, s), 1)
    BY <1>3 DEF IpInsert
  <2> DEFINE new == insert_iplist(obj, s)
  <2>2. /\ new \in ListOf(Strings) /\ Almost(new)
        /\ ToSet(new.item) = ToSet(obj.item) \cup {s}
    BY <1>1, Inserts
  <2>3. Fits(new) /\ On("ip", "insert", <<s>>, new, 1)
    BY <2>1
  <2> HIDE DEF new
  <2>4. QED
    BY <1>2, <2>2, <2>3
<1>4. CASE IpAppend
  <2>1. PICK s \in Strings : /\ Fits(append_iplist(obj, s))
                             /\ On("ip", "insert", <<s>>, append_iplist(obj, s), 1)
    BY <1>4 DEF IpAppend
  <2> DEFINE new == append_iplist(obj, s)
  <2>2. /\ new \in ListOf(Strings) /\ new.multiple
        /\ ToSet(new.item) = ToSet(obj.item) \cup {s}
    BY <1>1, Appends
  <2>3. Fits(new) /\ On("ip", "insert", <<s>>, new, 1)
    BY <2>1
  <2> HIDE DEF new
  <2>4. Almost(new)
    BY <2>2 DEF Almost
  <2>5. QED
    BY <1>2, <2>2, <2>3, <2>4
<1>5. QED
  BY <1>3, <1>4

\* remove_iplist.
LEMMA IpRemoves == IpCalled /\ IpRemove => IInv'
<1> SUFFICES ASSUME IpCalled, IpRemove
             PROVE  IInv'
  OBVIOUS
<1>1. PICK s \in Strings : On("ip", "remove", <<s>>, remove_iplist(obj, s), 1)
  BY DEF IpRemove
<1> DEFINE new == remove_iplist(obj, s)
           args == <<s>>
<1>2. obj \in ListOf(Strings) /\ Almost(obj)
  BY IpHeld
<1>3. /\ Thinned(Strings, obj, new)
      /\ Unique(obj) => ToSet(new.item) = ToSet(obj.item) \ {s}
  BY <1>2, Removes
<1>4. args[1] = s
  OBVIOUS
<1>5. On("ip", "remove", args, new, 1)
  BY <1>1
<1> HIDE DEF new, args
<1>6. new \in ListOf(Strings) /\ Almost(new) /\ Len(new.item) <= Len(obj.item)
  BY <1>2, <1>3 DEF Thinned
<1>7. MembersTold("ip", "remove", args, obj, new)
  BY <1>3, <1>4 DEF MembersTold
<1>8. QED
  BY <1>5, <1>6, <1>7, IpEasy

\* union_iplist.
LEMMA IpUnions == IpCalled /\ IpUnion => IInv'
<1> SUFFICES ASSUME IpCalled, IpUnion
             PROVE  IInv'
  OBVIOUS
<1>1. PICK t \in IpArgs : /\ Fits(union_iplist(obj, t))
                          /\ On("ip", "union", <<t>>, union_iplist(obj, t), 1)
  BY DEF IpUnion
<1> DEFINE new == union_iplist(obj, t)
           args == <<t>>
<1>2. obj \in ListOf(Strings) /\ Almost(obj) /\ t \in ListOf(Strings) /\ kind = "ip"
  BY IpHeld, Arguments DEF IpCalled
<1>3. /\ new \in ListOf(Strings) /\ Almost(new)
      /\ ToSet(new.item) = ToSet(obj.item) \cup ToSet(t.item)
  BY <1>2, Unions
<1>4. Len(new.item) <= MaxIpLen
  BY <1>1, <1>2 DEF Fits
<1>5. args[1] = t /\ On("ip", "union", args, new, 1)
  BY <1>1
<1> HIDE DEF new, args
<1>6. MembersTold("ip", "union", args, obj, new)
  BY <1>3, <1>5 DEF MembersTold
<1>7. QED
  BY <1>3, <1>4, <1>5, <1>6, IpEasy

\* intersect_iplist and except_iplist.
LEMMA IpSieves == IpCalled /\ (IpIntersect \/ IpExcept) => IInv'
<1> SUFFICES ASSUME IpCalled, IpIntersect \/ IpExcept
             PROVE  IInv'
  OBVIOUS
<1>1. obj \in ListOf(Strings) /\ Almost(obj)
  BY IpHeld
<1>2. CASE IpIntersect
  <2>1. PICK t \in IpArgs : On("ip", "intersect", <<t>>, intersect_iplist(obj, t), 1)
    BY <1>2 DEF IpIntersect
  <2> DEFINE new == intersect_iplist(obj, t)
             args == <<t>>
  <2>2. t \in ListOf(Strings)
    BY Arguments
  <2>3. Thinned(Strings, obj, new) /\ ToSet(new.item) = ToSet(obj.item) \cap ToSet(t.item)
    BY <1>1, <2>2, Intersects
  <2>4. args[1] = t /\ On("ip", "intersect", args, new, 1)
    BY <2>1
  <2> HIDE DEF new, args
  <2>5. new \in ListOf(Strings) /\ Almost(new) /\ Len(new.item) <= Len(obj.item)
    BY <1>1, <2>3 DEF Thinned
  <2>6. MembersTold("ip", "intersect", args, obj, new)
    BY <2>3, <2>4 DEF MembersTold
  <2>7. QED
    BY <2>4, <2>5, <2>6, IpEasy
<1>3. CASE IpExcept
  <2>1. PICK t \in IpArgs : On("ip", "except", <<t>>, except_iplist(obj, t), 1)
    BY <1>3 DEF IpExcept
  <2> DEFINE new == except_iplist(obj, t)
             args == <<t>>
  <2>2. t \in ListOf(Strings)
    BY Arguments
  <2>3. Thinned(Strings, obj, new) /\ ToSet(new.item) = ToSet(obj.item) \ ToSet(t.item)
    BY <1>1, <2>2, Excepts
  <2>4. args[1] = t /\ On("ip", "except", args, new, 1)
    BY <2>1
  <2> HIDE DEF new, args
  <2>5. new \in ListOf(Strings) /\ Almost(new) /\ Len(new.item) <= Len(obj.item)
    BY <1>1, <2>3 DEF Thinned
  <2>6. MembersTold("ip", "except", args, obj, new)
    BY <2>3, <2>4 DEF MembersTold
  <2>7. QED
    BY <2>4, <2>5, <2>6, IpEasy
<1>4. QED
  BY <1>2, <1>3

\* unique_iplist, alone and as set_iplist_multiple uses it.
LEMMA IpUniques == IpCalled /\ (IpUnique \/ IpSetMultiple) => IInv'
<1> SUFFICES ASSUME IpCalled, IpUnique \/ IpSetMultiple
             PROVE  IInv'
  OBVIOUS
<1>1. obj \in ListOf(Strings) /\ Almost(obj) /\ obj.multiple \in BOOLEAN /\ obj.item \in Seq(Strings)
  BY IpHeld
<1> DEFINE args == <<>>
<1> HIDE DEF args
<1>2. ASSUME NEW new, new \in ListOf(Strings), Almost(new), Len(new.item) <= Len(obj.item),
             ToSet(new.item) \subseteq ToSet(obj.item),
             obj.item # <<>> => obj.item[1] \in ToSet(new.item),
             On("ip", "unique", args, new, 1)
      PROVE  IInv'
  <2>1. ToSet(obj.item) # {} => obj.item # <<>>
    BY EmptyList
  <2>2. MembersTold("ip", "unique", args, obj, new)
    BY <1>2, <2>1 DEF MembersTold
  <2>3. QED
    BY <1>2, <2>2, IpEasy
<1>3. CASE IpUnique
  <2> DEFINE new == unique_iplist(obj)
  <2>1. On("ip", "unique", args, new, 1)
    BY <1>3 DEF IpUnique, args
  <2>2. /\ new \in ListOf(Strings) /\ new.multiple = obj.multiple
        /\ Len(new.item) <= Len(obj.item) /\ ToSet(new.item) \subseteq ToSet(obj.item)
        /\ obj.item # <<>> => obj.item[1] \in ToSet(new.item)
        /\ ~obj.multiple => new = obj
    BY <1>1, UniqueStrings
  <2> HIDE DEF new
  <2>3. Almost(new)
    BY <1>1, <2>2 DEF Almost
  <2>4. QED
    BY <1>2, <2>1, <2>2, <2>3
<1>4. CASE IpSetMultiple
  <2>1. PICK m \in BOOLEAN :
          On("ip", IF m THEN "keep" ELSE "unique", <<>>, set_iplist_multiple(obj, m), 1)
    BY <1>4 DEF IpSetMultiple
  <2> DEFINE new == set_iplist_multiple(obj, m)
  <2>2. /\ new \in ListOf(Strings)
        /\ Len(new.item) <= Len(obj.item) /\ Almost(new)
        /\ m => ToSet(new.item) = ToSet(obj.item)
        /\ ToSet(new.item) \subseteq ToSet(obj.item)
        /\ obj.item # <<>> => obj.item[1] \in ToSet(new.item)
    BY <1>1, SetsStrings
  <2>3. On("ip", IF m THEN "keep" ELSE "unique", args, new, 1)
    BY <2>1 DEF args
  <2> HIDE DEF new
  <2>4. CASE m
    <3>1. On("ip", "keep", args, new, 1)
      BY <2>3, <2>4
    <3>2. MembersTold("ip", "keep", args, obj, new)
      BY <2>2, <2>4 DEF MembersTold
    <3>3. QED
      BY <2>2, <3>1, <3>2, IpEasy
  <2>5. CASE ~m
    <3>1. On("ip", "unique", args, new, 1)
      BY <2>3, <2>5
    <3>2. QED
      BY <1>2, <2>2, <3>1
  <2>6. QED
    BY <2>4, <2>5
<1>5. QED
  BY <1>3, <1>4

\* sort_iplist and sort_iplist_reverse.
LEMMA IpSorts == IpCalled /\ IpSort => IInv'
<1> SUFFICES ASSUME IpCalled, IpSort
             PROVE  IInv'
  OBVIOUS
<1> DEFINE args == <<>>
<1> HIDE DEF args
<1>1. obj \in ListOf(Strings) /\ Almost(obj) /\ obj.item \in Seq(Strings)
  BY IpHeld
<1>2. \A i \in 1 .. Len(obj.item) : obj.item[i] \in Strings
  BY <1>1
<1>3. ASSUME NEW key, \A i \in 1 .. Len(obj.item) : key[obj.item[i]] \in Int,
             NEW new, new = [obj EXCEPT !.item = SortedBy(@, key)],
             On("ip", "keep", args, new, 1)
      PROVE  IInv'
  <2>1. Thinned(Strings, obj, new) /\ ToSet(new.item) = ToSet(obj.item)
    BY <1>1, <1>3, Sorts
  <2>2. new \in ListOf(Strings) /\ Almost(new) /\ Len(new.item) <= Len(obj.item)
    BY <1>1, <2>1 DEF Thinned
  <2>3. MembersTold("ip", "keep", args, obj, new)
    BY <2>1 DEF MembersTold
  <2>4. On("ip", "keep", args, new, 1)
    BY <1>3
  <2>5. QED
    BY ONLY IpCalled, <2>2, <2>3, <2>4, IpEasy
<1>4. CASE On("ip", "keep", <<>>, sort_iplist(obj), 1)
  <2> DEFINE new == sort_iplist(obj)
  <2>1. new = [obj EXCEPT !.item = SortedBy(@, Rank)]
    BY DEF sort_iplist
  <2>2. \A i \in 1 .. Len(obj.item) : Rank[obj.item[i]] \in Int
    BY <1>2, IpAssumption
  <2>3. On("ip", "keep", args, new, 1)
    BY <1>4 DEF args
  <2> HIDE DEF new
  <2>4. QED
    BY <1>3, <2>1, <2>2, <2>3
<1>5. CASE On("ip", "keep", <<>>, sort_iplist_reverse(obj), 1)
  <2> DEFINE key == [s \in Strings |-> -Rank[s]]
             new == sort_iplist_reverse(obj)
  <2>1. new = [obj EXCEPT !.item = SortedBy(@, key)]
    BY DEF sort_iplist_reverse
  <2>2. \A i \in 1 .. Len(obj.item) : key[obj.item[i]] \in Int
    <3>1. \A s \in Strings : Rank[s] \in Nat
      BY IpAssumption
    <3>2. QED
      BY <1>2, <3>1
  <2>3. On("ip", "keep", args, new, 1)
    BY <1>5 DEF args
  <2> HIDE DEF key, new
  <2>4. QED
    BY <1>3, <2>1, <2>2, <2>3
<1>6. QED
  BY <1>4, <1>5 DEF IpSort

\* serialize_iplist.
LEMMA IpSerializes == IpCalled /\ IpSerialize => IInv'
<1> SUFFICES ASSUME IpCalled, IpSerialize
             PROVE  IInv'
  OBVIOUS
<1> DEFINE args == <<>>
           ret == serialize_iplist(obj)
<1>1. On("ip", "serialize", args, obj, ret)
  BY DEF IpSerialize
<1> HIDE DEF args, ret
<1>2. MembersTold("ip", "serialize", args, obj, obj)
  BY DEF MembersTold
<1>3. obj \in ListOf(Strings) /\ Almost(obj) /\ Len(obj.item) <= Len(obj.item)
  BY IpHeld
<1>4. QED
  BY <1>1, <1>2, <1>3, IpEasy

\* create_numlist_from_iplist.
LEMMA IpToNumbers == IpCalled /\ IpToNum => IInv'
<1> SUFFICES ASSUME IpCalled, IpToNum
             PROVE  IInv'
  OBVIOUS
<1> DEFINE args == <<>>
           new == create_numlist_from_iplist(obj)
<1>1. Calls("ip", "to_num", args, new, 1) /\ kind' = "num"
  BY DEF IpToNum
<1>2. /\ obj \in ListOf(Strings) /\ Len(obj.item) \in Nat
      /\ Len(obj.item) <= MaxNumLen + MaxIpLen
  BY IpHeld
<1>3. new \in ListOf(Numbers) /\ Unique(new) /\ Len(new.item) <= Len(obj.item)
  BY <1>2, NumbersOfStrings
<1>4. new.item \in Seq(Numbers) /\ MaxNumLen + MaxIpLen \in Nat
  BY <1>3, ListsAssumption DEF ListOf
<1>5. Len(new.item) \in Nat
  BY <1>4
<1> HIDE DEF args, new
<1>6. Holds("num", new)
  BY <1>2, <1>3, <1>4, <1>5 DEF Holds
<1>7. Told("num", "to_num", args, obj, new, 1)
  BY OnlyMembers DEF MembersTold
<1>8. QED
  BY <1>1, <1>6, <1>7, Called

\* No call of a string list breaks the invariant.
LEMMA IpSteps == IpCalled /\ IpNext => IInv'
<1> SUFFICES ASSUME IpCalled, IpNext
             PROVE  IInv'
  OBVIOUS
<1>1. CASE IpCreate
  BY <1>1, IpCreates
<1>2. CASE IpInsert \/ IpAppend
  BY <1>2, IpInserts
<1>3. CASE IpRemove
  BY <1>3, IpRemoves
<1>4. CASE IpUnion
  BY <1>4, IpUnions
<1>5. CASE IpIntersect \/ IpExcept
  BY <1>5, IpSieves
<1>6. CASE IpUnique \/ IpSetMultiple
  BY <1>6, IpUniques
<1>7. CASE IpSort
  BY <1>7, IpSorts
<1>8. CASE IpSerialize
  BY <1>8, IpSerializes
<1>9. CASE IpToNum
  BY <1>9, IpToNumbers
<1>10. QED
  BY <1>1, <1>2, <1>3, <1>4, <1>5, <1>6, <1>7, <1>8, <1>9 DEF IpNext

-----------------------------------------------------------------------------
(* Link lists, call by call                                                *)

LinkCalled == IInv /\ kind = "link"

\* The properties say nothing of the calls of link lists but what the lists hold.
LEMMA LinkEasy ==
  ASSUME LinkCalled, NEW op, NEW args, NEW new \in Links, NEW ret, On("link", op, args, new, ret),
         op \notin {"insert_at", "reorder", "get_free"}
  PROVE  IInv'
<1>1. Holds("link", new)
  BY DEF Holds
<1>2. MembersTold("link", op, args, obj, new)
  BY DEF MembersTold
<1>3. Told("link", op, args, obj, new, ret)
  BY <1>2, OnlyMembers
<1>4. QED
  BY <1>1, <1>3, OnIt

\* No call of a link list breaks the invariant.
LEMMA LinkSteps == LinkCalled /\ LinkNext => IInv'
<1> SUFFICES ASSUME LinkCalled, LinkNext
             PROVE  IInv'
  OBVIOUS
<1>1. obj \in Links
  BY DEF LinkCalled, IInv, Holds
<1>2. CASE LinkCreate
  <2>1. PICK s \in Segments : On("link", "create", <<s>>, create_linkiplist(s), 1)
    BY <1>2 DEF LinkCreate
  <2>2. create_linkiplist(s) \in LinksOf(FewStrings)
    BY Arguments, CreatesLinks
  <2>3. QED
    BY <2>1, <2>2, LinkEasy DEF Links
<1>3. CASE LinkInsert
  <2>1. PICK id \in LinkIds, s \in FewStrings :
          On("link", "insert", <<id, s>>, insert_linkiplist(obj, id, s), 1)
    BY <1>3 DEF LinkInsert
  <2>2. insert_linkiplist(obj, id, s) \in Links
    BY <1>1, ChangesLinks
  <2>3. QED
    BY <2>1, <2>2, LinkEasy
<1>4. CASE LinkRemove
  <2>1. PICK id \in LinkIds, s \in FewStrings :
          On("link", "remove", <<id, s>>, remove_linkiplist(obj, id, s), 1)
    BY <1>4 DEF LinkRemove
  <2>2. remove_linkiplist(obj, id, s) \in Links
    BY <1>1, ChangesLinks
  <2>3. QED
    BY <2>1, <2>2, LinkEasy
<1>5. CASE LinkClear
  <2>1. PICK id \in LinkIds : On("link", "clear", <<id>>, clear_linkiplist(obj, id), 1)
    BY <1>5 DEF LinkClear
  <2>2. clear_linkiplist(obj, id) = [obj EXCEPT ![id] = List(<<>>, FALSE)]
    BY DEF clear_linkiplist
  <2>3. List(<<>>, FALSE) \in Made(FewStrings, FALSE)
    BY EmptyList DEF Made
  <2>4. clear_linkiplist(obj, id) \in Links
    BY <1>1, <2>2, <2>3 DEF Links, LinksOf
  <2>5. QED
    BY <2>1, <2>4, LinkEasy
<1>6. CASE LinkSerialize
  BY <1>1, <1>6, LinkEasy DEF LinkSerialize
<1>7. QED
  BY <1>2, <1>3, <1>4, <1>5, <1>6 DEF LinkNext

-----------------------------------------------------------------------------
(* Tag lists, call by call                                                 *)

TagCalled == IInv /\ kind = "tag"

\* A call that leaves a tag list behind and does to the map what TagsAreMap says.
LEMMA TagEasy ==
  ASSUME TagCalled, NEW op, NEW args, NEW new \in TagLists, NEW ret, On("tag", op, args, new, ret),
         op \notin {"insert_at", "reorder", "get_free"},
         TagsTold("tag", op, args, obj, new, ret)
  PROVE  IInv'
<1>1. Holds("tag", new)
  BY DEF Holds
<1>2. Told("tag", op, args, obj, new, ret)
  BY OnlyMap
<1>3. QED
  BY <1>1, <1>2, OnIt

\* read_taglist.
LEMMA TagReads == TagCalled /\ TagRead => IInv'
<1> SUFFICES ASSUME TagCalled, TagRead
             PROVE  IInv'
  OBVIOUS
<1>1. PICK lines \in SeqsUpTo(Items, MaxArg), prefix \in {Tags, {CHOOSE t \in Tags : TRUE}} :
        On("tag", "read", <<lines, prefix>>, read_taglist(lines, obj.sorted, prefix), 1)
  BY DEF TagRead
<1> DEFINE new == read_taglist(lines, obj.sorted, prefix)
           args == <<lines, prefix>>
<1>2. obj \in TagLists
  BY DEF TagCalled, IInv, Holds
<1>3. lines \in Seq(Items) /\ obj.sorted \in BOOLEAN
  BY <1>2, Arguments DEF TagLists
<1>4. new \in TagLists /\ ToSet(new.item) = FirstLines(lines, prefix, Len(lines))
  BY <1>3, ReadsItems
<1>5. args[1] = lines /\ args[2] = prefix
  OBVIOUS
<1>6. On("tag", "read", args, new, 1)
  BY <1>1
<1> HIDE DEF new, args
<1>7. LET first(tag) == lines[SelectInSeq(lines, LAMBDA line : line[1] = tag)]
      IN  MapOf(new) = [tag \in {line[1] : line \in ToSet(lines)} \cap prefix |-> first(tag)[2]]
  BY <1>3, <1>4, MapOfText
<1>8. TagsTold("tag", "read", args, obj, new, 1)
  BY <1>5, <1>7 DEF TagsTold
<1>9. QED
  BY <1>4, <1>6, <1>8, TagEasy

\* insert_taglist.
LEMMA TagInserts == TagCalled /\ TagInsert => IInv'
<1> SUFFICES ASSUME TagCalled, TagInsert
             PROVE  IInv'
  OBVIOUS
<1>1. PICK item \in Items : On("tag", "insert", <<item>>, insert_taglist(obj, item), 1)
  BY DEF TagInsert
<1> DEFINE new == insert_taglist(obj, item)
           args == <<item>>
<1>2. obj \in TagLists
  BY DEF TagCalled, IInv, Holds
<1>3. /\ new \in TagLists
      /\ ToSet(new.item) = IF item[1] \in TagsOf(obj) THEN ToSet(obj.item)
                                                      ELSE ToSet(obj.item) \cup {item}
  BY <1>2, InsertsItem
<1>4. args[1] = item
  OBVIOUS
<1>5. On("tag", "insert", args, new, 1)
  BY <1>1
<1> HIDE DEF new, args
<1>6. MapOf(new) = IF item[1] \in DOMAIN MapOf(obj) THEN MapOf(obj) ELSE Entered(MapOf(obj), item)
  BY <1>2, <1>3, MapWith
<1>7. TagsTold("tag", "insert", args, obj, new, 1)
  BY <1>4, <1>6 DEF TagsTold
<1>8. QED
  BY <1>3, <1>5, <1>7, TagEasy

\* replace_taglist.
LEMMA TagReplaces == TagCalled /\ TagReplace => IInv'
<1> SUFFICES ASSUME TagCalled, TagReplace
             PROVE  IInv'
  OBVIOUS
<1>1. PICK item \in Items : On("tag", "replace", <<item>>, replace_taglist(obj, item), 1)
  BY DEF TagReplace
<1> DEFINE new == replace_taglist(obj, item)
           args == <<item>>
<1>2. obj \in TagLists
  BY DEF TagCalled, IInv, Holds
<1>3. /\ new \in TagLists
      /\ ToSet(new.item) = {x \in ToSet(obj.item) : x[1] # item[1]} \cup {item}
  BY <1>2, ReplacesItem
<1>4. args[1] = item
  OBVIOUS
<1>5. On("tag", "replace", args, new, 1)
  BY <1>1
<1> HIDE DEF new, args
<1>6. MapOf(new) = Entered(MapOf(obj), item)
  BY <1>2, <1>3, MapOver
<1>7. TagsTold("tag", "replace", args, obj, new, 1)
  BY <1>4, <1>6 DEF TagsTold
<1>8. QED
  BY <1>3, <1>5, <1>7, TagEasy

\* update_taglist.
LEMMA TagUpdates == TagCalled /\ TagUpdate => IInv'
<1> SUFFICES ASSUME TagCalled, TagUpdate
             PROVE  IInv'
  OBVIOUS
<1>1. PICK item \in Items : On("tag", "update", <<item>>, update_taglist(obj, item[2], item[1]), 1)
  BY DEF TagUpdate
<1> DEFINE new == update_taglist(obj, item[2], item[1])
           args == <<item>>
<1>2. obj \in TagLists
  BY DEF TagCalled, IInv, Holds
<1>3. /\ new \in TagLists
      /\ ToSet(new.item) = {x \in ToSet(obj.item) : x[1] # item[1]} \cup
                           (IF item[2] = NoValue THEN {} ELSE {item})
  BY <1>2, UpdatesItem
<1>4. args[1] = item
  OBVIOUS
<1>5. On("tag", "update", args, new, 1)
  BY <1>1
<1> HIDE DEF new, args
<1>6. ASSUME item[2] = NoValue
      PROVE  MapOf(new) = [tag \in DOMAIN MapOf(obj) \ {item[1]} |-> MapOf(obj)[tag]]
  <2> DEFINE t == item[1]
  <2>1. ToSet(new.item) = {x \in ToSet(obj.item) : x[1] # t}
    BY <1>3, <1>6
  <2> HIDE DEF t
  <2>2. MapOf(new) = [tag \in DOMAIN MapOf(obj) \ {t} |-> MapOf(obj)[tag]]
    BY <1>2, <1>3, <2>1, MapWithout
  <2>3. QED
    BY <2>2 DEF t
<1>7. item[2] # NoValue => MapOf(new) = Entered(MapOf(obj), item)
  BY <1>2, <1>3, MapOver
<1>8. TagsTold("tag", "update", args, obj, new, 1)
  BY <1>4, <1>6, <1>7 DEF TagsTold
<1>9. QED
  BY <1>3, <1>5, <1>8, TagEasy

\* exist_taglist and get_taglist.
LEMMA TagGets == TagCalled /\ TagGet => IInv'
<1> SUFFICES ASSUME TagCalled, TagGet
             PROVE  IInv'
  OBVIOUS
<1>1. PICK tag \in Tags :
        On("tag", "get", <<tag>>, obj, <<exist_taglist(obj, tag), get_taglist(obj, tag)>>)
  BY DEF TagGet
<1> DEFINE ret == <<exist_taglist(obj, tag), get_taglist(obj, tag)>>
           args == <<tag>>
<1>2. obj \in TagLists
  BY DEF TagCalled, IInv, Holds
<1>3. /\ exist_taglist(obj, tag) <=> tag \in TagsOf(obj)
      /\ get_taglist(obj, tag) = IF tag \in DOMAIN MapOf(obj) THEN MapOf(obj)[tag] ELSE NoValue
  BY <1>2, Gets
<1>4. TagsOf(obj) = DOMAIN MapOf(obj)
  BY <1>2, MapProps
<1>5. exist_taglist(obj, tag) = (tag \in DOMAIN MapOf(obj))
  BY <1>3, <1>4 DEF exist_taglist
<1>6. ret = <<tag \in DOMAIN MapOf(obj),
              IF tag \in DOMAIN MapOf(obj) THEN MapOf(obj)[tag] ELSE NoValue>>
  BY <1>3, <1>5
<1>7. args[1] = tag
  OBVIOUS
<1>8. On("tag", "get", args, obj, ret)
  BY <1>1
<1> HIDE DEF ret, args
<1>9. TagsTold("tag", "get", args, obj, obj, ret)
  BY <1>6, <1>7 DEF TagsTold
<1>10. QED
  BY <1>2, <1>8, <1>9, TagEasy

\* sort_taglist and unsort_taglist.
LEMMA TagSorts == TagCalled /\ (TagSort \/ TagUnsort) => IInv'
<1> SUFFICES ASSUME TagCalled, TagSort \/ TagUnsort
             PROVE  IInv'
  OBVIOUS
<1> DEFINE args == <<>>
<1>1. obj \in TagLists
  BY DEF TagCalled, IInv, Holds
<1>2. PICK new \in {sort_taglist(obj), unsort_taglist(obj)}, ret \in {0, 1} :
        On("tag", "keep", args, new, ret)
  BY DEF TagSort, TagUnsort
<1>3. new \in TagLists /\ ToSet(new.item) = ToSet(obj.item)
  <2>1. unsort_taglist(obj).item = obj.item
    BY <1>1 DEF unsort_taglist, TagLists
  <2>2. QED
    BY <1>1, <2>1, SortsItems
<1> HIDE DEF args
<1>4. MapOf(new) = MapOf(obj)
  BY <1>1, <1>3, SameMap
<1>5. TagsTold("tag", "keep", args, obj, new, ret)
  BY <1>4 DEF TagsTold
<1>6. QED
  BY <1>2, <1>3, <1>5, TagEasy

\* compare_taglist.
LEMMA TagCompares == TagCalled /\ TagCompare => IInv'
<1> SUFFICES ASSUME TagCalled, TagCompare
             PROVE  IInv'
  OBVIOUS
<1>1. PICK b \in TagArgs : On("tag", "compare", <<b>>, obj, compare_taglist(obj, b))
  BY DEF TagCompare
<1> DEFINE ret == compare_taglist(obj, b)
           args == <<b>>
<1>2. obj \in TagLists
  BY DEF TagCalled, IInv, Holds
<1>3. b \in TagLists
  <2>1. PICK s \in SeqsUpTo(Items, MaxArg), sorted \in BOOLEAN : b = read_taglist(s, sorted, Tags)
    BY DEF TagArgs
  <2>2. s \in Seq(Items)
    BY Arguments
  <2>3. QED
    BY <2>1, <2>2, ReadsItems
<1>4. /\ ret \in BOOLEAN
      /\ MapOf(obj) = MapOf(b) => ~ret
      /\ MapOf(obj) # MapOf(b) /\ ~ret =>
           /\ ~(obj.sorted /\ b.sorted)
           /\ \E tag \in DOMAIN MapOf(obj) \ DOMAIN MapOf(b) : MapOf(obj)[tag] = NoValue
  BY <1>2, <1>3, Compares
<1>5. args[1] = b
  OBVIOUS
<1>6. On("tag", "compare", args, obj, ret)
  BY <1>1
<1> HIDE DEF ret, args
<1>7. \/ ret = (MapOf(obj) # MapOf(b))
      \/ /\ ~(obj.sorted /\ b.sorted) /\ ~ret
         /\ \E tag \in DOMAIN MapOf(obj) \ DOMAIN MapOf(b) : MapOf(obj)[tag] = NoValue
  <2>1. CASE ret = TRUE
    BY <1>4, <2>1
  <2>2. CASE ret = FALSE
    BY <1>4, <2>2
  <2>3. QED
    BY <1>4, <2>1, <2>2
<1>8. TagsTold("tag", "compare", args, obj, obj, ret)
  BY <1>5, <1>7 DEF TagsTold
<1>9. QED
  BY <1>2, <1>6, <1>8, TagEasy

\* No call of a tag list breaks the invariant.
LEMMA TagSteps == TagCalled /\ TagNext => IInv'
<1> SUFFICES ASSUME TagCalled, TagNext
             PROVE  IInv'
  OBVIOUS
<1>1. CASE TagRead
  BY <1>1, TagReads
<1>2. CASE TagInsert
  BY <1>2, TagInserts
<1>3. CASE TagUpdate
  BY <1>3, TagUpdates
<1>4. CASE TagReplace
  BY <1>4, TagReplaces
<1>5. CASE TagGet
  BY <1>5, TagGets
<1>6. CASE TagSort \/ TagUnsort
  BY <1>6, TagSorts
<1>7. CASE TagCompare
  BY <1>7, TagCompares
<1>8. QED
  BY <1>1, <1>2, <1>3, <1>4, <1>5, <1>6, <1>7 DEF TagNext

-----------------------------------------------------------------------------
(* The theorems                                                            *)

\* No call breaks the invariant, and neither does the return from one.
LEMMA Kept == IInv /\ [Next]_vars => IInv'
<1> SUFFICES ASSUME IInv, [Next]_vars
             PROVE  IInv'
  OBVIOUS
<1>1. CASE NumNext
  <2>1. kind = "num"
    BY <1>1 DEF NumNext, NumCreate, NumInsert, NumInsertAt, NumUnshift, NumRemove, NumUnion,
       NumIntersect, NumExcept, NumUnique, NumSetMultiple, NumSort, NumReorder, NumGetFree,
       NumSerialize, NumToIp
  <2>2. QED
    BY <1>1, <2>1, NumSteps DEF NumCalled
<1>2. CASE IpNext
  <2>1. kind = "ip"
    BY <1>2 DEF IpNext, IpCreate, IpInsert, IpAppend, IpRemove, IpUnion, IpIntersect, IpExcept,
       IpUnique, IpSetMultiple, IpSort, IpSerialize, IpToNum
  <2>2. QED
    BY <1>2, <2>1, IpSteps DEF IpCalled
<1>3. CASE LinkNext
  <2>1. kind = "link"
    BY <1>3 DEF LinkNext, LinkCreate, LinkInsert, LinkRemove, LinkClear, LinkSerialize
  <2>2. QED
    BY <1>3, <2>1, LinkSteps DEF LinkCalled
<1>4. CASE TagNext
  <2>1. kind = "tag"
    BY <1>4 DEF TagNext, TagRead, TagInsert, TagUpdate, TagReplace, TagGet, TagSort, TagUnsort,
       TagCompare
  <2>2. QED
    BY <1>4, <2>1, TagSteps DEF TagCalled
<1>5. CASE Return
  BY <1>5 DEF Return, IInv
<1>6. CASE UNCHANGED vars
  BY <1>6 DEF vars, IInv
<1>7. QED
  BY <1>1, <1>2, <1>3, <1>4, <1>5, <1>6 DEF Next

\* The invariant holds in every state a program of calls can reach.
THEOREM Invariance == Spec => []IInv
<1>1. QED
  BY Initially, Kept, PTL DEF Spec

\* TypeOK: the lists hold numbers and strings of the program, no more than there is
\* room for, and the last call is what it is said to be.
THEOREM TypeCorrect == Spec => []TypeOK
<1>1. IInv => TypeOK
  BY Implied
<1>2. QED
  BY <1>1, Invariance, PTL

\* NoDuplicates: no calls of numlist.c, iplist.c or taglist.c put an item twice on a list
\* that does not allow it, but for the second copy of its first string that unique_iplist
\* leaves; none leaves a sorted tag list out of order.
THEOREM NeverTwice == Spec => []NoDuplicates
<1>1. IInv => NoDuplicates
  BY Implied
<1>2. QED
  BY <1>1, Invariance, PTL

\* Members: the functions of numlist.h and iplist.h that add, remove and combine leave the
\* set of members their comments say.
THEOREM RightMembers == Spec => []Members
<1>1. IInv => Members
  BY Implied
<1>2. QED
  BY <1>1, Invariance, PTL

\* Placed: insert_numlist_at_pos and unshift_numlist put the number where they are told to.
THEOREM RightPlace == Spec => []Placed
<1>1. IInv => Placed
  BY Implied
<1>2. QED
  BY <1>1, Invariance, PTL

\* Reordered: reorder_numlist moves the fragment behind the last item of the reference and
\* leaves the order of the others alone, or changes nothing.
THEOREM RightOrder == Spec => []Reordered
<1>1. IInv => Reordered
  BY Implied
<1>2. QED
  BY <1>1, Invariance, PTL

\* FreeIsFree: the number get_free_numlist returns is positive, not on the list and at most
\* one above its size.
THEOREM ReallyFree == Spec => []FreeIsFree
<1>1. IInv => FreeIsFree
  BY Implied
<1>2. QED
  BY <1>1, Invariance, PTL

\* TagsAreMap: the functions of taglist.c treat a list, sorted or not, as a map from tags to
\* values, but for what compare_taglist says of a missing tag.
THEOREM RightMap == Spec => []TagsAreMap
<1>1. IInv => TagsAreMap
  BY Implied
<1>2. QED
  BY <1>1, Invariance, PTL

-----------------------------------------------------------------------------
(* Numbers as text                                                         *)

\* The function behind Width.
Widths(m, w) == w = [n \in 0 .. m |-> IF n < Base THEN 1 ELSE 1 + w[n \div Base]]

\* Quotients.
LEMMA Quotients ==
  ASSUME NEW d \in Int, d > 1, NEW n \in Int, n >= 0, NEW k \in Int, n <= k
  PROVE  n \div d \in Nat /\ n \div d <= k \div d /\ (n > 0 => n \div d < n)
<1>1. n \div d \in Nat
  OBVIOUS
<1>2. n \div d <= k \div d
  OBVIOUS
<1>3. n > 0 => n \div d < n
  OBVIOUS
<1>4. QED
  BY <1>1, <1>2, <1>3

\* A number gets smaller without its last digit, in the order of the numbers.
LEMMA FewerDigits ==
  ASSUME NEW n \in Nat, NEW k \in Nat, n <= k
  PROVE  /\ n \div Base \in Nat /\ n \div Base <= k \div Base
         /\ n >= Base => n \div Base < n
<1>1. Base \in Int /\ Base > 1 /\ n \in Int /\ n >= 0 /\ k \in Int
  BY NumAssumption
<1>2. n \div Base \in Nat /\ n \div Base <= k \div Base /\ (n > 0 => n \div Base < n)
  BY <1>1, Quotients
<1>3. QED
  BY <1>1, <1>2

\* It exists.
LEMMA WidthsExist ==
  ASSUME NEW N \in Nat
  PROVE  \E w : Widths(N, w)
<1> DEFINE G == {m \in Nat : \E w : Widths(m, w)}
<1>1. 0 \in G
  <2> DEFINE w == [n \in 0 .. 0 |-> 1]
  <2>1. \A n \in 0 .. 0 : n < Base
    BY NumAssumption
  <2>2. Widths(0, w)
    BY <2>1 DEF Widths
  <2> HIDE DEF w
  <2>3. QED
    BY <2>2
<1>2. ASSUME NEW m \in 1 .. N, m - 1 \in G
      PROVE  m \in G
  <2>1. PICK v : Widths(m - 1, v)
    BY <1>2
  <2> DEFINE w == [n \in 0 .. m |-> IF n < Base THEN 1 ELSE 1 + v[n \div Base]]
  <2>2. ASSUME NEW n \in 0 .. m, n >= Base
        PROVE  n \div Base \in 0 .. m - 1
    <3>1. n \div Base \in Nat /\ n \div Base < n
      BY <2>2, FewerDigits
    <3>2. QED
      BY <3>1
  <2>3. ASSUME NEW n \in 0 .. m - 1
        PROVE  w[n] = v[n]
    BY <2>1 DEF Widths
  <2>4. w = [n \in 0 .. m |-> IF n < Base THEN 1 ELSE 1 + w[n \div Base]]
    <3>1. \A n \in 0 .. m : n < Base \/ v[n \div Base] = w[n \div Base]
      <4>1. \A n \in 0 .. m : n < Base \/ n >= Base
        BY NumAssumption
      <4> HIDE DEF w
      <4>2. QED
        BY <2>2, <2>3, <4>1
    <3>2. w = [n \in 0 .. m |-> IF n < Base THEN 1 ELSE 1 + v[n \div Base]]
      OBVIOUS
    <3> HIDE DEF w
    <3>3. QED
      BY <3>1, <3>2, Zenon
  <2>5. \E u : Widths(m, u)
    <3> HIDE DEF w
    <3>1. QED
      BY <2>4 DEF Widths
  <2>6. QED
    BY <2>5
<1> HIDE DEF G
<1>3. \A m \in 0 .. N : m \in G
  BY <1>1, <1>2, UpTo
<1>4. QED
  BY <1>3 DEF G

\* A smaller number is not wider, whatever functions say so.
LEMMA WidthsGrow ==
  ASSUME NEW a \in Nat, NEW b \in Nat, NEW v, NEW w, Widths(a, v), Widths(b, w)
  PROVE  \A n \in 0 .. a : \A k \in 0 .. b :
           v[n] \in Nat \ {0} /\ w[k] \in Nat \ {0} /\ (n <= k => v[n] <= w[k])
<1> DEFINE Ok(n, k) == v[n] \in Nat \ {0} /\ w[k] \in Nat \ {0} /\ (n <= k => v[n] <= w[k])
           G == {m \in Nat : \A n \in 0 .. a : \A k \in 0 .. b : n <= m /\ k <= m => Ok(n, k)}
           N == a + b
<1>1. /\ \A n \in 0 .. a : v[n] = IF n < Base THEN 1 ELSE 1 + v[n \div Base]
      /\ \A n \in 0 .. b : w[n] = IF n < Base THEN 1 ELSE 1 + w[n \div Base]
  BY Zenon DEF Widths
<1>2. 0 \in G
  <2>1. ASSUME NEW n \in 0 .. a, NEW k \in 0 .. b, n <= 0, k <= 0
        PROVE  Ok(n, k)
    BY <1>1, <2>1, NumAssumption
  <2>2. QED
    BY <2>1
<1>3. ASSUME NEW m \in 1 .. N, m - 1 \in G
      PROVE  m \in G
  <2>1. ASSUME NEW n \in 0 .. a, NEW k \in 0 .. b, n <= m, k <= m
        PROVE  Ok(n, k)
    <3> DEFINE p == n \div Base
               q == k \div Base
    <3>1. /\ p \in Nat /\ q \in Nat
          /\ n >= Base => p < n
          /\ k >= Base => q < k
          /\ n <= k => p <= q
      BY FewerDigits
    <3> HIDE DEF p, q
    <3>2. /\ v[n] = IF n < Base THEN 1 ELSE 1 + v[p]
          /\ w[k] = IF k < Base THEN 1 ELSE 1 + w[q]
      BY <1>1 DEF p, q
    <3>3. 0 \in 0 .. a /\ 0 \in 0 .. b /\ Base \in Nat
      BY NumAssumption
    <3>4. /\ n >= Base => p \in 0 .. a /\ p <= m - 1 /\ Ok(p, 0)
          /\ k >= Base => q \in 0 .. b /\ q <= m - 1 /\ Ok(0, q)
          /\ n >= Base /\ k >= Base => Ok(p, q)
      <4>1. n >= Base => p \in 0 .. a /\ p <= m - 1
        BY <2>1, <3>1, <3>3
      <4>2. k >= Base => q \in 0 .. b /\ q <= m - 1
        BY <2>1, <3>1, <3>3
      <4>3. \A i \in 0 .. a : \A j \in 0 .. b : i <= m - 1 /\ j <= m - 1 => Ok(i, j)
        BY <1>3
      <4>4. 0 <= m - 1
        OBVIOUS
      <4> HIDE DEF Ok, N
      <4>5. QED
        BY <3>3, <4>1, <4>2, <4>3, <4>4
    <3>5. v[n] \in Nat \ {0}
      BY <3>2, <3>3, <3>4
    <3>6. w[k] \in Nat \ {0}
      BY <3>2, <3>3, <3>4
    <3>7. n <= k => v[n] <= w[k]
      BY <3>1, <3>2, <3>3, <3>4, <3>6
    <3>8. QED
      BY <3>5, <3>6, <3>7
  <2> HIDE DEF Ok
  <2>2. m \in Nat
    OBVIOUS
  <2>3. QED
    BY <2>1, <2>2
<1>4. N \in G
  <2>1. N \in Nat
    OBVIOUS
  <2> HIDE DEF G, N
  <2>2. \A m \in 0 .. N : m \in G
    BY <1>2, <1>3, <2>1, UpTo
  <2>3. QED
    BY <2>1, <2>2
<1>5. \A n \in 0 .. a : \A k \in 0 .. b : Ok(n, k)
  <2>1. \A n \in 0 .. a : n <= N
    OBVIOUS
  <2>2. \A k \in 0 .. b : k <= N
    OBVIOUS
  <2> HIDE DEF Ok, N
  <2>3. QED
    BY <1>4, <2>1, <2>2
<1>6. QED
  BY <1>5

\* Every number has at least one character, a smaller one not more.
LEMMA WidthGrows ==
  ASSUME NEW a \in Nat, NEW b \in Nat, a <= b
  PROVE  Width(a) \in Nat \ {0} /\ Width(b) \in Nat \ {0} /\ Width(a) <= Width(b)
<1> DEFINE v == CHOOSE w : Widths(a, w)
           u == CHOOSE w : Widths(b, w)
<1>1. Width(a) = v[a] /\ Width(b) = u[b]
  BY DEF Width, Widths
<1>2. Widths(a, v) /\ Widths(b, u)
  BY WidthsExist
<1> HIDE DEF v, u
<1>3. a \in 0 .. a /\ b \in 0 .. b
  OBVIOUS
<1>4. QED
  BY <1>1, <1>2, <1>3, WidthsGrow

\* The function behind serialize_numlist: how far the text has grown.
Grows(items, e) ==
  e = [i \in 0 .. Len(items) |->
         IF i = 0 THEN 0 ELSE e[i - 1] + Width(items[i]) + (IF i > 1 THEN 1 ELSE 0)]

\* It exists.
LEMMA GrowsExists ==
  ASSUME NEW items \in Seq(Nat)
  PROVE  \E e : Grows(items, e)
<1> DEFINE N == Len(items)
           More(i) == Width(items[i]) + (IF i > 1 THEN 1 ELSE 0)
           Is(m, e) == e = [i \in 0 .. m |-> IF i = 0 THEN 0 ELSE e[i - 1] + Width(items[i]) + (IF i > 1 THEN 1 ELSE 0)]
           G == {m \in Nat : \E e : Is(m, e)}
<1>0. N \in Nat
  OBVIOUS
<1>1. 0 \in G
  <2> DEFINE e == [i \in 0 .. 0 |-> 0]
  <2>1. Is(0, e)
    OBVIOUS
  <2> HIDE DEF e, Is
  <2>2. QED
    BY <2>1
<1>2. ASSUME NEW m \in 1 .. N, m - 1 \in G
      PROVE  m \in G
  <2>1. PICK d : Is(m - 1, d)
    BY <1>2
  <2> DEFINE e == [i \in 0 .. m |-> IF i = 0 THEN 0 ELSE d[i - 1] + Width(items[i]) + (IF i > 1 THEN 1 ELSE 0)]
  <2>2. ASSUME NEW i \in 0 .. m, i # 0
        PROVE  e[i - 1] = d[i - 1]
    <3>1. i - 1 \in 0 .. m - 1 /\ i - 1 \in 0 .. m
      BY <2>2
    <3>2. QED
      BY <2>1, <3>1, Zenon
  <2>3. Is(m, e)
    <3>1. e = [i \in 0 .. m |-> IF i = 0 THEN 0 ELSE d[i - 1] + Width(items[i]) + (IF i > 1 THEN 1 ELSE 0)]
      OBVIOUS
    <3> HIDE DEF e
    <3>2. QED
      BY <2>2, <3>1, Zenon
  <2> HIDE DEF e, Is
  <2>4. m \in Nat
    BY <1>0
  <2>5. QED
    BY <2>3, <2>4
<1> HIDE DEF G
<1>3. N \in G
  <2> HIDE DEF N
  <2>1. \A m \in 0 .. N : m \in G
    BY <1>0, <1>1, <1>2, UpTo
  <2>2. QED
    BY <1>0, <2>1
<1>4. QED
  BY <1>3 DEF G, Grows

\* Every number gets into the buffer whole.
LEMMA Serializes ==
  ASSUME NEW list \in ListOf(Numbers)
  PROVE  serialize_numlist(list) = list.item
<1> DEFINE items == list.item
           N == Len(items)
           e == CHOOSE f : Grows(items, f)
           top == Max({0} \cup ToSet(items))
           W == Width(top)
           S == {i \in 0 .. N : i = 0 \/ e[i] <= resultz(items) - 1}
<1>0. serialize_numlist(list) = SubSeq(items, 1, Max(S))
  BY DEF serialize_numlist, Grows
<1>1. items \in Seq(Numbers) /\ N \in Nat /\ items \in Seq(Nat)
  <2>1. items \in Seq(Numbers)
    BY DEF ListOf
  <2>2. \A i \in 1 .. N : items[i] \in Nat
    <3>1. \A i \in 1 .. N : items[i] \in Numbers
      BY <2>1
    <3>2. QED
      BY <3>1, NumbersAreNat
  <2>3. QED
    BY <2>1, <2>2
<1>2. Grows(items, e)
  BY <1>1, GrowsExists
<1> HIDE DEF e
<1>3. top \in Nat /\ \A i \in 1 .. N : items[i] \in Nat /\ items[i] <= top
  <2> DEFINE M == {0} \cup ToSet(items)
  <2>1. ToSet(items) = {items[i] : i \in 1 .. N}
    BY <1>1 DEF ToSet
  <2>2. PICK b \in Nat : \A i \in 1 .. N : items[i] <= b
    BY <1>1, Bounded
  <2>3. \A x \in M : x <= b
    BY <2>1, <2>2
  <2>4. M \subseteq Nat /\ M \subseteq Int /\ M # {} /\ b \in Int
    BY <1>1, <2>1
  <2> HIDE DEF M
  <2>5. Max(M) \in M /\ \A y \in M : Max(M) >= y
    BY <2>3, <2>4, MaxProps
  <2>6. \A i \in 1 .. N : items[i] \in M
    BY <2>1 DEF M
  <2>7. QED
    BY <2>4, <2>5, <2>6 DEF M
<1> HIDE DEF top
<1>4. W \in Nat \ {0} /\ \A i \in 1 .. N : Width(items[i]) \in Nat \ {0} /\ Width(items[i]) <= W
  <2>1. \A n \in Nat : n <= top => Width(n) \in Nat \ {0} /\ W \in Nat \ {0} /\ Width(n) <= W
    BY <1>3, WidthGrows
  <2>2. top <= top
    BY <1>3
  <2> HIDE DEF W
  <2>3. QED
    BY <1>3, <2>1, <2>2
<1> HIDE DEF W
<1>5. /\ e[0] = 0
      /\ \A i \in 1 .. N : e[i] = e[i - 1] + Width(items[i]) + (IF i > 1 THEN 1 ELSE 0)
  <2>1. \A i \in 0 .. N :
          e[i] = IF i = 0 THEN 0 ELSE e[i - 1] + Width(items[i]) + (IF i > 1 THEN 1 ELSE 0)
    BY <1>2, Zenon DEF Grows
  <2>2. QED
    BY <1>1, <2>1
<1>6. e[N] \in Nat /\ (N > 0 => e[N] <= N * (1 + W) - 1)
  <2> DEFINE G == {m \in Nat : e[m] \in Nat /\ (m > 0 => e[m] <= m * (1 + W) - 1)}
  <2>1. 0 \in G
    BY <1>5
  <2>2. ASSUME NEW m \in 1 .. N, m - 1 \in G
        PROVE  m \in G
    <3> DEFINE w == Width(items[m])
    <3>1. w \in Nat /\ w <= W /\ W \in Nat
      BY <1>4
    <3>2. e[m] = e[m - 1] + w + (IF m > 1 THEN 1 ELSE 0)
      BY <1>5
    <3>3. e[m - 1] \in Nat /\ (m - 1 > 0 => e[m - 1] <= (m - 1) * (1 + W) - 1)
      BY <2>2
    <3> HIDE DEF w
    <3>4. CASE m = 1
      BY <1>5, <3>1, <3>2, <3>4
    <3>5. CASE m > 1
      <4> DEFINE x == (m - 1) * (1 + W)
      <4>1. m * (1 + W) = x + (1 + W) /\ x \in Nat
        BY <3>1
      <4> HIDE DEF x
      <4>2. QED
        <5>1. e[m - 1] <= x - 1 /\ e[m - 1] \in Nat
          BY <3>3, <3>5 DEF x
        <5>2. e[m] = e[m - 1] + w + 1
          BY <3>2, <3>5
        <5> DEFINE d == e[m - 1]
                   f == e[m]
        <5>3. d \in Nat /\ d <= x - 1 /\ f = d + w + 1
          BY <5>1, <5>2
        <5> HIDE DEF d, f
        <5>4. f \in Nat /\ f <= m * (1 + W) - 1
          BY <3>1, <4>1, <5>3
        <5>5. QED
          BY <5>4 DEF f
    <3>6. QED
      BY <3>4, <3>5
  <2> HIDE DEF G, N
  <2>3. \A m \in 0 .. N : m \in G
    BY <1>1, <2>1, <2>2, UpTo
  <2>4. QED
    BY <1>1, <2>3 DEF G
<1>7. resultz(items) = N * (1 + W)
  BY DEF resultz, W, top
<1>8. N \in S
  <2>1. N = 0 \/ e[N] <= resultz(items) - 1
    BY <1>1, <1>6, <1>7
  <2>2. QED
    BY <1>1, <2>1
<1>9. Max(S) = N
  <2>1. S \subseteq Int /\ \A y \in S : N >= y
    BY <1>1
  <2> HIDE DEF S
  <2>2. QED
    BY <1>8, <2>1, MaxIs
<1>10. SubSeq(items, 1, N) = items
  BY <1>1
<1>11. QED
  BY <1>0, <1>9, <1>10

\* Numbers that the map cannot confuse.
Clear(nums) == \A i \in DOMAIN nums : OwnBit(nums[i]) \/ ~Covered(nums[i])

\* Different numbers that the map does not confuse stay as they are.
LEMMA AllKept ==
  ASSUME NEW nums \in Seq(Numbers), IsInjective(nums), Clear(nums)
  PROVE  Deduplicated(nums) = nums
<1> DEFINE N == Len(nums)
           A == SoundPasses
           step == PassStep(nums)
           Upto(m) == SubSeq(nums, 1, m)
<1>1. /\ N \in Nat /\ DOMAIN nums = 1 .. N /\ Upto(N) = nums /\ Upto(0) = <<>>
      /\ \A i \in 1 .. N : nums[i] \in Numbers /\ nums[i] \in Nat
      /\ \A i, j \in 1 .. N : nums[i] = nums[j] => i = j
  <2>1. \A i \in 1 .. N : nums[i] \in Numbers
    OBVIOUS
  <2>2. \A i \in 1 .. N : nums[i] \in Nat
    BY <2>1, NumbersAreNat
  <2>3. \A i, j \in 1 .. N : nums[i] = nums[j] => i = j
    BY DEF IsInjective
  <2>4. QED
    BY <2>1, <2>2, <2>3
<1>2. PICK it : /\ LeftRun(A, N, Nothing, step, it)
                /\ Deduplicated(nums) = it[1 .. N].kept
  BY PassRuns
<1> DEFINE G == [m \in 0 .. N |->
                   {a \in A : /\ a.kept = Upto(m)
                              /\ \A x \in a.seen : \E i \in 1 .. m :
                                   Covered(nums[i]) /\ x \in DdmBits(nums[i])}]
<1>3. Nothing \in G[0]
  <2>1. 0 \in 0 .. N
    BY <1>1
  <2>2. QED
    BY <1>1, <2>1, NothingIsSound
<1>4. ASSUME NEW m \in 1 .. N, NEW a \in A, a \in G[m - 1]
      PROVE  step[<<a, m>>] \in G[m]
  <2> DEFINE num == nums[m]
             found == exist_pos(a.kept, num, 0) # 0
             bits == DdmBits(num)
             new == Pass(a, num, found)
  <2>1. /\ step[<<a, m>>] = new /\ new \in A
    <3>1. /\ Pass(a, nums[m], exist_pos(a.kept, nums[m], 0) # 0) \in SoundPasses
          /\ PassStep(nums)[<<a, m>>] = Pass(a, nums[m], exist_pos(a.kept, nums[m], 0) # 0)
      BY PassSteps
    <3>2. QED
      BY <3>1
  <2>2. m - 1 \in 0 .. N /\ m \in 0 .. N /\ num \in Nat
    BY <1>1
  <2>3. /\ a.kept = Upto(m - 1)
        /\ \A x \in a.seen : \E i \in 1 .. m - 1 : Covered(nums[i]) /\ x \in DdmBits(nums[i])
    BY <1>4, <2>2
  <2>4. /\ Upto(m - 1) \in Seq(Numbers) /\ Append(Upto(m - 1), num) = Upto(m)
        /\ \A x : x \in ToSet(Upto(m - 1)) <=> \E i \in 1 .. m - 1 : nums[i] = x
    BY OneMore
  <2>5. ~found
    <3>1. num \notin ToSet(Upto(m - 1))
      BY <1>1, <2>4
    <3>2. exist_pos(Upto(m - 1), num, 0) # 0 <=> num \in ToSet(Upto(m - 1))
      BY <2>4, ExistsMember
    <3>3. QED
      BY <2>3, <3>1, <3>2
  <2>6. Covered(num) => a.seen \cap bits = {}
    <3>1. SUFFICES ASSUME Covered(num), NEW x \in a.seen, x \in bits
                   PROVE  FALSE
      OBVIOUS
    <3>2. PICK i \in 1 .. m - 1 : Covered(nums[i]) /\ x \in DdmBits(nums[i])
      BY <2>3
    <3>3. i \in 1 .. N /\ i # m
      BY <1>1
    <3>4. OwnBit(num) /\ OwnBit(nums[i])
      BY <1>1, <3>1, <3>2, <3>3 DEF Clear
    <3>5. DdmBits(num) \cap DdmBits(nums[i]) # {}
      BY <3>1, <3>2
    <3>6. num = nums[i]
      BY <1>1, <2>2, <3>3, <3>4, <3>5, OwnBitsDiffer
    <3>7. QED
      BY <1>1, <3>3, <3>6
  <2> HIDE DEF found, bits, A, step
  <2>7. /\ new.kept = Append(a.kept, num)
        /\ new.seen = IF Covered(num) THEN a.seen \cup bits ELSE a.seen
    BY <2>5, <2>6 DEF Pass, bits
  <2>8. ASSUME NEW x \in new.seen
        PROVE  \E i \in 1 .. m : Covered(nums[i]) /\ x \in DdmBits(nums[i])
    <3>1. CASE x \in a.seen
      <4>1. PICK i \in 1 .. m - 1 : Covered(nums[i]) /\ x \in DdmBits(nums[i])
        BY <2>3, <3>1
      <4>2. QED
        BY <4>1
    <3>2. CASE x \notin a.seen
      <4>1. Covered(num) /\ x \in bits /\ m \in 1 .. m
        BY <2>7, <2>8, <3>2
      <4>2. QED
        BY <4>1 DEF bits
    <3>3. QED
      BY <3>1, <3>2
  <2> HIDE DEF new, num
  <2>9. new.kept = Upto(m)
    BY <2>3, <2>4, <2>7
  <2>10. QED
    BY <2>1, <2>2, <2>8, <2>9
<1> HIDE DEF G, A, step
<1>5. it[1 .. N] \in G[N]
  <2>1. N \in Nat /\ LeftRun(A, N, Nothing, step, it)
    BY <1>1, <1>2
  <2> HIDE DEF N
  <2>2. QED
    BY <1>3, <1>4, <2>1, RunKeeps
<1>6. it[1 .. N].kept = Upto(N)
  <2>1. N \in 0 .. N
    BY <1>1
  <2>2. QED
    BY <1>5, <2>1 DEF G
<1>7. QED
  BY <1>1, <1>2, <1>6

\* The text of a list of numbers is read back.
LEMMA NumbersReadBack ==
  ASSUME NEW list \in ListOf(Numbers), Unique(list), list.multiple \/ Clear(list.item)
  PROVE  create_numlist(list.item, list.multiple) = list
<1> DEFINE words == list.item
           N == Len(words)
           stop == CHOOSE i \in 1 .. N + 1 :
                     (i <= N => words[i] < 0) /\ \A j \in 1 .. i - 1 : words[j] >= 0
           read == SubSeq(words, 1, stop - 1)
           items == IF list.multiple THEN read ELSE Deduplicated(read)
<1>1. words \in Seq(Numbers) /\ N \in Nat /\ \A i \in 1 .. N : words[i] \in Nat
  <2>1. words \in Seq(Numbers) /\ N \in Nat
    BY DEF ListOf
  <2>2. \A i \in 1 .. N : words[i] \in Numbers
    BY <2>1
  <2>3. QED
    BY <2>1, <2>2, NumbersAreNat
<1>2. create_numlist(words, list.multiple) = List(items, list.multiple)
  BY DEF create_numlist
<1>3. stop = N + 1
  <2>1. N + 1 \in 1 .. N + 1 /\ \A j \in 1 .. N : words[j] >= 0 /\ ~(words[j] < 0)
    BY <1>1
  <2>2. \E i \in 1 .. N + 1 : (i <= N => words[i] < 0) /\ \A j \in 1 .. i - 1 : words[j] >= 0
    BY <1>1, <2>1
  <2>3. stop \in 1 .. N + 1 /\ (stop <= N => words[stop] < 0)
    BY <2>2
  <2> HIDE DEF stop
  <2>4. QED
    BY <1>1, <2>1, <2>3
<1> HIDE DEF stop
<1>4. read = words
  BY <1>1, <1>3
<1>5. items = words
  <2>1. ~list.multiple => Deduplicated(words) = words
    BY <1>1, AllKept DEF Unique
  <2>2. QED
    BY <1>4, <2>1
<1>6. list = [item |-> words, multiple |-> list.multiple]
  BY DEF ListOf
<1>7. QED
  BY <1>2, <1>5, <1>6 DEF List

\* Where repetitions and empty strings are allowed, every token counts.
LEMMA TokensKept ==
  ASSUME NEW T, NEW tokens \in Seq(T), tokens # <<Empty>>
  PROVE  create_iplist_multiple(tokens) = List(tokens, TRUE)
<1> DEFINE yes == TRUE
           N == Len(tokens)
           A == Made(T, yes)
           base == List(<<>>, yes)
           step == TokenStep(T, tokens, yes, yes)
           new == create_tokens(tokens, yes, yes)
           Upto(m) == SubSeq(tokens, 1, m)
           G == [m \in 0 .. N |-> {a \in A : a.item = Upto(m)}]
<1>0. yes \in BOOLEAN /\ yes
  OBVIOUS
<1> HIDE DEF yes
<1>1. N \in Nat /\ Upto(N) = tokens /\ Upto(0) = <<>> /\ N \in 0 .. N /\ 0 \in 0 .. N
  OBVIOUS
<1>2. PICK it : LeftRun(A, N, base, step, it) /\ new = it[1 .. N]
  BY <1>0, TokensRun, ZenonT(40)
<1>3. base \in G[0]
  BY <1>0, <1>1, EmptyList DEF Made
<1>4. ASSUME NEW m \in 1 .. N, NEW a \in A, a \in G[m - 1]
      PROVE  step[<<a, m>>] \in G[m]
  <2>1. m - 1 \in 0 .. N /\ m \in 0 .. N
    BY <1>1
  <2>2. a.item = Upto(m - 1)
    BY <1>4, <2>1
  <2>3. /\ step[<<a, m>>] \in A
        /\ step[<<a, m>>].item = IF Counts(tokens, yes, a, m)
                                   THEN Append(a.item, tokens[m]) ELSE a.item
    <3>1. /\ step[<<a, m>>] \in A
          /\ step[<<a, m>>].item = IF /\ Counts(tokens, yes, a, m)
                                      /\ yes \/ tokens[m] \notin ToSet(a.item)
                                     THEN Append(a.item, tokens[m]) ELSE a.item
      <4>1. yes \in BOOLEAN /\ a \in Made(T, yes) /\ m \in 1 .. Len(tokens) /\ tokens \in Seq(T)
        BY <1>0
      <4>2. QED
        BY ONLY <4>1, TokenSteps
    <3> HIDE DEF A, step
    <3>2. QED
      BY <1>0, <3>1
  <2>4. Len(Upto(m - 1)) = m - 1 /\ Append(Upto(m - 1), tokens[m]) = Upto(m)
    BY OneMore
  <2>5. Counts(tokens, yes, a, m)
    <3>1. SUFFICES ASSUME tokens[m] = Empty, m >= N, a.item = <<>>
                   PROVE  FALSE
      BY <1>0 DEF Counts
    <3>2. m - 1 = 0 /\ N = 1
      BY <1>1, <2>2, <2>4, <3>1
    <3>3. tokens = <<Empty>>
      BY <3>1, <3>2
    <3>4. QED
      BY <3>3
  <2> HIDE DEF A, step, Upto
  <2>6. QED
    BY <2>1, <2>2, <2>3, <2>4, <2>5
<1> HIDE DEF G, A, step, base, new
<1>5. it[1 .. N] \in G[N]
  <2>1. N \in Nat /\ LeftRun(A, N, base, step, it)
    BY <1>1, <1>2
  <2> HIDE DEF N
  <2>2. QED
    BY <1>3, <1>4, <2>1, RunKeeps
<1>6. new.item = tokens /\ new \in A
  BY <1>1, <1>2, <1>5 DEF G
<1>7. new = List(tokens, TRUE)
  BY <1>0, <1>6 DEF A, Made, ListOf, List
<1>8. QED
  BY <1>7 DEF new, create_iplist_multiple, yes

\* Elsewhere all but the empty ones do, if they are different.
LEMMA TokensSieved ==
  ASSUME NEW T, NEW tokens \in Seq(T), IsInjective(tokens)
  PROVE  create_iplist(tokens) = List(Dropping(tokens, {Empty}), FALSE)
<1> DEFINE no == FALSE
           N == Len(tokens)
           A == Made(T, no)
           base == List(<<>>, no)
           step == TokenStep(T, tokens, no, no)
           new == create_tokens(tokens, no, no)
           Upto(m) == SubSeq(tokens, 1, m)
           G == [m \in 0 .. N |-> {a \in A : a.item = Dropping(Upto(m), {Empty})}]
<1>0. no \in BOOLEAN /\ ~no
  OBVIOUS
<1> HIDE DEF no
<1>1. /\ N \in Nat /\ Upto(N) = tokens /\ Upto(0) = <<>> /\ N \in 0 .. N /\ 0 \in 0 .. N
      /\ DOMAIN tokens = 1 .. N /\ \A i \in 1 .. N : tokens[i] \in T
  OBVIOUS
<1>2. PICK it : LeftRun(A, N, base, step, it) /\ new = it[1 .. N]
  BY <1>0, TokensRun
<1>3. base \in G[0]
  <2>1. Dropping(Upto(0), {Empty}) = <<>>
    BY <1>1, DroppingEmpty
  <2>2. QED
    BY <1>0, <1>1, <2>1, EmptyList DEF Made
<1>4. ASSUME NEW m \in 1 .. N, NEW a \in A, a \in G[m - 1]
      PROVE  step[<<a, m>>] \in G[m]
  <2> DEFINE old == Upto(m - 1)
             e == tokens[m]
             kept == Dropping(old, {Empty})
  <2>1. m - 1 \in 0 .. N /\ m \in 0 .. N
    BY <1>1
  <2>2. a.item = kept
    BY <1>4, <2>1
  <2>3. /\ step[<<a, m>>] \in A
        /\ step[<<a, m>>].item = IF Counts(tokens, no, a, m) /\ (no \/ e \notin ToSet(a.item))
                                   THEN Append(a.item, e) ELSE a.item
    BY <1>0, TokenSteps
  <2>4. /\ old \in Seq(T) /\ Append(old, e) = Upto(m) /\ e \in T
        /\ \A x : x \in ToSet(old) <=> \E i \in 1 .. m - 1 : tokens[i] = x
    BY <1>1, OneMore
  <2>5. Counts(tokens, no, a, m) <=> e # Empty
    BY <1>0 DEF Counts
  <2>6. e \notin ToSet(old)
    BY <1>1, <2>4 DEF IsInjective
  <2> HIDE DEF A, step, Upto, old, e
  <2>7. ToSet(kept) = ToSet(old) \ {Empty}
    BY <2>4, DroppingPicks
  <2>8. Dropping(Append(old, e), {Empty}) = IF e \in {Empty} THEN kept ELSE Append(kept, e)
    <3>1. old \in Seq(T) /\ e \in T
      BY <2>4
    <3>2. QED
      BY <3>1, DroppingAppend
  <2> HIDE DEF kept
  <2>9. step[<<a, m>>].item = Dropping(Upto(m), {Empty})
    BY <1>0, <2>2, <2>3, <2>4, <2>5, <2>6, <2>7, <2>8
  <2>10. QED
    BY <2>1, <2>3, <2>9
<1> HIDE DEF G, A, step, base, new
<1>5. it[1 .. N] \in G[N]
  <2>1. N \in Nat /\ LeftRun(A, N, base, step, it)
    BY <1>1, <1>2
  <2> HIDE DEF N
  <2>2. QED
    BY <1>3, <1>4, <2>1, RunKeeps
<1>6. new.item = Dropping(tokens, {Empty}) /\ new \in A
  BY <1>1, <1>2, <1>5 DEF G
<1> DEFINE kept == Dropping(tokens, {Empty})
<1>7. new = List(kept, FALSE)
  <2>1. new.item = kept
    BY <1>6
  <2> HIDE DEF kept
  <2>2. QED
    BY <1>0, <1>6, <2>1 DEF A, Made, ListOf, List
<1>8. QED
  BY <1>7 DEF new, create_iplist, no

\* A list without what its text cannot hold.
Filled(list) == [list EXCEPT !.item = Dropping(@, {Empty})]

\* The text of a list: tokens that are strings of their own, and the list itself, if its
\* strings are.
LEMMA PlainText ==
  ASSUME NEW list \in ListOf(Strings)
  PROVE  LET text == serialize_iplist(list)
         IN  /\ text \in Seq(Plain)
             /\ list.item = <<Empty>> => text = <<>>
             /\ list.item # <<Empty>> /\ ToSet(list.item) \subseteq Plain => text = list.item
<1> DEFINE item == list.item
           N == Len(item)
           S == Seq(Plain)
           cut == [i \in DOMAIN item |-> Pieces[item[i]]]
           whole == [i \in DOMAIN item |-> <<item[i]>>]
           text == serialize_iplist(list)
<1>1. item \in Seq(Strings) /\ N \in Nat /\ DOMAIN item = 1 .. N /\ \A i \in 1 .. N : item[i] \in Strings
  BY DEF ListOf
<1>2. \A s \in Strings : Pieces[s] \in S
  BY IpAssumption
<1>3. text = IF item = <<Empty>> THEN <<>> ELSE FlattenSeq(cut)
  BY DEF serialize_iplist
<1>4. \A x : x \in ToSet(item) <=> \E i \in 1 .. N : item[i] = x
  BY <1>1, ToSetProps
<1> HIDE DEF text, item
<1>5. cut \in Seq(S)
  <2>1. cut = [i \in 1 .. N |-> cut[i]] /\ \A i \in 1 .. N : cut[i] \in S
    BY <1>1, <1>2
  <2> HIDE DEF cut, S, N
  <2>2. QED
    BY <1>1, <2>1
<1>6. FlattenSeq(cut) \in S
  <2> HIDE DEF cut
  <2>1. QED
    BY <1>5, FlattenProps DEF S
<1>7. ToSet(item) \subseteq Plain => FlattenSeq(cut) = item
  <2>1. SUFFICES ASSUME ToSet(item) \subseteq Plain
                 PROVE  FlattenSeq(cut) = item
    OBVIOUS
  <2>2. \A i \in DOMAIN item : Pieces[item[i]] = <<item[i]>>
    BY <1>1, <1>4, <2>1 DEF Plain
  <2>3. cut = whole
    BY <2>2
  <2>4. FlattenSeq(whole) = item
    BY <1>1, FlattenSingles
  <2> HIDE DEF cut, whole
  <2>5. QED
    BY <2>3, <2>4
<1>8. <<>> \in S
  OBVIOUS
<1> HIDE DEF cut, S
<1>9. text \in S /\ (item = <<Empty>> => text = <<>>)
      /\ (item # <<Empty>> /\ ToSet(item) \subseteq Plain => text = item)
  BY <1>3, <1>6, <1>7, <1>8
<1>10. QED
  BY <1>9 DEF S, item, text

\* A list of one empty string.
LEMMA OnlyEmpty == ToSet(<<Empty>>) = {Empty} /\ IsInjective(<<Empty>>) /\ Dropping(<<Empty>>, {Empty}) = <<>>
<1> DEFINE none == <<>>
           S == {Empty}
<1>1. Dropping(none, S) = none
  BY DroppingEmpty
<1>2. none \in Seq(S) /\ Empty \in S /\ Append(none, Empty) = <<Empty>>
  OBVIOUS
<1>3. ToSet(<<Empty>>) = {Empty} /\ IsInjective(<<Empty>>)
  BY DEF ToSet, IsInjective
<1> HIDE DEF none, S
<1>4. Dropping(Append(none, Empty), S) = Dropping(none, S)
  BY <1>2, DroppingAppend
<1>5. QED
  BY <1>1, <1>2, <1>3, <1>4 DEF none, S

\* A list that is read from tokens of T holds members of T.
LEMMA TokensHeld ==
  ASSUME NEW T, NEW tokens \in Seq(T)
  PROVE  /\ create_iplist(tokens) \in ListOf(T) /\ ToSet(create_iplist(tokens).item) \subseteq T
         /\ create_iplist_multiple(tokens) \in ListOf(T)
         /\ ToSet(create_iplist_multiple(tokens).item) \subseteq T
<1> DEFINE yes == TRUE
           no == FALSE
<1>1. yes \in BOOLEAN /\ no \in BOOLEAN
  OBVIOUS
<1> HIDE DEF yes, no
<1>2. create_tokens(tokens, no, no) \in ListOf(T) /\ create_tokens(tokens, yes, yes) \in ListOf(T)
  BY <1>1, CreatesTokens
<1>3. \A list \in ListOf(T) : ToSet(list.item) \subseteq T
  BY ToSetProps DEF ListOf
<1>4. QED
  BY <1>2, <1>3 DEF create_iplist, create_iplist_multiple, yes, no

\* The text of a list of strings is read back as the list, if and only if every string is
\* read as itself.
LEMMA StringsReadBack ==
  ASSUME NEW list \in ListOf(Strings)
  PROVE  LET text == serialize_iplist(list)
         IN  /\ list.multiple =>
                  (create_iplist_multiple(text) = list
                     <=> list.item # <<Empty>> /\ ToSet(list.item) \subseteq Plain)
             /\ ~list.multiple /\ IsInjective(list.item) =>
                  (create_iplist(text) = Filled(list) <=> ToSet(list.item) \subseteq Plain)
<1> DEFINE text == serialize_iplist(list)
           item == list.item
           one == <<Empty>>
           none == <<>>
<1>1. /\ item \in Seq(Strings) /\ list.multiple \in BOOLEAN
      /\ list = [item |-> item, multiple |-> list.multiple]
  BY DEF ListOf
<1>2. /\ text \in Seq(Plain)
      /\ item = one => text = none
      /\ item # one /\ ToSet(item) \subseteq Plain => text = item
  BY PlainText
<1>3. ToSet(item) \subseteq Strings /\ Empty \in Plain
  BY <1>1, ToSetProps, IpAssumption
<1>4. none # one /\ none \in Seq(Strings)
  OBVIOUS
<1>5. ToSet(create_iplist(text).item) \subseteq Plain /\ ToSet(create_iplist_multiple(text).item) \subseteq Plain
  BY <1>2, TokensHeld
<1>6. ToSet(one) = {Empty} /\ Dropping(one, {Empty}) = none /\ Dropping(none, {Empty}) = none /\ IsInjective(none)
  BY OnlyEmpty, DroppingEmpty DEF IsInjective
<1> HIDE DEF text, item, one, none
<1>7. list.multiple =>
        (create_iplist_multiple(text) = list <=> item # one /\ ToSet(item) \subseteq Plain)
  <2>1. SUFFICES ASSUME list.multiple
                 PROVE  create_iplist_multiple(text) = list <=> item # one /\ ToSet(item) \subseteq Plain
    OBVIOUS
  <2>2. list.multiple = TRUE
    BY <1>1, <2>1
  <2>3. ASSUME item # one, ToSet(item) \subseteq Plain
        PROVE  create_iplist_multiple(text) = list
    <3>1. text = item
      BY <1>2, <2>3
    <3>2. create_iplist_multiple(item) = List(item, TRUE)
      BY <1>1, <2>3, TokensKept DEF one
    <3>3. QED
      BY <1>1, <2>2, <3>1, <3>2 DEF List
  <2>4. ASSUME item = one
        PROVE  create_iplist_multiple(text) # list
    <3>1. create_iplist_multiple(none) = List(none, TRUE)
      BY <1>4, TokensKept DEF one
    <3>2. List(none, TRUE).item = none
      BY DEF List
    <3>3. QED
      BY <1>2, <1>4, <2>4, <3>1, <3>2 DEF item
  <2>5. create_iplist_multiple(text) = list => ToSet(item) \subseteq Plain
    BY <1>5 DEF item
  <2>6. QED
    BY <2>3, <2>4, <2>5
<1>8. ~list.multiple /\ IsInjective(item) =>
        (create_iplist(text) = Filled(list) <=> ToSet(item) \subseteq Plain)
  <2>1. SUFFICES ASSUME ~list.multiple, IsInjective(item)
                 PROVE  create_iplist(text) = Filled(list) <=> ToSet(item) \subseteq Plain
    OBVIOUS
  <2> DEFINE kept == Dropping(item, {Empty})
  <2>2. Filled(list) = [item |-> kept, multiple |-> FALSE]
    <3>1. list.multiple = FALSE
      BY <1>1, <2>1
    <3> HIDE DEF kept
    <3>2. [list EXCEPT !.item = kept] = [item |-> kept, multiple |-> list.multiple]
      BY <1>1
    <3>3. [list EXCEPT !.item = kept] = [item |-> kept, multiple |-> FALSE]
      BY <3>1, <3>2
    <3>4. QED
      BY <3>3 DEF Filled, kept, item
  <2>3. ToSet(kept) = ToSet(item) \ {Empty}
    BY <1>1, DroppingPicks
  <2>4. ASSUME ToSet(item) \subseteq Plain
        PROVE  text \in Seq(Strings) /\ IsInjective(text) /\ Dropping(text, {Empty}) = kept
    BY <1>1, <1>2, <1>4, <1>6, <2>1, <2>4
  <2> HIDE DEF kept
  <2>5. ASSUME ToSet(item) \subseteq Plain
        PROVE  create_iplist(text) = Filled(list)
    <3>1. create_iplist(text) = List(kept, FALSE)
      BY <2>4, <2>5, TokensSieved
    <3>2. QED
      BY <2>2, <3>1 DEF List
  <2>6. ASSUME create_iplist(text) = Filled(list)
        PROVE  ToSet(item) \subseteq Plain
    <3>1. ToSet(kept) \subseteq Plain
      <4>1. create_iplist(text).item = kept
        BY <2>2, <2>6
      <4>2. QED
        BY <1>5, <4>1
    <3>2. QED
      BY <1>3, <2>3, <3>1
  <2>7. QED
    BY <2>5, <2>6
<1>9. QED
  BY <1>7, <1>8 DEF text, item, one

\* When a list has no text.
LEMMA TextEmpty ==
  ASSUME NEW list \in ListOf(Strings)
  PROVE  serialize_iplist(list) = <<>> <=> list.item = <<>> \/ list.item = <<Empty>>
<1> DEFINE item == list.item
           N == Len(item)
           S == Seq(Plain)
           cut == [i \in DOMAIN item |-> Pieces[item[i]]]
           text == serialize_iplist(list)
<1>1. item \in Seq(Strings) /\ N \in Nat /\ DOMAIN item = 1 .. N /\ \A i \in 1 .. N : item[i] \in Strings
  BY DEF ListOf
<1>2. \A s \in Strings : Pieces[s] \in S /\ Pieces[s] # <<>>
  BY IpAssumption
<1>3. text = IF item = <<Empty>> THEN <<>> ELSE FlattenSeq(cut)
  BY DEF serialize_iplist
<1>4. item = <<>> => text = <<>>
  <2> DEFINE none == <<>>
             one == <<Empty>>
  <2>1. none # one /\ ToSet(none) \subseteq Plain
    BY DEF ToSet
  <2>2. item # one /\ ToSet(item) \subseteq Plain => text = item
    BY PlainText
  <2> HIDE DEF item, text, none, one
  <2>3. item = none => text = none
    BY <2>1, <2>2
  <2>4. QED
    BY <2>3 DEF none
<1>5. ASSUME item # <<>>, item # <<Empty>>
      PROVE  text # <<>>
  <2>1. 1 \in 1 .. N
    BY <1>1, <1>5
  <2>2. cut \in Seq(S) /\ Len(cut) = N /\ cut[1] = Pieces[item[1]]
    <3> HIDE DEF item
    <3>1. cut = [i \in 1 .. N |-> cut[i]] /\ \A i \in 1 .. N : cut[i] \in S
      BY <1>1, <1>2
    <3>2. cut[1] = Pieces[item[1]]
      BY <1>1, <2>1
    <3> HIDE DEF cut, S, N
    <3>3. cut \in Seq(S) /\ Len(cut) = N
      BY <1>1, <3>1
    <3>4. QED
      BY <3>2, <3>3
  <2>3. cut[1] \in S /\ cut[1] # <<>>
    BY <1>1, <1>2, <2>1, <2>2
  <2> HIDE DEF cut, N, item, text
  <2>4. Len(cut[1]) \in Nat /\ Len(cut[1]) > 0
    BY <2>3
  <2>5. FlattenSeq(cut) \in S /\ \E at : PutTogether(cut, at, FlattenSeq(cut))
    BY <2>2, FlattenProps DEF S
  <2>6. PICK at : PutTogether(cut, at, FlattenSeq(cut))
    BY <2>5
  <2>7. at[0] = 0 /\ at[1] = at[0] + Len(cut[1]) /\ at[1] <= Len(FlattenSeq(cut))
    <3>1. at[1] = at[1 - 1] + Len(cut[1]) /\ at[0] = 0 /\ at[1] <= Len(FlattenSeq(cut))
      BY <2>1, <2>2, <2>6 DEF PutTogether
    <3>2. 1 - 1 = 0
      OBVIOUS
    <3>3. QED
      BY <3>1, <3>2
  <2>8. FlattenSeq(cut) # <<>>
    BY <2>4, <2>7
  <2>9. QED
    BY <1>3, <1>5, <2>8
<1>6. item = <<Empty>> => text = <<>>
  BY <1>3
<1> HIDE DEF text, item
<1>7. text = <<>> <=> item = <<>> \/ item = <<Empty>>
  BY <1>4, <1>5, <1>6
<1>8. QED
  BY <1>7 DEF text, item

\* The strings of a list follow one another in the text of a link list.
JoinStep(A, s) == [p \in A \X (1 .. Len(s)) |-> Joined(p[1], s[p[2]])]

JoinFold(base, s, f) ==
  f = [S \in SUBSET DOMAIN s |->
         IF S = {} THEN base ELSE Joined(f[S \ {Max(S)}], s[Max(S)])]

\* The text is a run.
LEMMA TextRuns ==
  ASSUME NEW A, NEW T, NEW id, NEW s \in Seq(T), << <<id, <<>>>> >> \in A,
         \A a \in A : \A t \in T : Joined(a, t) \in A
  PROVE  \E f : /\ LeftRun(A, Len(s), << <<id, <<>>>> >>, JoinStep(A, s), f)
                /\ LinkText(id, s) = f[1 .. Len(s)]
<1> DEFINE N == Len(s)
           base == << <<id, <<>>>> >>
           step == JoinStep(A, s)
           it == CHOOSE f : JoinFold(base, s, f)
<1>1. N \in Nat /\ DOMAIN s = 1 .. N /\ \A m \in 1 .. N : s[m] \in T
  OBVIOUS
<1>2. \A a \in A, m \in 1 .. N : Joined(a, s[m]) \in A /\ step[<<a, m>>] = Joined(a, s[m])
  BY <1>1 DEF JoinStep
<1>3. LinkText(id, s) = it[DOMAIN s]
  BY DEF LinkText, FoldLeft, MapThenFoldSet, JoinFold
<1>4. base \in A
  OBVIOUS
<1> HIDE DEF base, it
<1>5. Steps(A, N, base, step)
  <2>1. step \in [A \X (1 .. N) -> A]
    BY <1>1, <1>2 DEF JoinStep
  <2>2. QED
    BY <1>1, <1>4, <2>1 DEF Steps
<1> HIDE DEF step, N
<1>6. PICK f : f = [S \in SUBSET (1 .. N) |-> f[S]] /\ LeftFold(A, N, base, step, f)
  BY <1>5, LeftFolds
<1>7. JoinFold(base, s, it)
  <2>1. ASSUME NEW S \in SUBSET (1 .. N)
        PROVE  f[S] = IF S = {} THEN base ELSE Joined(f[S \ {Max(S)}], s[Max(S)])
    <3>1. CASE S = {}
      BY <1>6, <3>1 DEF LeftFold
    <3>2. CASE S # {}
      <4> DEFINE k == Max(S)
                 a == f[S \ {k}]
      <4>1. k \in 1 .. N /\ a \in A /\ f[S] = step[<<a, k>>]
        BY <1>6, <3>2 DEF LeftFold
      <4> HIDE DEF k, a
      <4>2. f[S] = Joined(a, s[k])
        BY <1>2, <4>1
      <4>3. QED
        BY <3>2, <4>2 DEF k, a
    <3>3. QED
      BY <3>1, <3>2
  <2>2. JoinFold(base, s, f)
    BY <1>1, <1>6, <2>1 DEF JoinFold
  <2>3. QED
    BY <2>2 DEF it
<1>8. LeftRun(A, N, base, step, it)
  <2>1. ASSUME NEW S \in SUBSET (1 .. N)
        PROVE  IF S = {} THEN it[S] = base
                         ELSE Max(S) \in 1 .. N /\ it[S \ {Max(S)}] \in A =>
                                it[S] = step[<<it[S \ {Max(S)}], Max(S)>>]
    <3> DEFINE k == Max(S)
               a == it[S \ {k}]
    <3>1. it[S] = IF S = {} THEN base ELSE Joined(a, s[k])
      BY <1>1, <1>7 DEF JoinFold
    <3> HIDE DEF k, a
    <3>2. S # {} /\ k \in 1 .. N /\ a \in A => it[S] = step[<<a, k>>]
      BY <1>2, <3>1
    <3>3. QED
      BY <3>1, <3>2 DEF k, a
  <2>2. QED
    BY <1>5, <2>1, LeftRuns
<1>9. QED
  BY <1>1, <1>3, <1>8 DEF N, base, step

\* The words of a text: a number, or none, and tokens that are words of their own.
TextWords == (Int \cup {NoId}) \X Seq(OneWord)

\* A string adds words to a text.
LEMMA JoinsWords ==
  ASSUME NEW words \in Seq(TextWords), words # <<>>, NEW s \in Strings
  PROVE  Joined(words, s) \in Seq(TextWords) /\ Joined(words, s) # <<>>
<1> DEFINE W == TextWords
           O == Seq(OneWord)
           more == LinkWords[s]
           last == Last(words)
           on == <<last[1], last[2] \o more[1][2]>>
           mid == <<on>>
           front == Front(words)
           rest == Tail(more)
<1>1. more \in Seq(W) /\ more # <<>>
  BY IpAssumption DEF TextWords
<1>2. last \in W /\ more[1] \in W
  <2> HIDE DEF more, W
  <2>1. Len(words) \in 1 .. Len(words) /\ 1 \in 1 .. Len(more)
    BY <1>1 DEF W
  <2>2. QED
    BY <1>1, <2>1 DEF Last, W
<1>3. W = (Int \cup {NoId}) \X O
  BY DEF TextWords
<1>4. front \in Seq(W) /\ rest \in Seq(W)
  <2> HIDE DEF more, W
  <2>1. rest \in Seq(W)
    BY <1>1
  <2>2. SubSeq(words, 1, Len(words) - 1) \in Seq(W)
    BY DEF W
  <2>3. QED
    BY <2>1, <2>2 DEF Front
<1>5. on \in W
  <2>1. \A u, v \in O : u \o v \in O
    OBVIOUS
  <2> HIDE DEF last, more, O, W
  <2>2. last[2] \o more[1][2] \in O /\ last[1] \in Int \cup {NoId}
    BY <1>2, <1>3, <2>1
  <2>3. QED
    BY <1>3, <2>2
<1> HIDE DEF on, front, rest, W
<1>6. front \o mid \o rest \in Seq(W) /\ front \o mid \o rest # <<>>
  BY <1>4, <1>5
<1>7. Joined(words, s) = front \o mid \o rest
  BY DEF Joined, on, front, rest
<1>8. QED
  BY <1>6, <1>7 DEF W

\* So does a row of them.
LEMMA TextOfWords ==
  ASSUME NEW id \in LinkIds, NEW s \in Seq(Strings)
  PROVE  LinkText(id, s) \in Seq(TextWords)
<1> DEFINE A == {w \in Seq(TextWords) : w # <<>>}
           base == << <<id, <<>>>> >>
           N == Len(s)
<1>1. base \in A
  <2>1. id \in Int /\ <<>> \in Seq(OneWord)
    BY DEF LinkIds
  <2>2. <<id, <<>>>> \in TextWords
    BY <2>1 DEF TextWords
  <2>3. QED
    BY <2>2
<1>2. \A a \in A : \A t \in Strings : Joined(a, t) \in A
  BY JoinsWords
<1> HIDE DEF base, A
<1>3. PICK f : LeftRun(A, N, base, JoinStep(A, s), f) /\ LinkText(id, s) = f[1 .. N]
  BY <1>1, <1>2, TextRuns DEF base
<1>4. N \in Nat
  OBVIOUS
<1>5. f[1 .. N] \in A
  BY <1>1, <1>3, <1>4, RunEnds
<1>6. QED
  BY <1>3, <1>5 DEF A

\* Strings that are words of their own stand in the text as they are.
LEMMA TextAsIs ==
  ASSUME NEW id, NEW s \in Seq(OneWord)
  PROVE  LinkText(id, s) = << <<id, s>> >>
<1> DEFINE Row(u) == << <<id, u>> >>
           A == {Row(u) : u \in Seq(OneWord)}
           base == Row(<<>>)
           N == Len(s)
           step == JoinStep(A, s)
           Upto(m) == SubSeq(s, 1, m)
           G == [m \in 0 .. N |-> {Row(Upto(m))}]
<1>1. ASSUME NEW u \in Seq(OneWord), NEW t \in OneWord
      PROVE  Joined(Row(u), t) = Row(Append(u, t))
  <2> DEFINE more == LinkWords[t]
             words == Row(u)
  <2>1. more = << <<NoId, <<t>>>> >>
    BY DEF OneWord
  <2>2. Tail(more) = <<>> /\ more[1][2] = <<t>>
    BY <2>1
  <2>3. Front(words) = <<>> /\ Last(words) = <<id, u>>
    BY DEF Front, Last
  <2>4. u \o <<t>> = Append(u, t)
    OBVIOUS
  <2>5. Joined(words, t) = <<>> \o << <<id, u \o more[1][2]>> >> \o Tail(more)
    <3> HIDE DEF words, more
    <3>1. Last(words)[1] = id /\ Last(words)[2] = u
      BY <2>3
    <3>2. QED
      BY <2>3, <3>1 DEF Joined, more
  <2> DEFINE w == <<id, Append(u, t)>>
  <2>6. Joined(words, t) = <<>> \o <<w>> \o <<>>
    <3> HIDE DEF words, more
    <3>1. QED
      BY <2>2, <2>4, <2>5
  <2> HIDE DEF w
  <2>7. <<>> \o <<w>> \o <<>> = <<w>>
    OBVIOUS
  <2>8. QED
    BY <2>6, <2>7 DEF w
<1>2. base \in A /\ \A a \in A : \A t \in OneWord : Joined(a, t) \in A
  <2>1. \A u \in Seq(OneWord), t \in OneWord : Append(u, t) \in Seq(OneWord)
    OBVIOUS
  <2>2. <<>> \in Seq(OneWord)
    OBVIOUS
  <2>3. base \in A
    BY <2>2
  <2>4. ASSUME NEW a \in A, NEW t \in OneWord
        PROVE  Joined(a, t) \in A
    <3>1. PICK u \in Seq(OneWord) : a = Row(u)
      OBVIOUS
    <3>2. Joined(a, t) = Row(Append(u, t)) /\ Append(u, t) \in Seq(OneWord)
      BY <1>1, <2>1, <3>1
    <3>3. QED
      BY <3>2
  <2>5. QED
    BY <2>3, <2>4
<1>3. PICK f : LeftRun(A, N, base, step, f) /\ LinkText(id, s) = f[1 .. N]
  <2>1. << <<id, <<>>>> >> = base
    OBVIOUS
  <2> HIDE DEF A, base
  <2>2. QED
    BY <1>2, <2>1, TextRuns
<1>4. N \in Nat /\ Upto(0) = <<>> /\ Upto(N) = s /\ 0 \in 0 .. N /\ N \in 0 .. N
  OBVIOUS
<1>5. base \in G[0]
  BY <1>4
<1> HIDE DEF Row
<1>6. ASSUME NEW m \in 1 .. N, NEW a \in A, a \in G[m - 1]
      PROVE  step[<<a, m>>] \in G[m]
  <2>1. m - 1 \in 0 .. N /\ m \in 0 .. N
    BY <1>4
  <2>2. a = Row(Upto(m - 1))
    BY <1>6, <2>1
  <2>3. Upto(m - 1) \in Seq(OneWord) /\ Append(Upto(m - 1), s[m]) = Upto(m) /\ s[m] \in OneWord
    BY OneMore
  <2>4. step[<<a, m>>] = Joined(a, s[m])
    BY DEF JoinStep
  <2> HIDE DEF step, Upto, A
  <2>5. step[<<a, m>>] = Row(Upto(m))
    BY <1>1, <2>2, <2>3, <2>4
  <2>6. QED
    BY <2>1, <2>5
<1>7. f[1 .. N] \in G[N]
  <2> HIDE DEF A, G, step, base, N
  <2>1. QED
    BY <1>3, <1>4, <1>5, <1>6, RunKeeps
<1>8. f[1 .. N] = Row(s)
  BY <1>4, <1>7
<1>9. QED
  BY <1>3, <1>8 DEF Row

\* The text of a link list whose strings are words of their own is read back.
LEMMA CleanLinksReadBack ==
  ASSUME NEW link \in Links, \A id \in LinkIds : ToSet(link[id].item) \subseteq OneWord
  PROVE  create_linkiplist(serialize_linkiplist(link)) = [id \in LinkIds |-> Filled(link[id])]
<1> DEFINE all == [i \in 1 .. LinkSize + 1 |-> i - 1]
           out == {id \in LinkIds : serialize_iplist(link[id]) = <<>>}
           ids == Dropping(all, out)
           segments == [i \in DOMAIN ids |-> <<ids[i], link[ids[i]].item>>]
           N == Len(segments)
           none == List(<<>>, FALSE)
           base == [id \in LinkIds |-> none]
           step == LinkStep(FewStrings, segments)
           Read(m, id) == \E i \in 1 .. m : ids[i] = id
           G == [m \in 0 .. N |->
                   {a \in Links : \A id \in LinkIds :
                      a[id] = IF Read(m, id) THEN Filled(link[id]) ELSE none}]
<1>1. ASSUME NEW id \in LinkIds
      PROVE  /\ link[id].item \in Seq(FewStrings) /\ link[id].item \in Seq(OneWord)
             /\ create_iplist(link[id].item) = Filled(link[id])
             /\ id \in out <=> link[id].item = <<>> \/ link[id].item = <<Empty>>
  <2> DEFINE list == link[id]
             item == list.item
  <2>1. list \in Made(FewStrings, FALSE)
    BY DEF Links, LinksOf
  <2>2. /\ list \in ListOf(FewStrings) /\ item \in Seq(FewStrings)
        /\ list = [item |-> item, multiple |-> FALSE] /\ IsInjective(item)
    BY <2>1 DEF Made, ListOf, Unique
  <2>3. list \in ListOf(Strings)
    <3>1. \A s \in Seq(FewStrings) : s \in Seq(Strings)
      BY ListsAssumption
    <3>2. QED
      BY <2>2, <3>1 DEF ListOf
  <2>4. item \in Seq(OneWord)
    <3>1. ToSet(item) \subseteq OneWord /\ \A i \in 1 .. Len(item) : item[i] \in ToSet(item)
      BY <2>2, ToSetProps
    <3> HIDE DEF item
    <3>2. \A i \in 1 .. Len(item) : item[i] \in OneWord
      BY <3>1
    <3>3. QED
      BY <2>2, <3>2
  <2>5. id \in out <=> item = <<>> \/ item = <<Empty>>
    BY <2>3, TextEmpty
  <2> DEFINE kept == Dropping(item, {Empty})
  <2> HIDE DEF list, item
  <2>6. create_iplist(item) = List(kept, FALSE)
    BY <2>2, TokensSieved
  <2> HIDE DEF kept
  <2>7. [list EXCEPT !.item = kept] = [item |-> kept, multiple |-> FALSE]
    <3> DEFINE x == item
               no == FALSE
    <3>1. list = [item |-> x, multiple |-> no]
      BY <2>2
    <3> HIDE DEF x, no
    <3>2. [list EXCEPT !.item = kept] = [item |-> kept, multiple |-> no]
      BY <3>1
    <3>3. QED
      BY <3>2 DEF no
  <2>8. create_iplist(item) = Filled(list)
    BY <2>6, <2>7 DEF List, Filled, kept, item
  <2>9. QED
    BY <2>2, <2>4, <2>5, <2>8 DEF item, list
<1>2. create_iplist(<<>>) = none /\ create_iplist(<<Empty>>) = none
  <2> DEFINE tokens == <<>>
  <2>1. tokens \in Seq(Strings) /\ IsInjective(tokens) /\ Dropping(tokens, {Empty}) = <<>>
    BY DroppingEmpty DEF IsInjective
  <2> HIDE DEF tokens
  <2>2. create_iplist(tokens) = List(<<>>, FALSE)
    BY <2>1, TokensSieved
  <2> DEFINE one == <<Empty>>
  <2>3. one \in Seq(Strings) /\ IsInjective(one) /\ Dropping(one, {Empty}) = <<>>
    <3>1. Empty \in Strings
      BY IpAssumption
    <3>2. one \in Seq(Strings)
      BY <3>1
    <3>3. QED
      BY <3>2, OnlyEmpty
  <2> HIDE DEF one
  <2>4. create_iplist(one) = List(<<>>, FALSE)
    BY <2>3, TokensSieved
  <2>5. QED
    BY <2>2, <2>4 DEF tokens, one
<1> HIDE DEF none
<1>3. /\ ids \in Seq(LinkIds)
      /\ \A id \in LinkIds : (\E i \in 1 .. Len(ids) : ids[i] = id) <=> id \notin out
  <2>1. all \in Seq(LinkIds) /\ \A id \in LinkIds : id \in ToSet(all)
    <3>1. LinkSize \in Nat
      BY IpAssumption
    <3>2. all \in Seq(LinkIds) /\ Len(all) = LinkSize + 1 /\ \A i \in 1 .. LinkSize + 1 : all[i] = i - 1
      BY <3>1 DEF LinkIds
    <3>3. \A id \in LinkIds : id + 1 \in 1 .. LinkSize + 1 /\ (id + 1) - 1 = id
      BY <3>1 DEF LinkIds
    <3> HIDE DEF all
    <3>4. \A id \in LinkIds : \E i \in 1 .. Len(all) : all[i] = id
      BY <3>2, <3>3
    <3>5. \A x : x \in ToSet(all) <=> \E i \in 1 .. Len(all) : all[i] = x
      BY <3>2, ToSetProps
    <3>6. QED
      BY <3>2, <3>4, <3>5
  <2> HIDE DEF all, out
  <2>2. ids \in Seq(LinkIds) /\ ToSet(ids) = ToSet(all) \ out
    BY <2>1, DroppingPicks
  <2> HIDE DEF ids
  <2>3. \A x : x \in ToSet(ids) <=> \E i \in 1 .. Len(ids) : ids[i] = x
    BY <2>2, ToSetProps
  <2>4. QED
    BY <2>1, <2>2, <2>3
<1> HIDE DEF ids, out
<1>4. /\ N = Len(ids) /\ N \in Nat
      /\ \A m \in 1 .. N : /\ ids[m] \in LinkIds
                           /\ segments[m] = <<ids[m], link[ids[m]].item>>
  BY <1>3
<1>5. segments \in Seq(LinkIds \X Seq(FewStrings))
  <2>1. \A i \in 1 .. Len(ids) :
          <<ids[i], link[ids[i]].item>> \in LinkIds \X Seq(FewStrings)
    BY <1>1, <1>3
  <2> DEFINE S == LinkIds \X Seq(FewStrings)
             n == Len(ids)
  <2>2. /\ segments = [i \in 1 .. n |-> segments[i]] /\ n \in Nat
        /\ \A i \in 1 .. n : segments[i] \in S
    BY <1>3, <2>1
  <2> HIDE DEF segments, S, n
  <2>3. segments \in Seq(S)
    BY <2>2
  <2>4. QED
    BY <2>3 DEF S
<1>0. serialize_linkiplist(link) = segments
  <2> DEFINE single == [i \in DOMAIN segments |-> <<segments[i]>>]
             texts == [i \in DOMAIN ids |-> LinkText(ids[i], link[ids[i]].item)]
  <2>1. serialize_linkiplist(link) = FlattenSeq(texts)
    BY DEF serialize_linkiplist, ids, all, out
  <2>2. DOMAIN ids = 1 .. N /\ DOMAIN segments = 1 .. N
    BY <1>3
  <2>3. \A i \in 1 .. N : LinkText(ids[i], link[ids[i]].item) = <<segments[i]>>
    <3>1. \A i \in 1 .. N : link[ids[i]].item \in Seq(OneWord)
      BY <1>1, <1>4
    <3>2. \A i \in 1 .. N : LinkText(ids[i], link[ids[i]].item) = << <<ids[i], link[ids[i]].item>> >>
      BY <3>1, TextAsIs
    <3>3. QED
      BY <1>4, <3>2
  <2> HIDE DEF segments, N
  <2>4. texts = single
    BY <2>2, <2>3
  <2> HIDE DEF texts, single
  <2>5. FlattenSeq(single) = segments
    BY <1>5, FlattenSingles DEF single
  <2>6. QED
    BY <2>1, <2>4, <2>5
<1>50. ReadWords(segments) = segments
  <2>1. ASSUME NEW m \in 1 .. N
        PROVE  ~Broken(segments[m])
    <3>1. ids[m] \in LinkIds /\ segments[m] = <<ids[m], link[ids[m]].item>> /\ ids[m] \notin out
      BY <1>3, <1>4
    <3>2. link[ids[m]].item # <<>> /\ link[ids[m]].item # <<Empty>>
      BY <1>1, <3>1
    <3>3. ids[m] # NoId
      BY <3>1, IpAssumption DEF LinkIds
    <3> HIDE DEF segments
    <3>4. segments[m][1] = ids[m] /\ segments[m][2] = link[ids[m]].item
      BY <3>1
    <3>5. QED
      BY <3>2, <3>3, <3>4 DEF Broken
  <2>2. DOMAIN segments = 1 .. N /\ segments = [m \in 1 .. N |-> segments[m]]
    BY <1>3
  <2>3. \A m \in 1 .. N : ~\E j \in 1 .. m : Broken(segments[j])
    <3>1. \A m \in 1 .. N : \A j \in 1 .. m : j \in 1 .. N
      BY <1>4
    <3> HIDE DEF segments, N
    <3>2. QED
      BY <2>1, <3>1
  <2> HIDE DEF segments, N
  <2>4. ReadWords(segments) = [m \in 1 .. N |-> segments[m]]
    BY <2>2, <2>3 DEF ReadWords
  <2>5. QED
    BY <2>2, <2>4
<1> HIDE DEF segments
<1>51. Readable(FewStrings, segments)
  BY <1>5, <1>50, ReadableWords
<1>6. PICK it : LeftRun(Links, N, base, step, it) /\ create_linkiplist(segments) = it[1 .. N]
  <2> DEFINE read == ReadWords(segments)
  <2>1. \E f : /\ LeftRun(LinksOf(FewStrings), Len(read), [id \in LinkIds |-> List(<<>>, FALSE)],
                          LinkStep(FewStrings, read), f)
               /\ create_linkiplist(segments) = f[1 .. Len(read)]
    BY <1>50, <1>51, LinksRun
  <2>2. read = segments
    BY <1>50
  <2> HIDE DEF read
  <2>3. QED
    BY <2>1, <2>2 DEF none, Links, LinksOf
<1>7. base \in G[0]
  <2>1. none \in Made(FewStrings, FALSE)
    BY EmptyList DEF Made, none
  <2>2. base \in Links
    BY <2>1 DEF Links, LinksOf
  <2>3. \A id \in LinkIds : base[id] = none /\ ~Read(0, id)
    OBVIOUS
  <2>4. 0 \in 0 .. N
    BY <1>4
  <2> HIDE DEF base, Read
  <2>5. QED
    BY <2>2, <2>3, <2>4
<1>8. ASSUME NEW m \in 1 .. N, NEW a \in Links, a \in G[m - 1]
      PROVE  step[<<a, m>>] \in G[m]
  <2> DEFINE k == ids[m]
             s == segments[m]
             new == [a EXCEPT ![k] = Filled(link[k])]
  <2>1. m - 1 \in 0 .. N /\ m \in 0 .. N
    BY <1>4
  <2>2. \A id \in LinkIds : a[id] = IF Read(m - 1, id) THEN Filled(link[id]) ELSE none
    BY <1>8, <2>1
  <2>3. PutSegment(a, s) \in Links /\ step[<<a, m>>] = PutSegment(a, s)
    BY <1>51, PutsSegment DEF Links
  <2>4. k \in LinkIds /\ s = <<k, link[k].item>>
    BY <1>4
  <2> HIDE DEF s, step
  <2>5. PutSegment(a, s) = new
    <3>1. s[1] = k /\ s[2] = link[k].item
      BY <2>4
    <3>2. create_iplist(s[2]) = Filled(link[k])
      BY <1>1, <2>4, <3>1
    <3> HIDE DEF k
    <3>3. QED
      BY <2>4, <3>1, <3>2 DEF PutSegment
  <2>6. ASSUME NEW id \in LinkIds
        PROVE  new[id] = IF Read(m, id) THEN Filled(link[id]) ELSE none
    <3>1. Read(m, id) <=> Read(m - 1, id) \/ id = k
      OBVIOUS
    <3>2. new[id] = IF id = k THEN Filled(link[k]) ELSE a[id]
      BY DEF Links, LinksOf
    <3> HIDE DEF Read, k, new
    <3>3. QED
      BY <2>2, <3>1, <3>2
  <2> HIDE DEF new, Read
  <2>7. QED
    BY <2>1, <2>3, <2>5, <2>6
<1>9. it[1 .. N] \in G[N]
  <2> HIDE DEF N, G, base, step
  <2>1. QED
    BY <1>4, <1>6, <1>7, <1>8, RunKeeps
<1>10. ASSUME NEW id \in LinkIds
       PROVE  (it[1 .. N])[id] = Filled(link[id])
  <2>1. N \in 0 .. N
    BY <1>4
  <2>2. (it[1 .. N])[id] = IF Read(N, id) THEN Filled(link[id]) ELSE none
    BY <1>9, <2>1
  <2>3. ~Read(N, id) => Filled(link[id]) = none
    <3>1. SUFFICES ASSUME ~Read(N, id)
                   PROVE  Filled(link[id]) = none
      OBVIOUS
    <3>2. link[id].item = <<>> \/ link[id].item = <<Empty>>
      BY <1>1, <1>3, <1>4, <3>1
    <3>3. QED
      BY <1>1, <1>2, <3>2
  <2> HIDE DEF Read
  <2>4. QED
    BY <2>2, <2>3
<1>11. it[1 .. N] = [id \in LinkIds |-> Filled(link[id])]
  <2>1. it[1 .. N] \in Links
    <3>1. N \in 0 .. N
      BY <1>4
    <3>2. QED
      BY <1>9, <3>1
  <2>2. QED
    BY <1>10, <2>1 DEF Links, LinksOf
<1>12. QED
  BY <1>0, <1>6, <1>11

\* The text of a link list is read back as the list, if and only if its strings are words
\* of their own.
LEMMA LinksReadBack ==
  ASSUME NEW link \in Links
  PROVE  create_linkiplist(serialize_linkiplist(link)) = [id \in LinkIds |-> Filled(link[id])]
           <=> \A id \in LinkIds : ToSet(link[id].item) \subseteq OneWord
<1> DEFINE all == [i \in 1 .. LinkSize + 1 |-> i - 1]
           out == {id \in LinkIds : serialize_iplist(link[id]) = <<>>}
           ids == Dropping(all, out)
           texts == [i \in DOMAIN ids |-> LinkText(ids[i], link[ids[i]].item)]
           text == serialize_linkiplist(link)
           back == create_linkiplist(text)
           Word(id) == ToSet(link[id].item) \subseteq OneWord
<1>1. ASSUME NEW id \in LinkIds
      PROVE  link[id].item \in Seq(Strings)
  <2>1. \A s \in Seq(FewStrings) : s \in Seq(Strings)
    BY ListsAssumption
  <2>2. QED
    BY <2>1 DEF Links, LinksOf, Made, ListOf
<1>2. ids \in Seq(LinkIds)
  <2>1. LinkSize \in Nat
    BY IpAssumption
  <2>2. all \in Seq(LinkIds)
    BY <2>1 DEF LinkIds
  <2> HIDE DEF all, out
  <2>3. QED
    BY <2>2, DroppingPicks
<1>3. text = FlattenSeq(texts)
  BY DEF serialize_linkiplist
<1> HIDE DEF ids, text
<1>4. text \in Seq(TextWords)
  <2> DEFINE S == Seq(TextWords)
             n == Len(ids)
  <2>1. n \in Nat /\ DOMAIN ids = 1 .. n /\ \A i \in 1 .. n : ids[i] \in LinkIds
    BY <1>2
  <2>2. \A i \in 1 .. n : LinkText(ids[i], link[ids[i]].item) \in S
    BY <1>1, <2>1, TextOfWords
  <2>3. texts = [i \in 1 .. n |-> texts[i]] /\ \A i \in 1 .. n : texts[i] \in S
    BY <2>1, <2>2
  <2> HIDE DEF texts, S, n
  <2>4. texts \in Seq(S)
    BY <2>1, <2>3
  <2>5. QED
    BY <1>3, <2>4, FlattenProps DEF S
<1>5. back \in LinksOf(OneWord)
  BY <1>4, CreatesLinks DEF TextWords
<1>6. ASSUME back = [id \in LinkIds |-> Filled(link[id])], NEW id \in LinkIds
      PROVE  Word(id)
  <2> DEFINE item == link[id].item
             kept == Dropping(item, {Empty})
  <2>1. back[id].item \in Seq(OneWord)
    BY <1>5 DEF LinksOf, Made, ListOf
  <2>2. back[id] = Filled(link[id])
    BY <1>6
  <2>3. Filled(link[id]).item = kept
    BY DEF Filled, Links, LinksOf, Made, ListOf
  <2>4. ToSet(kept) = ToSet(item) \ {Empty}
    BY <1>1, DroppingPicks
  <2> HIDE DEF kept, back
  <2>5. ToSet(kept) \subseteq OneWord
    BY <2>1, <2>2, <2>3, ToSetProps
  <2>6. Empty \in OneWord
    BY IpAssumption
  <2>7. QED
    BY <2>4, <2>5, <2>6
<1>7. (\A id \in LinkIds : Word(id)) => back = [id \in LinkIds |-> Filled(link[id])]
  BY CleanLinksReadBack DEF text
<1> HIDE DEF back, Word
<1>8. back = [id \in LinkIds |-> Filled(link[id])] <=> \A id \in LinkIds : Word(id)
  BY <1>6, <1>7
<1>9. QED
  BY <1>8 DEF back, text, Word

\* All elements of a row get into an empty list, if it may hold them.
LEMMA InsertsAll ==
  ASSUME NEW T, NEW list \in ListOf(T), list.item = <<>>, NEW s \in Seq(T),
         list.multiple \/ IsInjective(s)
  PROVE  FoldLeft(insert_numlist, list, s) = List(s, list.multiple)
<1> DEFINE N == Len(s)
           A == ListOf(T)
           step == InsertStep(T, s)
           new == FoldLeft(insert_numlist, list, s)
           Upto(m) == SubSeq(s, 1, m)
           G == [m \in 0 .. N |-> {a \in A : a.item = Upto(m) /\ a.multiple = list.multiple}]
<1>1. /\ N \in Nat /\ Upto(N) = s /\ Upto(0) = <<>> /\ N \in 0 .. N /\ 0 \in 0 .. N
      /\ DOMAIN s = 1 .. N /\ \A i \in 1 .. N : s[i] \in T
  OBVIOUS
<1>2. PICK it : LeftRun(A, N, list, step, it) /\ new = it[1 .. N]
  BY UnionRuns
<1>3. list \in G[0]
  BY <1>1
<1>4. ASSUME NEW m \in 1 .. N, NEW a \in A, a \in G[m - 1]
      PROVE  step[<<a, m>>] \in G[m]
  <2> DEFINE old == Upto(m - 1)
             e == s[m]
  <2>1. m - 1 \in 0 .. N /\ m \in 0 .. N
    BY <1>1
  <2>2. a.item = old /\ a.multiple = list.multiple
    BY <1>4, <2>1
  <2>3. step[<<a, m>>] = insert_numlist(a, e)
    BY DEF InsertStep
  <2>4. /\ old \in Seq(T) /\ Append(old, e) = Upto(m) /\ e \in T
        /\ \A x : x \in ToSet(old) <=> \E i \in 1 .. m - 1 : s[i] = x
    BY <1>1, OneMore
  <2>5. list.multiple \/ e \notin ToSet(old)
    BY <1>1, <2>4 DEF IsInjective
  <2> HIDE DEF step, Upto, old, e
  <2>6. /\ insert_numlist(a, e) \in A /\ insert_numlist(a, e).multiple = a.multiple
        /\ insert_numlist(a, e).item = IF a.multiple \/ e \notin ToSet(a.item)
                                         THEN Append(a.item, e) ELSE a.item
    BY <2>4, Inserts
  <2> HIDE DEF A
  <2>7. insert_numlist(a, e).item = Upto(m)
    BY <2>2, <2>4, <2>5, <2>6
  <2>8. QED
    BY <2>1, <2>2, <2>3, <2>6, <2>7
<1> HIDE DEF G, A, step, new
<1>5. it[1 .. N] \in G[N]
  <2>1. N \in Nat /\ LeftRun(A, N, list, step, it)
    BY <1>1, <1>2
  <2> HIDE DEF N
  <2>2. QED
    BY <1>3, <1>4, <2>1, RunKeeps
<1>6. new.item = s /\ new.multiple = list.multiple /\ new \in A
  BY <1>1, <1>2, <1>5 DEF G
<1>7. new = List(s, list.multiple)
  BY <1>6 DEF A, ListOf, List
<1>8. QED
  BY <1>7 DEF new

\* A list of numbers that is turned into strings is turned back.
LEMMA NumbersComeBack ==
  ASSUME NEW list \in ListOf(Numbers), Unique(list), list.multiple \/ Clear(list.item)
  PROVE  create_numlist_from_iplist(create_iplist_from_numlist(list)) = list
<1> DEFINE nums == list.item
           N == Len(nums)
           s == [i \in DOMAIN nums |-> Itoa[nums[i]]]
           base == List(<<>>, list.multiple)
           strings == create_iplist_from_numlist(list)
           out == {t \in Strings : ~(Strtol[t] > 0 \/ t = Itoa[0])}
           read == Dropping(strings.item, out)
           back == [i \in DOMAIN read |-> Strtol[read[i]]]
           items == IF strings.multiple THEN back ELSE Deduplicated(back)
<1>1. /\ nums \in Seq(Numbers) /\ list.multiple \in BOOLEAN
      /\ list = [item |-> nums, multiple |-> list.multiple]
  BY DEF ListOf
<1>2. \A n \in Numbers : Itoa[n] \in Strings /\ Strtol[Itoa[n]] = n /\ n \in Nat
  BY ListsAssumption, IpAssumption
<1>3. s \in Seq(Strings) /\ Len(s) = N /\ N \in Nat /\ DOMAIN s = 1 .. N
  BY <1>1, <1>2, SMTT(60)
<1>4. \A i \in 1 .. N : s[i] \in Strings /\ Strtol[s[i]] = nums[i] /\ nums[i] \in Nat /\ s[i] = Itoa[nums[i]]
  BY <1>1, <1>2
<1>5. list.multiple \/ IsInjective(s)
  <2>1. SUFFICES ASSUME ~list.multiple
                 PROVE  IsInjective(s)
    OBVIOUS
  <2>2. \A i, j \in 1 .. N : nums[i] = nums[j] => i = j
    BY <1>1, <2>1 DEF Unique, IsInjective
  <2> HIDE DEF s
  <2>3. \A i, j \in 1 .. N : s[i] = s[j] => i = j
    BY <1>4, <2>2
  <2>4. QED
    BY <1>3, <2>3 DEF IsInjective
<1>6. strings = FoldLeft(insert_numlist, base, s)
  BY InsertedAlike DEF create_iplist_from_numlist
<1>7. base \in ListOf(Strings) /\ base.multiple = list.multiple /\ base.item = <<>>
  BY <1>1, EmptyList
<1> HIDE DEF s, base
<1>8. strings = List(s, list.multiple)
  BY <1>3, <1>5, <1>6, <1>7, InsertsAll
<1>9. strings.item = s /\ strings.multiple = list.multiple
  BY <1>8 DEF List
<1>10. create_numlist_from_iplist(strings) = List(items, strings.multiple)
  BY DEF create_numlist_from_iplist
<1> HIDE DEF strings
<1>11. read = s
  <2>1. \A i \in 1 .. Len(s) : s[i] \notin out
    BY <1>3, <1>4
  <2> HIDE DEF out
  <2>2. QED
    BY <1>3, <1>9, <2>1, NoneDropped
<1> HIDE DEF read
<1>12. back = nums
  <2>1. back = [i \in 1 .. N |-> Strtol[s[i]]]
    BY <1>3, <1>11
  <2>2. nums = [i \in 1 .. N |-> nums[i]]
    BY <1>1
  <2> HIDE DEF back, nums, N
  <2>3. QED
    BY <1>4, <2>1, <2>2
<1> HIDE DEF back
<1>13. items = nums
  <2>1. ~list.multiple => Deduplicated(nums) = nums
    BY <1>1, AllKept DEF Unique
  <2>2. QED
    BY <1>9, <1>12, <2>1
<1>14. QED
  BY <1>1, <1>9, <1>10, <1>13 DEF List, strings

-----------------------------------------------------------------------------
(* Every call                                                              *)

\* RoundTrip, of a call op that turns before into new.
RoundTripTold(k, op, before, new, ret) ==
  /\ op = "serialize" /\ k = "num" /\ (new.multiple \/ Clear(new.item)) =>
       create_numlist(ret, new.multiple) = new
  /\ op = "serialize" /\ k = "ip" =>
       IF new.multiple
         THEN create_iplist_multiple(ret) = new
                <=> new.item # <<Empty>> /\ ToSet(new.item) \subseteq Plain
         ELSE IsInjective(new.item) =>
                (create_iplist(ret) = Filled(new) <=> ToSet(new.item) \subseteq Plain)
  /\ op = "serialize" /\ k = "link" =>
       (create_linkiplist(ret) = [id \in LinkIds |-> Filled(new[id])]
          <=> \A id \in LinkIds : ToSet(new[id].item) \subseteq OneWord)
  /\ op = "to_ip" /\ (before.multiple \/ Clear(before.item)) =>
       create_numlist_from_iplist(new) = before

\* It is RoundTrip.
LEMMA IsRoundTrip == RoundTrip <=> RoundTripTold(kind, call.op, call.before, obj, call.ret)
BY DEF RoundTrip, RoundTripTold, Clear, Filled

\* A call that is told so makes it true.
LEMMA RoundTripCalled ==
  ASSUME NEW k, NEW op, NEW args, NEW new, NEW ret, Calls(k, op, args, new, ret),
         RoundTripTold(kind', op, obj, new, ret)
  PROVE  RoundTrip'
<1>1. obj' = new /\ call' = [op |-> op, args |-> args, before |-> obj, ret |-> ret]
  BY DEF Calls
<1>2. call'.op = op /\ call'.before = obj /\ call'.ret = ret
  BY <1>1
<1>3. RoundTripTold(kind', call'.op, call'.before, obj', call'.ret)
  BY <1>1, <1>2
<1>4. QED
  BY <1>3, IsRoundTrip DEF RoundTripTold, RoundTrip, Clear, Filled

\* The calls that write a list as text, or turn it into one of the other kind.
LEMMA TextCalls ==
  ASSUME IInv, NumSerialize \/ NumToIp \/ IpSerialize \/ LinkSerialize
  PROVE  RoundTrip'
<1> DEFINE args == <<>>
<1>1. CASE NumSerialize
  <2> DEFINE text == serialize_numlist(obj)
  <2>1. Calls("num", "serialize", args, obj, text) /\ kind' = "num" /\ kind = "num"
    BY <1>1 DEF NumSerialize, On, Calls
  <2>2. obj \in ListOf(Numbers) /\ Unique(obj)
    BY <2>1, NumHeld DEF NumCalled
  <2>3. text = obj.item
    BY <2>2, Serializes
  <2>4. obj.multiple \/ Clear(obj.item) => create_numlist(text, obj.multiple) = obj
    BY <2>2, <2>3, NumbersReadBack
  <2> HIDE DEF text
  <2>5. RoundTripTold(kind', "serialize", obj, obj, text)
    BY <2>1, <2>4 DEF RoundTripTold
  <2>6. QED
    BY <2>1, <2>5, RoundTripCalled
<1>2. CASE NumToIp
  <2> DEFINE new == create_iplist_from_numlist(obj)
  <2>1. Calls("num", "to_ip", args, new, 1) /\ kind' = "ip" /\ kind = "num"
    BY <1>2 DEF NumToIp
  <2>2. obj \in ListOf(Numbers) /\ Unique(obj)
    BY <2>1, NumHeld DEF NumCalled
  <2>3. obj.multiple \/ Clear(obj.item) => create_numlist_from_iplist(new) = obj
    BY <2>2, NumbersComeBack
  <2> HIDE DEF new
  <2>4. RoundTripTold(kind', "to_ip", obj, new, 1)
    BY <2>1, <2>3 DEF RoundTripTold
  <2>5. QED
    BY <2>1, <2>4, RoundTripCalled
<1>3. CASE IpSerialize
  <2> DEFINE text == serialize_iplist(obj)
  <2>1. Calls("ip", "serialize", args, obj, text) /\ kind' = "ip" /\ kind = "ip"
    BY <1>3 DEF IpSerialize, On, Calls
  <2>2. obj \in ListOf(Strings)
    BY <2>1, IpHeld DEF IpCalled
  <2>3. /\ obj.multiple =>
             (create_iplist_multiple(text) = obj
                <=> obj.item # <<Empty>> /\ ToSet(obj.item) \subseteq Plain)
        /\ ~obj.multiple /\ IsInjective(obj.item) =>
             (create_iplist(text) = Filled(obj) <=> ToSet(obj.item) \subseteq Plain)
    BY <2>2, StringsReadBack
  <2> HIDE DEF text
  <2>4. RoundTripTold(kind', "serialize", obj, obj, text)
    BY <2>1, <2>3 DEF RoundTripTold
  <2>5. QED
    BY <2>1, <2>4, RoundTripCalled
<1>4. CASE LinkSerialize
  <2> DEFINE text == serialize_linkiplist(obj)
  <2>1. Calls("link", "serialize", args, obj, text) /\ kind' = "link" /\ kind = "link"
    BY <1>4 DEF LinkSerialize, On, Calls
  <2>2. obj \in Links
    BY <2>1 DEF IInv, Holds
  <2>3. create_linkiplist(text) = [id \in LinkIds |-> Filled(obj[id])]
          <=> \A id \in LinkIds : ToSet(obj[id].item) \subseteq OneWord
    BY <2>2, LinksReadBack
  <2> HIDE DEF text
  <2>4. RoundTripTold(kind', "serialize", obj, obj, text)
    BY <2>1, <2>3 DEF RoundTripTold
  <2>5. QED
    BY <2>1, <2>4, RoundTripCalled
<1>5. QED
  BY <1>1, <1>2, <1>3, <1>4

\* Every step keeps RoundTrip.
LEMMA BackAgain == IInv /\ RoundTrip /\ [Next]_vars => RoundTrip'
<1> SUFFICES ASSUME IInv, RoundTrip, [Next]_vars
             PROVE  RoundTrip'
  OBVIOUS
<1> DEFINE Quiet == call'.op \notin {"serialize", "to_ip"}
<1>1. Quiet => RoundTrip'
  BY DEF RoundTrip
<1>2. CASE NumNext
  <2>1. NumCreate \/ NumInsert \/ NumInsertAt \/ NumUnshift \/ NumRemove \/ NumUnion => Quiet
    BY DEF NumCreate, NumInsert, NumInsertAt, NumUnshift, NumRemove, NumUnion, On, Calls
  <2>2. NumIntersect \/ NumExcept \/ NumUnique \/ NumSetMultiple => Quiet
    BY DEF NumIntersect, NumExcept, NumUnique, NumSetMultiple, On, Calls
  <2>3. NumSort \/ NumReorder \/ NumGetFree => Quiet
    BY DEF NumSort, NumReorder, NumGetFree, On, Calls
  <2>4. NumSerialize \/ NumToIp => RoundTrip'
    BY TextCalls
  <2> HIDE DEF Quiet
  <2>5. QED
    BY <1>1, <1>2, <2>1, <2>2, <2>3, <2>4 DEF NumNext
<1>3. CASE IpNext
  <2>1. IpCreate \/ IpInsert \/ IpAppend \/ IpRemove \/ IpUnion \/ IpIntersect => Quiet
    BY DEF IpCreate, IpInsert, IpAppend, IpRemove, IpUnion, IpIntersect, On, Calls
  <2>2. IpExcept \/ IpUnique \/ IpSetMultiple \/ IpSort \/ IpToNum => Quiet
    BY DEF IpExcept, IpUnique, IpSetMultiple, IpSort, IpToNum, On, Calls
  <2>3. IpSerialize => RoundTrip'
    BY TextCalls
  <2> HIDE DEF Quiet
  <2>4. QED
    BY <1>1, <1>3, <2>1, <2>2, <2>3 DEF IpNext
<1>4. CASE LinkNext
  <2>1. LinkCreate \/ LinkInsert \/ LinkRemove \/ LinkClear => Quiet
    BY DEF LinkCreate, LinkInsert, LinkRemove, LinkClear, On, Calls
  <2>2. LinkSerialize => RoundTrip'
    BY TextCalls
  <2> HIDE DEF Quiet
  <2>3. QED
    BY <1>1, <1>4, <2>1, <2>2 DEF LinkNext
<1>5. CASE TagNext
  <2>1. TagRead => Quiet
    <3>1. TagRead => \E args, new : On("tag", "read", args, new, 1)
      BY Zenon DEF TagRead
    <3>2. QED
      BY <3>1 DEF On, Calls
  <2>2. TagInsert \/ TagUpdate \/ TagReplace => Quiet
    BY DEF TagInsert, TagUpdate, TagReplace, On, Calls
  <2>3. TagGet \/ TagSort \/ TagUnsort \/ TagCompare => Quiet
    BY DEF TagGet, TagSort, TagUnsort, TagCompare, On, Calls
  <2> HIDE DEF Quiet
  <2>4. QED
    BY <1>1, <1>5, <2>1, <2>2, <2>3 DEF TagNext
<1>6. CASE Return
  <2>1. call' = Idle /\ Idle.op = "none"
    BY <1>6 DEF Return, Idle
  <2>2. QED
    BY <2>1 DEF RoundTrip
<1>7. CASE UNCHANGED vars
  BY <1>7 DEF vars, RoundTrip
<1>8. QED
  BY <1>2, <1>3, <1>4, <1>5, <1>6, <1>7 DEF Next

\* A list of numbers that is written as text and read back, or turned into strings and
\* back, is the same list, save the numbers that the map confuses.  A list of strings is,
\* save empty strings, exactly when no string is cut by a separator or has a blank at an
\* end, or, in a link list, holds a blank: for all numbers, strings and sequences of calls.
THEOREM ReadBack == Spec => []RoundTrip
<1>1. Init => IInv /\ RoundTrip
  <2>1. Init => call = Idle /\ Idle.op = "none"
    BY DEF Init, Idle
  <2>2. QED
    BY <2>1, Initially DEF RoundTrip
<1>2. IInv /\ RoundTrip /\ [Next]_vars => (IInv /\ RoundTrip)'
  BY Kept, BackAgain
<1>3. QED
  BY <1>1, <1>2, PTL DEF Spec
=============================================================================
