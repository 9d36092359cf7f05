---------------------------- MODULE SequenceFacts ----------------------------
(***************************************************************************)
(* Facts about the operators on sequences that the models are built from,  *)
(* for use in the proofs: insertion, removal, dropping, sorting, folds and *)
(* flattening, the existence of functions that call themselves,            *)
(* with the least and greatest elements of sets of numbers.  The folds are *)
(* those of the community modules, whose recursive functions exist, and    *)
(* run over the indices of a sequence from the first or from the last.     *)
(***************************************************************************)
EXTENDS Integers, SequencesExt, FiniteSets, SeqDrop, SeqSort,
        SequenceTheorems, FiniteSetTheorems, WellFoundedInduction, TLAPS

\* A non-empty set of natural numbers has a least element.
LEMMA LeastElement ==
  ASSUME NEW T, T \subseteq Nat, T # {}
  PROVE  \E x \in T : \A y \in T : x <= y
<1> DEFINE R == OpToRel(<, Nat)
<1>1. IsWellFoundedOn(R, Nat)
  BY NatLessThanWellFounded
<1>2. PICK x \in T : \A y \in T : <<y, x>> \notin R
  <2> HIDE DEF R
  <2>1. QED BY <1>1, WFMin
<1>3. ASSUME NEW y \in T PROVE x <= y
  <2>1. x \in Nat /\ y \in Nat  OBVIOUS
  <2>2. R = {ss \in Nat \X Nat : ss[1] < ss[2]}  BY DEF OpToRel
  <2> HIDE DEF R
  <2>3. ~(y < x)  BY <2>1, <2>2, <1>2
  <2>4. QED BY <2>1, <2>3
<1>4. QED BY <1>3

\* InsertAt(seq, i, e) puts e at position i and moves the rest up by one.
LEMMA InsertAtProps ==
  ASSUME NEW S, NEW seq \in Seq(S), NEW i \in 1 .. Len(seq)+1, NEW e \in S
  PROVE  /\ InsertAt(seq, i, e) \in Seq(S)
         /\ Len(InsertAt(seq, i, e)) = Len(seq) + 1
         /\ \A j \in 1 .. Len(seq)+1 : InsertAt(seq, i, e)[j] =
              IF j < i THEN seq[j] ELSE IF j = i THEN e ELSE seq[j-1]
<1> DEFINE l == SubSeq(seq, 1, i-1)  r == SubSeq(seq, i, Len(seq))  m == l \o <<e>>
<1>0. Len(seq) \in Nat  OBVIOUS
<1>1. l \in Seq(S) /\ Len(l) = i - 1 /\ \A j \in 1 .. i-1 : l[j] = seq[j]
  BY SubSeqProperties
<1>2. r \in Seq(S) /\ Len(r) = Len(seq) - i + 1 /\ \A j \in 1 .. Len(seq) - i + 1 : r[j] = seq[i+j-1]
  BY SubSeqProperties
<1>3. m \in Seq(S) /\ Len(m) = i /\ \A j \in 1 .. i : m[j] = IF j < i THEN seq[j] ELSE e
  BY <1>1
<1>4. InsertAt(seq, i, e) = m \o r
  BY DEF InsertAt
<1> HIDE DEF l, m, r
<1>5. /\ m \o r \in Seq(S)
      /\ Len(m \o r) = i + (Len(seq) - i + 1)
      /\ \A j \in 1 .. i + (Len(seq) - i + 1) : (m \o r)[j] = IF j <= i THEN m[j] ELSE r[j-i]
  <2>1. m \in Seq(S) /\ r \in Seq(S)
    BY <1>2, <1>3
  <2>2. /\ m \o r \in Seq(S)
        /\ Len(m \o r) = Len(m) + Len(r)
        /\ \A j \in 1 .. Len(m) + Len(r) :
             (m \o r)[j] = IF j <= Len(m) THEN m[j] ELSE r[j - Len(m)]
    BY ONLY <2>1, ConcatProperties
  <2>3. Len(m) = i /\ Len(r) = Len(seq) - i + 1
    BY <1>2, <1>3
  <2>4. QED
    BY ONLY <2>2, <2>3
<1>6. ASSUME NEW j \in 1 .. Len(seq) + 1
      PROVE (m \o r)[j] = IF j < i THEN seq[j] ELSE IF j = i THEN e ELSE seq[j-1]
  <2>1. CASE j <= i  BY <2>1, <1>5, <1>3, <1>0
  <2>2. CASE ~(j <= i)
    <3>1. (m \o r)[j] = r[j-i]  BY <2>2, <1>5, <1>0
    <3>2. j - i \in 1 .. Len(seq) - i + 1  BY <2>2, <1>0
    <3>3. r[j-i] = seq[i + (j - i) - 1]  BY <3>2, <1>2
    <3>4. i + (j - i) - 1 = j - 1  BY <1>0
    <3>5. QED BY <3>1, <3>3, <3>4, <2>2, <1>0
  <2>3. QED BY <2>1, <2>2
<1>7. QED
  BY <1>0, <1>4, <1>5, <1>6

\* RemoveAt(seq, i) drops position i and moves the rest down by one.
LEMMA RemoveAtProps ==
  ASSUME NEW S, NEW seq \in Seq(S), NEW i \in 1 .. Len(seq)
  PROVE  /\ RemoveAt(seq, i) \in Seq(S)
         /\ Len(RemoveAt(seq, i)) = Len(seq) - 1
         /\ \A j \in 1 .. Len(seq)-1 : RemoveAt(seq, i)[j] =
              IF j < i THEN seq[j] ELSE seq[j+1]
<1> DEFINE l == SubSeq(seq, 1, i-1)  r == SubSeq(seq, i+1, Len(seq)) 
<1>0. Len(seq) \in Nat  OBVIOUS
<1>1. l \in Seq(S) /\ Len(l) = i - 1 /\ \A j \in 1 .. i-1 : l[j] = seq[j]
  BY SubSeqProperties
<1>2. r \in Seq(S) /\ Len(r) = Len(seq) - i /\ \A j \in 1 .. Len(seq) - i : r[j] = seq[i+j]
  BY SubSeqProperties
<1>3. RemoveAt(seq, i) = l \o r
  BY DEF RemoveAt
<1> HIDE DEF l, r
<1>4. /\ l \o r \in Seq(S)
      /\ Len(l \o r) = (i - 1) + (Len(seq) - i)
      /\ \A j \in 1 .. (i - 1) + (Len(seq) - i) : 
            (l \o r)[j] = IF j <= i - 1 THEN l[j] ELSE r[j - (i-1)]
  <2>1. l \in Seq(S) /\ r \in Seq(S)
    BY <1>1, <1>2
  <2>2. /\ l \o r \in Seq(S)
        /\ Len(l \o r) = Len(l) + Len(r)
        /\ \A j \in 1 .. Len(l) + Len(r) :
             (l \o r)[j] = IF j <= Len(l) THEN l[j] ELSE r[j - Len(l)]
    BY ONLY <2>1, ConcatProperties
  <2>3. Len(l) = i - 1 /\ Len(r) = Len(seq) - i
    BY <1>1, <1>2
  <2>4. QED
    BY ONLY <2>2, <2>3
<1>5. ASSUME NEW j \in 1 .. Len(seq) - 1
      PROVE (l \o r)[j] = IF j < i THEN seq[j] ELSE seq[j+1]
  <2>1. CASE j < i  BY <2>1, <1>4, <1>1, <1>0
  <2>2. CASE ~(j < i)
    <3>1. (l \o r)[j] = r[j-(i-1)]  BY <2>2, <1>4, <1>0
    <3>2. j - (i-1) \in 1 .. Len(seq) - i  BY <2>2, <1>0
    <3>3. r[j-(i-1)] = seq[i + (j - (i-1))]  BY <3>2, <1>2
    <3>4. i + (j - (i-1)) = j + 1  BY <1>0
    <3>5. QED BY <3>1, <3>3, <3>4, <2>2, <1>0
  <2>3. QED BY <2>1, <2>2
<1>6. Len(l \o r) = Len(seq) - 1  BY <1>0, <1>4
<1>7. QED
  BY <1>3, <1>4, <1>5, <1>6

\* Induction up to a bound, about a set instead of a predicate.
LEMMA UpTo ==
  ASSUME NEW N \in Nat, NEW G, 0 \in G, \A m \in 1 .. N : m - 1 \in G => m \in G
  PROVE  \A m \in 0 .. N : m \in G
<1> DEFINE Bad == {m \in 0 .. N : m \notin G}
<1>1. SUFFICES ASSUME Bad # {} PROVE FALSE
  OBVIOUS
<1>2. Bad \subseteq Nat
  OBVIOUS
<1>3. PICK m \in Bad : \A k \in Bad : m <= k
  BY <1>1, <1>2, LeastElement
<1>4. m \in 1 .. N /\ m - 1 \in 0 .. N
  BY <1>3
<1>5. m - 1 \in G
  BY <1>3, <1>4
<1>6. QED
  BY <1>3, <1>4, <1>5

-----------------------------------------------------------------------------
(* Dropping                                                                *)

\* One turn of the loop, from what was kept before.
Turn(seq, S, f, n) ==
  IF n = 0 THEN <<>> ELSE IF seq[n] \in S THEN f[n - 1] ELSE Append(f[n - 1], seq[n])

\* A function that agrees with the turns up to m.
Turns(seq, S, f, m) == f = [n \in 0 .. m |-> Turn(seq, S, f, n)]

\* The recursive function behind Dropping exists.
LEMMA TurnsExist ==
  ASSUME NEW seq, NEW S, NEW N \in Nat
  PROVE  \E f : Turns(seq, S, f, N)
<1> DEFINE G == {m \in Nat : \E f : Turns(seq, S, f, m)}
<1>1. 0 \in G
  <2>1. Turns(seq, S, [n \in 0 .. 0 |-> <<>>], 0)
    BY DEF Turns, Turn
  <2>2. QED
    BY <2>1
<1>2. ASSUME NEW m \in 1 .. N, m - 1 \in G
      PROVE  m \in G
  <2>1. PICK f : Turns(seq, S, f, m - 1)
    BY <1>2
  <2> DEFINE g == [n \in 0 .. m |-> IF n = m THEN Turn(seq, S, f, m) ELSE f[n]]
  <2>2. ASSUME NEW n \in 0 .. m
        PROVE  g[n] = Turn(seq, S, g, n)
    <3>1. CASE n = m
      <4>1. n # 0 /\ g[n - 1] = f[n - 1]
        BY <3>1
      <4>2. g[n] = Turn(seq, S, f, n)
        BY <3>1
      <4> HIDE DEF g
      <4>3. QED
        BY <4>1, <4>2 DEF Turn
    <3>2. CASE n # m
      <4>1. n \in 0 .. m - 1
        BY <3>2
      <4>2. f[n] = Turn(seq, S, f, n)
        BY <2>1, <4>1 DEF Turns
      <4>3. g[n] = f[n] /\ (n # 0 => g[n - 1] = f[n - 1])
        BY <3>2, <4>1
      <4> HIDE DEF g
      <4>4. QED
        BY <4>2, <4>3 DEF Turn
    <3>3. QED
      BY <3>1, <3>2
  <2>3. g = [n \in 0 .. m |-> g[n]]
    OBVIOUS
  <2> HIDE DEF g
  <2>4. Turns(seq, S, g, m)
    BY <2>2, <2>3 DEF Turns
  <2>5. QED
    BY <2>4
<1> HIDE DEF G
<1>3. N \in G
  BY <1>1, <1>2, UpTo
<1>4. QED
  BY <1>3 DEF G

\* Dropping is what is kept after the last turn.
LEMMA DroppingTurns ==
  ASSUME NEW T, NEW seq \in Seq(T), NEW S
  PROVE  \E kept : Turns(seq, S, kept, Len(seq)) /\ Dropping(seq, S) = kept[Len(seq)]
<1> DEFINE kept == CHOOSE f : Turns(seq, S, f, Len(seq))
<1>1. Turns(seq, S, kept, Len(seq))
  <2>1. Len(seq) \in Nat
    OBVIOUS
  <2>2. \E f : Turns(seq, S, f, Len(seq))
    BY <2>1, TurnsExist
  <2>3. QED
    BY <2>2
<1>2. Dropping(seq, S) = kept[Len(seq)]
  BY DEF Dropping, Turns, Turn
<1>3. QED
  BY <1>1, <1>2

\* r consists of the first n elements of seq without those in S, at the rising
\* positions at.
Selects(T, seq, S, r, n, at) ==
  /\ r \in Seq(T) /\ Len(r) <= n
  /\ at \in [1 .. Len(r) -> 1 .. n]
  /\ \A i \in 1 .. Len(r) : r[i] = seq[at[i]] /\ seq[at[i]] \notin S
  /\ \A i, j \in 1 .. Len(r) : i < j => at[i] < at[j]
  /\ \A k \in 1 .. n : seq[k] \notin S => \E i \in 1 .. Len(r) : at[i] = k

\* A turn selects one more element, or passes it over.
LEMMA TurnSelects ==
  ASSUME NEW T, NEW seq \in Seq(T), NEW S, NEW m \in 1 .. Len(seq),
         NEW r, NEW at, Selects(T, seq, S, r, m - 1, at)
  PROVE  /\ seq[m] \in S => Selects(T, seq, S, r, m, at)
         /\ seq[m] \notin S => \E to : Selects(T, seq, S, Append(r, seq[m]), m, to)
<1>0. Len(seq) \in Nat /\ m \in Nat /\ m >= 1
  OBVIOUS
<1>1. CASE seq[m] \in S
  <2>1. \A k \in 1 .. m : seq[k] \notin S => k \in 1 .. m - 1
    BY <1>0, <1>1
  <2>2. at \in [1 .. Len(r) -> 1 .. m]
    BY <1>0 DEF Selects
  <2>3. QED
    BY <1>0, <1>1, <2>1, <2>2 DEF Selects
<1>2. CASE seq[m] \notin S
  <2> DEFINE q == Append(r, seq[m])
             L == Len(r)
             to == [i \in 1 .. L + 1 |-> IF i = L + 1 THEN m ELSE at[i]]
  <2>1. L \in Nat /\ L <= m - 1 /\ r \in Seq(T) /\ seq[m] \in T
    BY DEF Selects
  <2>2. \A i \in 1 .. L : at[i] \in 1 .. m - 1 /\ r[i] = seq[at[i]] /\ seq[at[i]] \notin S
    BY DEF Selects
  <2>3. q \in Seq(T) /\ Len(q) = L + 1 /\ q[L + 1] = seq[m] /\ \A i \in 1 .. L : q[i] = r[i]
    BY <2>1
  <2>4. to \in [1 .. L + 1 -> 1 .. m] /\ to[L + 1] = m /\ \A i \in 1 .. L : to[i] = at[i]
    BY <1>0, <2>1, <2>2
  <2> HIDE DEF q, to
  <2>5. ASSUME NEW i \in 1 .. L + 1
        PROVE  q[i] = seq[to[i]] /\ seq[to[i]] \notin S
    <3>1. CASE i = L + 1
      BY <1>2, <2>3, <2>4, <3>1
    <3>2. CASE i # L + 1
      <4>1. i \in 1 .. L
        BY <2>1, <3>2
      <4>2. QED
        BY <2>2, <2>3, <2>4, <4>1
    <3>3. QED
      BY <3>1, <3>2
  <2>6. ASSUME NEW i \in 1 .. L + 1, NEW j \in 1 .. L + 1, i < j
        PROVE  to[i] < to[j]
    <3>1. i \in 1 .. L
      BY <2>1, <2>6
    <3>2. CASE j = L + 1
      BY <1>0, <2>2, <2>4, <3>1, <3>2, SMTT(60)
    <3>3. CASE j # L + 1
      <4>1. j \in 1 .. L
        BY <2>1, <3>3
      <4>2. at[i] < at[j]
        BY <2>6, <3>1, <4>1 DEF Selects
      <4>3. QED
        BY <2>4, <3>1, <4>1, <4>2
    <3>4. QED
      BY <3>2, <3>3
  <2>7. ASSUME NEW k \in 1 .. m, seq[k] \notin S
        PROVE  \E i \in 1 .. L + 1 : to[i] = k
    <3>1. CASE k = m
      BY <2>1, <2>4, <3>1
    <3>2. CASE k # m
      <4>1. k \in 1 .. m - 1
        BY <1>0, <3>2
      <4>2. PICK i \in 1 .. L : at[i] = k
        BY <2>7, <4>1 DEF Selects
      <4>3. i \in 1 .. L + 1
        BY <2>1
      <4>4. QED
        BY <2>4, <4>2, <4>3
    <3>3. QED
      BY <3>1, <3>2
  <2>8. Len(q) <= m
    BY <1>0, <2>1, <2>3
  <2>9. Selects(T, seq, S, q, m, to)
    BY ONLY <2>3, <2>4, <2>5, <2>6, <2>7, <2>8 DEF Selects
  <2>10. QED
    BY <1>2, <2>9 DEF q
<1>3. QED
  BY <1>1, <1>2

\* Dropping(seq, S) consists of the elements of seq that are not in S, in their order.
LEMMA DroppingProps ==
  ASSUME NEW T, NEW seq \in Seq(T), NEW S
  PROVE  \E at : Selects(T, seq, S, Dropping(seq, S), Len(seq), at)
<1>1. PICK kept : Turns(seq, S, kept, Len(seq)) /\ Dropping(seq, S) = kept[Len(seq)]
  BY DroppingTurns
<1> DEFINE N == Len(seq)
           G == {n \in 0 .. N : \E at : Selects(T, seq, S, kept[n], n, at)}
<1>2. N \in Nat
  OBVIOUS
<1>3. \A n \in 0 .. N : kept[n] = Turn(seq, S, kept, n)
  BY <1>1 DEF Turns
<1>4. 0 \in G
  <2>1. kept[0] = <<>>
    BY <1>2, <1>3 DEF Turn
  <2>2. Selects(T, seq, S, <<>>, 0, [i \in 1 .. 0 |-> 1])
    BY DEF Selects
  <2>3. QED
    BY <1>2, <2>1, <2>2
<1>5. ASSUME NEW m \in 1 .. N, m - 1 \in G
      PROVE  m \in G
  <2>1. PICK at : Selects(T, seq, S, kept[m - 1], m - 1, at)
    BY <1>5
  <2>2. m \in 0 .. N /\ m # 0
    BY <1>2
  <2>3. kept[m] = IF seq[m] \in S THEN kept[m - 1] ELSE Append(kept[m - 1], seq[m])
    BY <1>3, <2>2 DEF Turn
  <2>4. \E to : Selects(T, seq, S, kept[m], m, to)
    BY <2>1, <2>3, TurnSelects
  <2>5. QED
    BY <2>2, <2>4
<1> HIDE DEF G, N
<1>6. N \in G
  <2>1. \A m \in 0 .. N : m \in G
    BY ONLY <1>2, <1>4, <1>5, UpTo
  <2>2. QED
    BY <1>2, <2>1
<1>7. QED
  BY <1>1, <1>6 DEF G, N

\* The turns for a sequence with one more element start with those for the sequence.
LEMMA TurnsAgree ==
  ASSUME NEW T, NEW seq \in Seq(T), NEW e \in T, NEW S,
         NEW f, Turns(seq, S, f, Len(seq)),
         NEW g, Turns(Append(seq, e), S, g, Len(seq) + 1)
  PROVE  \A m \in 0 .. Len(seq) : f[m] = g[m]
<1> DEFINE N == Len(seq)
           G == {m \in 0 .. N : f[m] = g[m]}
<1>1. N \in Nat /\ \A m \in 1 .. N : Append(seq, e)[m] = seq[m]
  OBVIOUS
<1>2. /\ \A m \in 0 .. N : f[m] = Turn(seq, S, f, m)
      /\ \A m \in 0 .. N + 1 : g[m] = Turn(Append(seq, e), S, g, m)
  BY DEF Turns
<1> HIDE DEF N
<1>3. 0 \in G
  BY <1>1, <1>2 DEF Turn
<1>4. ASSUME NEW m \in 1 .. N, m - 1 \in G
      PROVE  m \in G
  <2>1. m # 0 /\ m \in 0 .. N /\ m \in 0 .. N + 1 /\ f[m - 1] = g[m - 1]
    BY <1>1, <1>4
  <2>2. f[m] = Turn(seq, S, f, m) /\ g[m] = Turn(Append(seq, e), S, g, m)
    BY <1>2, <2>1
  <2>3. Append(seq, e)[m] = seq[m]
    BY <1>1
  <2>4. f[m] = g[m]
    BY <2>1, <2>2, <2>3 DEF Turn
  <2>5. QED
    BY <2>1, <2>4
<1> HIDE DEF G
<1>5. \A m \in 0 .. N : m \in G
  BY <1>1, <1>3, <1>4, UpTo
<1>6. QED
  BY <1>5 DEF G, N

\* Dropping from a sequence with one more element.
LEMMA DroppingAppend ==
  ASSUME NEW T, NEW seq \in Seq(T), NEW e \in T, NEW S
  PROVE  Dropping(Append(seq, e), S) =
           IF e \in S THEN Dropping(seq, S) ELSE Append(Dropping(seq, S), e)
<1> DEFINE N == Len(seq)
           more == Append(seq, e)
<1>1. N \in Nat /\ more \in Seq(T) /\ Len(more) = N + 1 /\ more[N + 1] = e
  OBVIOUS
<1>2. PICK f : Turns(seq, S, f, N) /\ Dropping(seq, S) = f[N]
  BY DroppingTurns
<1> HIDE DEF more
<1>3. PICK g : Turns(more, S, g, N + 1) /\ Dropping(more, S) = g[N + 1]
  BY <1>1, DroppingTurns
<1>4. f[N] = g[N]
  BY <1>1, <1>2, <1>3, TurnsAgree DEF more
<1>5. g[N + 1] = IF e \in S THEN g[N] ELSE Append(g[N], e)
  <2>1. N + 1 \in 0 .. N + 1 /\ N + 1 # 0 /\ (N + 1) - 1 = N
    BY <1>1
  <2>2. g[N + 1] = Turn(more, S, g, N + 1)
    BY <1>3, <2>1 DEF Turns
  <2>3. QED
    BY <1>1, <2>1, <2>2 DEF Turn
<1>6. QED
  BY <1>2, <1>3, <1>4, <1>5 DEF more

\* Of nothing, nothing is left.
LEMMA DroppingEmpty ==
  ASSUME NEW S
  PROVE  Dropping(<<>>, S) = <<>>
<1>1. <<>> \in Seq({}) /\ Len(<<>>) = 0
  OBVIOUS
<1>2. PICK f : Turns(<<>>, S, f, 0) /\ Dropping(<<>>, S) = f[0]
  BY <1>1, DroppingTurns
<1>3. QED
  BY <1>2 DEF Turns, Turn

-----------------------------------------------------------------------------
(* Greatest and least elements                                             *)

\* A set of numbers that is not empty and bounded has a greatest element, Max.
LEMMA MaxProps ==
  ASSUME NEW S, S \subseteq Int, S # {}, NEW b \in Int, \A x \in S : x <= b
  PROVE  Max(S) \in S /\ \A y \in S : Max(S) >= y
<1> DEFINE T == {x \in Nat : b - x \in S}
<1>1. T \subseteq Nat /\ T # {}
  <2>1. PICK x \in S : TRUE
    OBVIOUS
  <2>2. b - x \in Nat /\ b - (b - x) = x
    OBVIOUS
  <2>3. QED
    BY <2>1, <2>2
<1>2. PICK t \in T : \A u \in T : t <= u
  BY <1>1, LeastElement
<1>3. b - t \in S /\ t \in Nat
  BY <1>2
<1>4. ASSUME NEW y \in S
      PROVE  b - t >= y
  <2>1. b - y \in T
    <3>1. b - y \in Nat /\ b - (b - y) = y
      OBVIOUS
    <3>2. QED
      BY <3>1
  <2>2. t <= b - y
    BY <1>2, <2>1
  <2>3. QED
    BY <1>3, <2>2
<1>5. \E x \in S : \A y \in S : x >= y
  BY <1>3, <1>4
<1>6. QED
  BY <1>5 DEF Max

\* The greatest of a set is one of it that is above all.
LEMMA MaxIs ==
  ASSUME NEW S, S \subseteq Int, NEW x \in S, \A y \in S : x >= y
  PROVE  Max(S) = x
<1> DEFINE m == Max(S)
<1>1. m \in S /\ \A y \in S : m >= y
  BY DEF Max
<1> HIDE DEF m
<1>2. m \in Int /\ x \in Int /\ m >= x /\ x >= m
  BY <1>1
<1>3. QED
  BY <1>2 DEF m

\* The least likewise.
LEMMA MinIs ==
  ASSUME NEW S, S \subseteq Int, NEW x \in S, \A y \in S : x <= y
  PROVE  Min(S) = x
<1> DEFINE m == Min(S)
<1>1. m \in S /\ \A y \in S : m <= y
  BY DEF Min
<1> HIDE DEF m
<1>2. m \in Int /\ x \in Int /\ m <= x /\ x <= m
  BY <1>1
<1>3. QED
  BY <1>2 DEF m

-----------------------------------------------------------------------------
(* Folds                                                                   *)

\* A step of a fold over the indices in s, which takes them as c chooses.
FoldStep(base, step, c, f, s) == IF s = {} THEN base ELSE step[<<f[s \ {c[s]}], c[s]>>]

\* A fold of values in A over the finite set D: c chooses an element of every subset.
FoldsOver(A, D, base, step, c) ==
  /\ IsFiniteSet(D) /\ base \in A /\ step \in [A \X D -> A]
  /\ \A s \in SUBSET D : s # {} => c[s] \in s

Folded(A, D, base, step, c, f) ==
  f \in [SUBSET D -> A] /\ \A s \in SUBSET D : f[s] = FoldStep(base, step, c, f, s)

\* The recursive function behind FoldLeft and FoldRight exists, for a step that stays
\* in A.
LEMMA FoldsExist ==
  ASSUME NEW A, NEW D, NEW base, NEW step, NEW c, FoldsOver(A, D, base, step, c)
  PROVE  \E f : Folded(A, D, base, step, c, f)
<1> DEFINE Small(m) == {s \in SUBSET D : Cardinality(s) <= m}
           Folds(f, m) == \A s \in Small(m) : f[s] = FoldStep(base, step, c, f, s)
           G == {m \in Nat : \E f \in [Small(m) -> A] : Folds(f, m)}
           N == Cardinality(D)
<1> USE DEF FoldsOver
<1>1. \A s \in SUBSET D : Cardinality(s) \in 0 .. N /\ (Cardinality(s) = 0 <=> s = {})
  BY FS_Subset, FS_CardinalityType, FS_EmptySet
<1>2. \A s \in SUBSET D : s # {} =>
        s \ {c[s]} \in SUBSET D /\ Cardinality(s \ {c[s]}) = Cardinality(s) - 1
  BY FS_Subset, FS_RemoveElement
<1>3. 0 \in G
  <2> DEFINE f == [s \in Small(0) |-> base]
  <2>1. \A s \in Small(0) : s = {}
    BY <1>1
  <2>2. f \in [Small(0) -> A]
    OBVIOUS
  <2>3. Folds(f, 0)
    BY <2>1 DEF FoldStep
  <2> HIDE DEF f, Folds, Small
  <2>4. \E h \in [Small(0) -> A] : Folds(h, 0)
    BY <2>2, <2>3
  <2>5. QED
    BY <2>4
<1>4. ASSUME NEW m \in 1 .. N, m - 1 \in G
      PROVE  m \in G
  <2>1. PICK f \in [Small(m - 1) -> A] : Folds(f, m - 1)
    BY <1>4
  <2>2. ASSUME NEW s \in Small(m), s # {}
        PROVE  s \ {c[s]} \in Small(m - 1) /\ s \ {c[s]} \in Small(m) /\ c[s] \in D
    BY <1>1, <1>2, <2>2
  <2> DEFINE g == [s \in Small(m) |-> FoldStep(base, step, c, f, s)]
  <2>3. \A s \in Small(m - 1) : s \in Small(m) /\ g[s] = f[s]
    BY <1>1, <2>1
  <2>4. ASSUME NEW s \in Small(m)
        PROVE  g[s] \in A /\ g[s] = FoldStep(base, step, c, g, s)
    <3>1. CASE s = {}
      BY <3>1 DEF FoldStep
    <3>2. CASE s # {}
      <4>1. g[s] = step[<<f[s \ {c[s]}], c[s]>>]
        BY <3>2 DEF FoldStep
      <4>2. f[s \ {c[s]}] \in A /\ g[s \ {c[s]}] = f[s \ {c[s]}]
        BY <2>2, <2>3, <3>2
      <4> HIDE DEF g, Small
      <4>3. QED
        BY <2>2, <3>2, <4>1, <4>2 DEF FoldStep
    <3>3. QED
      BY <3>1, <3>2
  <2>5. g \in [Small(m) -> A]
    BY <2>4
  <2>6. Folds(g, m)
    BY <2>4
  <2> HIDE DEF g, Folds, Small
  <2>7. \E h \in [Small(m) -> A] : Folds(h, m)
    BY <2>5, <2>6
  <2>8. QED
    BY <2>7
<1> HIDE DEF G
<1>5. N \in Nat
  BY FS_CardinalityType
<1>6. N \in G
  BY <1>3, <1>4, <1>5, UpTo
<1>7. Small(N) = SUBSET D
  BY <1>1
<1>8. QED
  BY <1>6, <1>7 DEF G, Folded

\* The sets of indices that FoldLeft goes through: the greatest is the last.
LEMMA FirstIndices ==
  ASSUME NEW N \in Nat, NEW m \in 1 .. N
  PROVE  /\ 1 .. m \in SUBSET (1 .. N) /\ 1 .. m # {}
         /\ Max(1 .. m) = m /\ (1 .. m) \ {m} = 1 .. m - 1
<1>1. 1 .. m \in SUBSET (1 .. N) /\ m \in 1 .. m /\ (1 .. m) \ {m} = 1 .. m - 1
  OBVIOUS
<1>2. 1 .. m \subseteq Int /\ \A y \in 1 .. m : m >= y
  OBVIOUS
<1>3. Max(1 .. m) = m
  BY ONLY <1>1, <1>2, MaxIs
<1>4. QED
  BY <1>1, <1>3

-----------------------------------------------------------------------------
(* Sequences made of the elements of another, each taken once               *)

\* r is made of elements of s, each taken from a place of its own, at.
Picks(T, s, r, at) ==
  /\ r \in Seq(T) /\ at \in Injection(1 .. Len(r), 1 .. Len(s))
  /\ \A i \in 1 .. Len(r) : r[i] = s[at[i]]

\* All elements are different, or all but the one at k.
DistinctBut(s, k) == \A i, j \in DOMAIN s \ {k} : s[i] = s[j] => i = j

\* The size of 1 .. n, and the pigeonhole principle for such sets.
LEMMA Indices ==
  ASSUME NEW n \in Nat
  PROVE  IsFiniteSet(1 .. n) /\ Cardinality(1 .. n) = n
<1>1. /\ IsFiniteSet(1 .. n)
      /\ Cardinality(1 .. n) = IF 1 > n THEN 0 ELSE n - 1 + 1
  BY FS_Interval
<1>2. QED
  BY <1>1

\* The pigeonhole principle: a sequence without repetitions of n things is no longer than n, and
\* has all of them if it is as long.
LEMMA Pigeonhole ==
  ASSUME NEW m \in Nat, NEW n \in Nat, NEW f \in Injection(1 .. m, 1 .. n)
  PROVE  m <= n /\ (m = n => \A j \in 1 .. n : \E i \in 1 .. m : f[i] = j)
<1>1. IsFiniteSet(1 .. n) /\ Cardinality(1 .. n) = n /\ Cardinality(1 .. m) = m
  BY Indices
<1>2. /\ Cardinality(1 .. m) <= Cardinality(1 .. n)
      /\ Cardinality(1 .. m) = Cardinality(1 .. n) <=> f \in Surjection(1 .. m, 1 .. n)
  BY <1>1, FS_Injection
<1>3. f \in Surjection(1 .. m, 1 .. n) => \A j \in 1 .. n : \E i \in 1 .. m : f[i] = j
  BY DEF Surjection
<1>4. QED
  BY <1>1, <1>2, <1>3

\* The members of a sequence.
LEMMA ToSetProps ==
  ASSUME NEW T, NEW s \in Seq(T)
  PROVE  /\ ToSet(s) \subseteq T
         /\ \A x : x \in ToSet(s) <=> \E i \in 1 .. Len(s) : s[i] = x
<1>1. DOMAIN s = 1 .. Len(s)
  OBVIOUS
<1>2. QED
  BY <1>1 DEF ToSet

\* What is picked from s has no more members, no more places, and no new repetitions.
LEMMA PicksProps ==
  ASSUME NEW T, NEW s \in Seq(T), NEW r, NEW at, Picks(T, s, r, at)
  PROVE  /\ Len(r) <= Len(s)
         /\ ToSet(r) \subseteq ToSet(s)
         /\ IsInjective(s) => IsInjective(r)
         /\ \A k : DistinctBut(s, k) => \E l : DistinctBut(r, l)
         /\ Len(r) = Len(s) => ToSet(r) = ToSet(s)
<1>1. /\ r \in Seq(T) /\ at \in Injection(1 .. Len(r), 1 .. Len(s))
      /\ Len(r) \in Nat /\ Len(s) \in Nat
      /\ DOMAIN r = 1 .. Len(r) /\ DOMAIN s = 1 .. Len(s)
  BY DEF Picks
<1>2. /\ \A i \in 1 .. Len(r) : at[i] \in 1 .. Len(s) /\ r[i] = s[at[i]]
      /\ \A i, j \in 1 .. Len(r) : at[i] = at[j] => i = j
  BY <1>1 DEF Picks, Injection, IsInjective
<1>3. /\ Len(r) <= Len(s)
      /\ Len(r) = Len(s) => \A j \in 1 .. Len(s) : \E i \in 1 .. Len(r) : at[i] = j
  <2> DEFINE m == Len(r)  n == Len(s)
  <2>1. m \in Nat /\ n \in Nat /\ at \in Injection(1 .. m, 1 .. n)
    BY <1>1
  <2> HIDE DEF m, n
  <2>2. m <= n /\ (m = n => \A j \in 1 .. n : \E i \in 1 .. m : at[i] = j)
    BY <2>1, Pigeonhole
  <2>3. QED
    BY <2>2 DEF m, n
<1>4. ToSet(r) \subseteq ToSet(s)
  BY <1>1, <1>2 DEF ToSet
<1>5. IsInjective(s) => IsInjective(r)
  BY <1>1, <1>2 DEF IsInjective
<1>6. ASSUME NEW k, DistinctBut(s, k)
      PROVE  \E l : DistinctBut(r, l)
  <2>1. CASE \E l \in 1 .. Len(r) : at[l] = k
    <3>1. PICK l \in 1 .. Len(r) : at[l] = k
      BY <2>1
    <3>2. DistinctBut(r, l)
      BY <1>1, <1>2, <1>6, <3>1 DEF DistinctBut
    <3>3. QED
      BY <3>2
  <2>2. CASE ~ \E l \in 1 .. Len(r) : at[l] = k
    <3>1. DistinctBut(r, 0)
      BY <1>1, <1>2, <1>6, <2>2 DEF DistinctBut
    <3>2. QED
      BY <3>1
  <2>3. QED
    BY <2>1, <2>2
<1>7. Len(r) = Len(s) => ToSet(s) \subseteq ToSet(r)
  <2>1. SUFFICES ASSUME Len(r) = Len(s), NEW j \in 1 .. Len(s)
                 PROVE  \E i \in 1 .. Len(r) : r[i] = s[j]
    BY <1>1 DEF ToSet
  <2>2. PICK i \in 1 .. Len(r) : at[i] = j
    BY <1>3, <2>1
  <2>3. QED
    BY <1>2, <2>2
<1>8. QED
  BY <1>3, <1>4, <1>5, <1>6, <1>7

\* A sequence without some elements is picked from it.
LEMMA DroppingPicks ==
  ASSUME NEW T, NEW seq \in Seq(T), NEW S
  PROVE  /\ \E at : Picks(T, seq, Dropping(seq, S), at)
         /\ Dropping(seq, S) \in Seq(T)
         /\ ToSet(Dropping(seq, S)) = ToSet(seq) \ S
<1> DEFINE r == Dropping(seq, S)
<1>1. PICK at : Selects(T, seq, S, r, Len(seq), at)
  BY DroppingProps
<1> HIDE DEF r
<1>2. r \in Seq(T) /\ Len(r) \in Nat /\ Len(seq) \in Nat /\ DOMAIN r = 1 .. Len(r) /\ DOMAIN seq = 1 .. Len(seq)
  BY <1>1 DEF Selects
<1>3. at \in Injection(1 .. Len(r), 1 .. Len(seq))
  <2>1. at \in [1 .. Len(r) -> 1 .. Len(seq)]
    BY <1>1 DEF Selects
  <2>2. ASSUME NEW i \in 1 .. Len(r), NEW j \in 1 .. Len(r), at[i] = at[j]
        PROVE  i = j
    <3>1. /\ i < j => at[i] < at[j]
          /\ j < i => at[j] < at[i]
      BY <1>1 DEF Selects
    <3>2. at[i] \in Int /\ at[j] \in Int
      BY <2>1
    <3>3. QED
      BY <1>2, <2>2, <3>1, <3>2
  <2>3. QED
    BY <2>1, <2>2 DEF Injection, IsInjective
<1>4. Picks(T, seq, r, at)
  BY <1>1, <1>2, <1>3 DEF Picks, Selects
<1>5. ToSet(r) = ToSet(seq) \ S
  <2>1. /\ at \in [1 .. Len(r) -> 1 .. Len(seq)]
        /\ \A i \in 1 .. Len(r) : r[i] = seq[at[i]] /\ seq[at[i]] \notin S
        /\ \A k \in 1 .. Len(seq) : seq[k] \notin S => \E i \in 1 .. Len(r) : at[i] = k
    BY <1>1 DEF Selects
  <2>2. ToSet(r) \subseteq ToSet(seq) \ S
    BY <1>2, <2>1 DEF ToSet
  <2>3. ASSUME NEW k \in 1 .. Len(seq), seq[k] \notin S
        PROVE  seq[k] \in ToSet(r)
    <3>1. PICK i \in 1 .. Len(r) : at[i] = k
      BY <2>1, <2>3
    <3>2. r[i] = seq[k]
      BY <2>1, <3>1
    <3>3. QED
      BY <1>2, <3>2 DEF ToSet
  <2>4. QED
    BY <1>2, <2>2, <2>3 DEF ToSet
<1>6. QED
  BY <1>2, <1>4, <1>5 DEF r

\* A sequence without the element at k is picked from it.
LEMMA RemoveAtPicks ==
  ASSUME NEW T, NEW seq \in Seq(T), NEW k \in 1 .. Len(seq)
  PROVE  /\ \E at : Picks(T, seq, RemoveAt(seq, k), at)
         /\ RemoveAt(seq, k) \in Seq(T)
         /\ ToSet(RemoveAt(seq, k)) \cup {seq[k]} = ToSet(seq)
         /\ IsInjective(seq) => seq[k] \notin ToSet(RemoveAt(seq, k))
<1> DEFINE r == RemoveAt(seq, k)
           at == [i \in 1 .. Len(seq) - 1 |-> IF i < k THEN i ELSE i + 1]
<1>1. /\ r \in Seq(T) /\ Len(r) = Len(seq) - 1
      /\ \A j \in 1 .. Len(seq) - 1 : r[j] = IF j < k THEN seq[j] ELSE seq[j + 1]
  BY RemoveAtProps
<1>2. Len(seq) \in Nat /\ DOMAIN seq = 1 .. Len(seq)
  OBVIOUS
<1> HIDE DEF r
<1>3. /\ at \in [1 .. Len(r) -> 1 .. Len(seq)]
      /\ \A i \in 1 .. Len(r) : at[i] = IF i < k THEN i ELSE i + 1
  BY <1>1, <1>2
<1> HIDE DEF at
<1>4. at \in Injection(1 .. Len(r), 1 .. Len(seq))
  <2>1. ASSUME NEW i \in 1 .. Len(r), NEW j \in 1 .. Len(r), at[i] = at[j]
        PROVE  i = j
    BY <1>1, <1>2, <1>3, <2>1
  <2>2. QED
    BY <1>3, <2>1 DEF Injection, IsInjective
<1>5. Picks(T, seq, r, at)
  <2>1. ASSUME NEW i \in 1 .. Len(r)
        PROVE  r[i] = seq[at[i]]
    BY <1>1, <1>3
  <2>2. QED
    BY <1>1, <1>4, <2>1 DEF Picks
<1>6. DOMAIN r = 1 .. Len(r)
  BY <1>1
<1>7. ToSet(r) \cup {seq[k]} = ToSet(seq)
  <2>1. ToSet(r) \subseteq ToSet(seq)
    BY <1>5, PicksProps
  <2>2. ASSUME NEW j \in 1 .. Len(seq), j # k
        PROVE  seq[j] \in ToSet(r)
    <3>1. CASE j < k
      <4>1. j \in 1 .. Len(r) /\ r[j] = seq[j]
        BY <1>1, <1>2, <3>1
      <4>2. QED
        BY <1>6, <4>1 DEF ToSet
    <3>2. CASE j > k
      <4>1. j - 1 \in 1 .. Len(r) /\ r[j - 1] = seq[j]
        <5>1. j - 1 \in 1 .. Len(seq) - 1 /\ ~(j - 1 < k) /\ (j - 1) + 1 = j
          BY <1>2, <3>2
        <5>2. QED
          BY <1>1, <5>1
      <4>2. QED
        BY <1>6, <4>1 DEF ToSet
    <3>3. QED
      BY <1>2, <2>2, <3>1, <3>2
  <2>3. QED
    BY <1>2, <2>1, <2>2 DEF ToSet
<1>8. ASSUME IsInjective(seq), seq[k] \in ToSet(r)
      PROVE  FALSE
  <2>1. PICK i \in 1 .. Len(r) : r[i] = seq[k]
    BY <1>6, <1>8 DEF ToSet
  <2>2. seq[at[i]] = seq[k] /\ at[i] \in 1 .. Len(seq) /\ at[i] # k
    BY <1>1, <1>2, <1>3, <2>1
  <2>3. QED
    BY <1>2, <1>8, <2>2 DEF IsInjective
<1>9. QED
  BY <1>1, <1>5, <1>7, <1>8 DEF r

\* One element more.
LEMMA AppendProps ==
  ASSUME NEW T, NEW seq \in Seq(T), NEW e \in T
  PROVE  /\ ToSet(Append(seq, e)) = ToSet(seq) \cup {e}
         /\ IsInjective(seq) /\ e \notin ToSet(seq) => IsInjective(Append(seq, e))
         /\ \A k : DistinctBut(seq, k) /\ e \notin ToSet(seq) => \E l : DistinctBut(Append(seq, e), l)
<1> DEFINE r == Append(seq, e)
<1>1. /\ Len(seq) \in Nat /\ DOMAIN seq = 1 .. Len(seq)
      /\ DOMAIN r = 1 .. Len(seq) + 1 /\ r[Len(seq) + 1] = e
      /\ \A i \in 1 .. Len(seq) : r[i] = seq[i]
  OBVIOUS
<1> HIDE DEF r
<1>2. ToSet(r) = ToSet(seq) \cup {e}
  <2>1. ToSet(r) \subseteq ToSet(seq) \cup {e}
    BY <1>1 DEF ToSet
  <2>2. Len(seq) + 1 \in DOMAIN r /\ \A i \in DOMAIN seq : i \in DOMAIN r
    BY <1>1
  <2>3. QED
    BY <1>1, <2>1, <2>2 DEF ToSet
<1>4. ASSUME NEW D, D \subseteq DOMAIN seq, e \notin ToSet(seq),
             \A i, j \in D : seq[i] = seq[j] => i = j
      PROVE  \A i, j \in D \cup {Len(seq) + 1} : r[i] = r[j] => i = j
  <2>1. \A i \in D : r[i] = seq[i] /\ seq[i] # e
    BY <1>1, <1>4 DEF ToSet
  <2>2. QED
    BY <1>1, <1>4, <2>1
<1>5. IsInjective(seq) /\ e \notin ToSet(seq) => IsInjective(r)
  <2>1. DOMAIN r = DOMAIN seq \cup {Len(seq) + 1}
    BY <1>1
  <2>2. QED
    BY <1>4, <2>1 DEF IsInjective
<1>6. ASSUME NEW k, DistinctBut(seq, k), e \notin ToSet(seq)
      PROVE  \E l : DistinctBut(r, l)
  <2> DEFINE l == IF k \in DOMAIN seq THEN k ELSE 0
  <2>1. DOMAIN r \ {l} = (DOMAIN seq \ {k}) \cup {Len(seq) + 1}
    BY <1>1
  <2>2. \A i, j \in DOMAIN seq \ {k} : seq[i] = seq[j] => i = j
    BY <1>6 DEF DistinctBut
  <2> HIDE DEF l
  <2>3. DistinctBut(r, l)
    BY <1>4, <1>6, <2>1, <2>2 DEF DistinctBut
  <2>4. QED
    BY <2>3
<1>7. QED
  BY <1>2, <1>5, <1>6 DEF r

-----------------------------------------------------------------------------
(* Sorting                                                                 *)

\* There is a way to put numbers in order: insertion sort.
LEMMA OrderExists ==
  ASSUME NEW N \in Nat, NEW val \in [1 .. N -> Int]
  PROVE  \E p \in Injection(1 .. N, 1 .. N) : \A i, j \in 1 .. N : i < j => val[p[i]] <= val[p[j]]
<1> DEFINE Orders(p, m) == \A i, j \in 1 .. m : i < j => val[p[i]] <= val[p[j]]
           G == {m \in 0 .. N : \E p \in Injection(1 .. m, 1 .. m) : Orders(p, m)}
<1>1. 0 \in G
  <2>1. [i \in 1 .. 0 |-> 1] \in Injection(1 .. 0, 1 .. 0)
    BY DEF Injection, IsInjective
  <2>2. \E p \in Injection(1 .. 0, 1 .. 0) : Orders(p, 0)
    BY <2>1
  <2>3. 0 \in 0 .. N
    OBVIOUS
  <2>4. QED
    BY <2>2, <2>3
<1>2. ASSUME NEW m \in 1 .. N, m - 1 \in G
      PROVE  m \in G
  <2>1. PICK p \in Injection(1 .. m - 1, 1 .. m - 1) : Orders(p, m - 1)
    BY <1>2
  <2>2. /\ p \in [1 .. m - 1 -> 1 .. m - 1]
        /\ \A i, j \in 1 .. m - 1 : p[i] = p[j] => i = j
    BY DEF Injection, IsInjective
  <2>3. m \in Nat /\ m >= 1 /\ \A i \in 1 .. m : val[i] \in Int
    OBVIOUS
  <2> DEFINE above == {i \in 1 .. m : i = m \/ val[p[i]] > val[m]}
  <2>4. PICK k \in above : \A y \in above : k <= y
    <3>1. above \subseteq Nat /\ m \in above
      BY <2>3
    <3>2. QED
      BY <3>1, LeastElement
  <2>5. /\ k \in 1 .. m
        /\ \A i \in 1 .. m - 1 : i < k => val[p[i]] <= val[m]
        /\ \A i \in 1 .. m - 1 : i >= k => val[m] <= val[p[i]]
    <3>1. k \in 1 .. m
      BY <2>4
    <3>2. ASSUME NEW i \in 1 .. m - 1, i < k
          PROVE  val[p[i]] <= val[m]
      <4>1. i \in 1 .. m /\ i \notin above
        BY <2>4, <3>1, <3>2
      <4>2. ~(val[p[i]] > val[m]) /\ val[p[i]] \in Int /\ val[m] \in Int
        BY <2>2, <2>3, <4>1
      <4>3. QED
        BY <4>2
    <3>3. ASSUME NEW i \in 1 .. m - 1, i >= k
          PROVE  val[m] <= val[p[i]]
      <4>1. k # m /\ k \in 1 .. m - 1
        BY <3>1, <3>3
      <4>2. val[p[k]] > val[m]
        BY <2>4, <4>1
      <4>3. k < i => val[p[k]] <= val[p[i]]
        BY <2>1, <4>1
      <4>4. p[k] \in 1 .. m /\ p[i] \in 1 .. m
        BY <2>2, <4>1
      <4>5. val[p[k]] \in Int /\ val[p[i]] \in Int /\ val[m] \in Int
        BY <2>3, <4>4
      <4>6. QED
        BY <3>1, <3>3, <4>2, <4>3, <4>5, SMTT(30)
    <3>4. QED
      BY <3>1, <3>2, <3>3
  <2> DEFINE q == [i \in 1 .. m |-> IF i < k THEN p[i] ELSE IF i = k THEN m ELSE p[i - 1]]
  <2>6. ASSUME NEW i \in 1 .. m
        PROVE  /\ i < k => i \in 1 .. m - 1 /\ q[i] = p[i]
               /\ i = k => q[i] = m
               /\ i > k => i - 1 \in 1 .. m - 1 /\ i - 1 >= k /\ q[i] = p[i - 1]
    BY <2>3, <2>5
  <2>7. q \in [1 .. m -> 1 .. m]
    <3>1. ASSUME NEW i \in 1 .. m
          PROVE  q[i] \in 1 .. m
      <4>1. \A j \in 1 .. m - 1 : p[j] \in 1 .. m
        BY <2>2, <2>3
      <4>2. i < k \/ i = k \/ i > k
        BY <2>5
      <4> HIDE DEF q
      <4>3. QED
        BY <2>3, <2>6, <4>1, <4>2, SMTT(30)
    <3>2. QED
      BY <3>1
  <2> HIDE DEF q, above
  <2>8. ASSUME NEW i \in 1 .. m, NEW j \in 1 .. m, i < j
        PROVE  q[i] # q[j] /\ val[q[i]] <= val[q[j]]
    <3>1. \A a \in 1 .. m - 1 : p[a] \in 1 .. m - 1 /\ p[a] # m
      BY <2>2, <2>3
    <3>2. CASE i < k /\ j < k
      <4>1. i \in 1 .. m - 1 /\ j \in 1 .. m - 1 /\ q[i] = p[i] /\ q[j] = p[j]
        BY <2>6, <3>2
      <4>2. i # j
        BY <2>8
      <4>3. QED
        BY <2>1, <2>2, <2>8, <4>1, <4>2
    <3>3. CASE i < k /\ j = k
      BY <2>5, <2>6, <3>1, <3>3
    <3>4. CASE i < k /\ j > k
      <4>1. i < j - 1 /\ i \in 1 .. m - 1 /\ j - 1 \in 1 .. m - 1
        BY <2>5, <2>6, <3>4
      <4>2. QED
        BY <2>1, <2>2, <2>6, <3>4, <4>1, SMTT(30)
    <3>5. CASE i = k
      <4>1. j > k
        BY <2>8, <3>5
      <4>2. QED
        BY <2>5, <2>6, <3>1, <3>5, <4>1
    <3>6. CASE i > k
      <4>1. j > k /\ i - 1 < j - 1 /\ i - 1 # j - 1
        BY <2>5, <2>8, <3>6
      <4>2. i - 1 \in 1 .. m - 1 /\ j - 1 \in 1 .. m - 1 /\ q[i] = p[i - 1] /\ q[j] = p[j - 1]
        BY <2>6, <3>6, <4>1
      <4>3. QED
        BY <2>1, <2>2, <4>1, <4>2
    <3>7. QED
      BY <2>5, <2>8, <3>2, <3>3, <3>4, <3>5, <3>6
  <2>9. q \in Injection(1 .. m, 1 .. m)
    <3>1. ASSUME NEW i \in 1 .. m, NEW j \in 1 .. m, q[i] = q[j]
          PROVE  i = j
      <4>1. ~(i < j) /\ ~(j < i)
        BY <2>8, <3>1
      <4>2. QED
        BY <4>1
    <3>2. QED
      BY <2>7, <3>1 DEF Injection, IsInjective
  <2>10. Orders(q, m)
    BY <2>8
  <2> HIDE DEF Orders
  <2>11. \E h \in Injection(1 .. m, 1 .. m) : Orders(h, m)
    BY <2>9, <2>10
  <2>12. QED
    BY <2>11
<1> HIDE DEF G
<1>3. N \in G
  <2>1. \A m \in 0 .. N : m \in G
    BY ONLY N \in Nat, <1>1, <1>2, UpTo
  <2>2. N \in 0 .. N
    OBVIOUS
  <2>3. QED
    BY <2>1, <2>2
<1>4. QED
  BY <1>3 DEF G

\* A sorted sequence is picked from the other, all of it, and in the order of the keys.
LEMMA SortedByProps ==
  ASSUME NEW T, NEW seq \in Seq(T), NEW key, \A i \in 1 .. Len(seq) : key[seq[i]] \in Int
  PROVE  /\ \E at : Picks(T, seq, SortedBy(seq, key), at)
         /\ SortedBy(seq, key) \in Seq(T)
         /\ Len(SortedBy(seq, key)) = Len(seq)
         /\ ToSet(SortedBy(seq, key)) = ToSet(seq)
         /\ \A i, j \in 1 .. Len(seq) :
              i < j => key[SortedBy(seq, key)[i]] <= key[SortedBy(seq, key)[j]]
<1> DEFINE N == Len(seq)
           InOrder(p) == \A i, j \in 1 .. N : i < j => key[seq[p[i]]] <= key[seq[p[j]]]
           order == CHOOSE p \in Injection(1 .. N, 1 .. N) : InOrder(p)
           r == [i \in 1 .. N |-> seq[order[i]]]
<1>1. N \in Nat /\ DOMAIN seq = 1 .. N /\ \A i \in 1 .. N : seq[i] \in T
  OBVIOUS
<1>2. SortedBy(seq, key) = r
  BY <1>1 DEF SortedBy
<1>3. \E p \in Injection(1 .. N, 1 .. N) : InOrder(p)
  <2> DEFINE val == [i \in 1 .. N |-> key[seq[i]]]
  <2>1. val \in [1 .. N -> Int]
    OBVIOUS
  <2> HIDE DEF val, N
  <2>2. PICK p \in Injection(1 .. N, 1 .. N) : \A i, j \in 1 .. N : i < j => val[p[i]] <= val[p[j]]
    BY <1>1, <2>1, OrderExists
  <2>3. \A i \in 1 .. N : p[i] \in 1 .. N
    BY <2>2 DEF Injection
  <2>4. \A i \in 1 .. N : val[p[i]] = key[seq[p[i]]]
    BY <2>3 DEF val
  <2>5. InOrder(p)
    BY <2>2, <2>4
  <2> HIDE DEF InOrder
  <2>6. QED
    BY <2>5
<1>4. order \in Injection(1 .. N, 1 .. N) /\ InOrder(order)
  <2> HIDE DEF InOrder
  <2>1. QED
    BY <1>3
<1> HIDE DEF order
<1>5. \A i \in 1 .. N : order[i] \in 1 .. N
  BY <1>4 DEF Injection
<1>6. r \in Seq(T) /\ Len(r) = N /\ \A i \in 1 .. N : r[i] = seq[order[i]]
  BY <1>1, <1>5
<1> HIDE DEF r
<1>7. Picks(T, seq, r, order)
  BY <1>4, <1>6 DEF Picks
<1>8. ToSet(r) = ToSet(seq)
  BY <1>6, <1>7, PicksProps
<1>9. QED
  BY <1>2, <1>4, <1>6, <1>7, <1>8

\* Of the places of a sequence at most one can be spared without losing a member, if
\* and only if all elements but one are different.
LEMMA OneToSpare ==
  ASSUME NEW T, NEW s \in Seq(T)
  PROVE  Len(s) - Cardinality(ToSet(s)) <= 1 <=> \E k : DistinctBut(s, k)
<1>1. Len(s) \in Nat /\ DOMAIN s = 1 .. Len(s)
  OBVIOUS
<1> DEFINE N == Len(s)
           M == ToSet(s)
           First == {i \in 1 .. N : \A j \in 1 .. i - 1 : s[j] # s[i]}
<1>2. IsFiniteSet(1 .. N) /\ Cardinality(1 .. N) = N
  BY <1>1, Indices
<1>3. /\ First \subseteq 1 .. N /\ IsFiniteSet(First) /\ Cardinality(First) \in Nat
  BY <1>2, FS_Subset, FS_CardinalityType
<1>4. /\ IsFiniteSet(M) /\ Cardinality(M) = Cardinality(First)
      /\ \A i, j \in First : s[i] = s[j] => i = j
  <2> DEFINE f == [i \in First |-> s[i]]
  <2>1. \A i, j \in First : s[i] = s[j] => i = j
    <3>1. \A i, j \in First : i < j => s[i] # s[j]
      OBVIOUS
    <3>2. QED
      BY <1>1, <3>1
  <2>2. f \in [First -> M]
    BY <1>1 DEF ToSet
  <2>3. ASSUME NEW x \in M
        PROVE  \E i \in First : f[i] = x
    <3> DEFINE I == {i \in 1 .. N : s[i] = x}
    <3>1. I \subseteq Nat /\ I # {}
      BY <1>1 DEF ToSet
    <3>2. PICK i \in I : \A j \in I : i <= j
      BY <3>1, LeastElement
    <3>3. i \in First
      BY <1>1, <3>2
    <3>4. QED
      BY <3>2, <3>3
  <2>4. f \in Injection(First, M)
    <3>1. IsInjective(f)
      BY <2>1 DEF IsInjective
    <3>2. QED
      BY <2>2, <3>1 DEF Injection
  <2>5. f \in Surjection(First, M)
    BY <2>2, <2>3 DEF Surjection
  <2> HIDE DEF f, First, M
  <2>6. IsFiniteSet(M) /\ (Cardinality(M) = Cardinality(First) <=> f \in Injection(First, M))
    BY <1>3, <2>5, FS_Surjection
  <2>7. QED
    BY <2>1, <2>4, <2>6
<1> HIDE DEF First, M
<1>5. ASSUME N - Cardinality(M) <= 1
      PROVE  \E k : DistinctBut(s, k)
  <2> DEFINE Rest == (1 .. N) \ First
  <2>1. IsFiniteSet(Rest) /\ Cardinality(Rest) = N - Cardinality(First)
    <3>1. (1 .. N) \cap First = First
      BY <1>3
    <3>2. /\ IsFiniteSet((1 .. N) \ First)
          /\ Cardinality((1 .. N) \ First) = Cardinality(1 .. N) - Cardinality((1 .. N) \cap First)
      BY <1>2, FS_Difference
    <3>3. QED
      BY <1>2, <3>1, <3>2
  <2>2. Cardinality(Rest) \in Nat
    BY <2>1, FS_CardinalityType
  <2>3. Cardinality(Rest) = 0 \/ Cardinality(Rest) = 1
    BY <1>1, <1>3, <1>4, <1>5, <2>1, <2>2
  <2> HIDE DEF Rest
  <2>4. \E k : Rest \subseteq {k}
    <3>1. CASE Cardinality(Rest) = 0
      BY <2>1, <3>1, FS_EmptySet
    <3>2. CASE Cardinality(Rest) = 1
      BY <2>1, <3>2, FS_Singleton
    <3>3. QED
      BY <2>3, <3>1, <3>2
  <2>5. PICK k : Rest \subseteq {k}
    BY <2>4
  <2>6. DOMAIN s \ {k} \subseteq First
    BY <1>1, <2>5 DEF Rest
  <2>7. DistinctBut(s, k)
    BY <1>4, <2>6 DEF DistinctBut
  <2>8. QED
    BY <2>7
<1>6. ASSUME NEW k, DistinctBut(s, k)
      PROVE  N - Cardinality(M) <= 1
  <2> DEFINE D == DOMAIN s \ {k}
             f == [i \in D |-> s[i]]
  <2>1. IsFiniteSet(D) /\ Cardinality(D) >= N - 1 /\ Cardinality(D) \in Nat
    <3>1. DOMAIN s = 1 .. N
      BY <1>1
    <3> HIDE DEF N
    <3>2. /\ IsFiniteSet((1 .. N) \ {k})
          /\ Cardinality((1 .. N) \ {k}) =
               IF k \in 1 .. N THEN Cardinality(1 .. N) - 1 ELSE Cardinality(1 .. N)
      BY <1>2, FS_RemoveElement
    <3>3. Cardinality((1 .. N) \ {k}) >= N - 1
      BY <1>1, <1>2, <3>2 DEF N
    <3>4. QED
      BY <3>1, <3>2, <3>3, FS_CardinalityType
  <2>2. f \in [D -> M]
    BY DEF M, ToSet
  <2>3. IsInjective(f)
    BY <1>6 DEF IsInjective, DistinctBut
  <2>4. f \in Injection(D, M)
    BY <2>2, <2>3 DEF Injection
  <2> HIDE DEF f, D
  <2>5. Cardinality(D) <= Cardinality(M)
    BY <1>4, <2>4, FS_Injection
  <2>6. Cardinality(M) \in Nat
    BY <1>4, FS_CardinalityType
  <2>7. QED
    BY <1>1, <2>1, <2>5, <2>6
<1>7. QED
  BY <1>5, <1>6 DEF M

\* No repetition is one to spare.
LEMMA DistinctAll ==
  ASSUME NEW s, IsInjective(s)
  PROVE  \E k : DistinctBut(s, k)
BY DEF IsInjective, DistinctBut

\* A sequence without repetitions is no longer than another that has its members, and
\* has all of them if they are equally long.
LEMMA SameLength ==
  ASSUME NEW T, NEW s \in Seq(T), NEW r \in Seq(T), IsInjective(s), IsInjective(r),
         ToSet(s) \subseteq ToSet(r)
  PROVE  Len(s) <= Len(r) /\ (Len(s) = Len(r) => ToSet(s) = ToSet(r))
<1> DEFINE m == Len(s)  n == Len(r)
           f == [i \in 1 .. m |-> CHOOSE j \in 1 .. n : r[j] = s[i]]
<1>1. m \in Nat /\ n \in Nat /\ DOMAIN s = 1 .. m /\ DOMAIN r = 1 .. n
  OBVIOUS
<1>2. ASSUME NEW i \in 1 .. m
      PROVE  f[i] \in 1 .. n /\ r[f[i]] = s[i]
  <2>1. \E j \in 1 .. n : r[j] = s[i]
    BY <1>1 DEF ToSet
  <2>2. QED
    BY <2>1
<1> HIDE DEF f
<1>3. f = [i \in 1 .. m |-> f[i]]
  BY DEF f
<1> HIDE DEF m, n
<1>4. f \in Injection(1 .. m, 1 .. n)
  <2>1. f \in [1 .. m -> 1 .. n]
    BY <1>2, <1>3
  <2>2. ASSUME NEW i \in 1 .. m, NEW j \in 1 .. m, f[i] = f[j]
        PROVE  i = j
    <3>1. s[i] = s[j]
      BY <1>2, <2>2
    <3>2. QED
      BY <1>1, <3>1 DEF IsInjective
  <2>3. QED
    BY <2>1, <2>2 DEF Injection, IsInjective
<1>5. m <= n /\ (m = n => \A j \in 1 .. n : \E i \in 1 .. m : f[i] = j)
  <2>1. m \in Nat /\ n \in Nat
    BY <1>1
  <2>2. QED
    BY ONLY <1>4, <2>1, Pigeonhole, SMTT(60)
<1>6. ASSUME m = n
      PROVE  ToSet(s) = ToSet(r)
  <2>1. ASSUME NEW j \in 1 .. n
        PROVE  \E i \in 1 .. m : s[i] = r[j]
    BY <1>2, <1>5, <1>6
  <2>2. QED
    BY <1>1, <2>1 DEF ToSet
<1>7. QED
  BY <1>5, <1>6 DEF m, n

-----------------------------------------------------------------------------
(* Folds over the indices of a sequence                                    *)

\* A fold over the indices up to N of values in A.
Steps(A, N, base, step) == N \in Nat /\ base \in A /\ step \in [A \X (1 .. N) -> A]

\* The function behind FoldLeft: it takes the greatest index of a set last.
LeftFold(A, N, base, step, f) ==
  \A s \in SUBSET (1 .. N) :
    IF s = {} THEN f[s] = base
              ELSE /\ Max(s) \in 1 .. N /\ f[s \ {Max(s)}] \in A
                   /\ f[s] = step[<<f[s \ {Max(s)}], Max(s)>>]

\* It exists.
LEMMA LeftFolds ==
  ASSUME NEW N, NEW A, NEW base, NEW step, Steps(A, N, base, step)
  PROVE  \E f : f = [s \in SUBSET (1 .. N) |-> f[s]] /\ LeftFold(A, N, base, step, f)
<1> USE DEF Steps
<1> DEFINE c == [s \in SUBSET (1 .. N) |-> Max(s)]
<1>1. ASSUME NEW s \in SUBSET (1 .. N), s # {}
      PROVE  Max(s) \in s /\ c[s] = Max(s)
  <2>1. s \subseteq Int /\ \A x \in s : x <= N
    OBVIOUS
  <2>2. N \in Int
    OBVIOUS
  <2>3. QED
    BY <1>1, <2>1, <2>2, MaxProps
<1> HIDE DEF c
<1>2. FoldsOver(A, 1 .. N, base, step, c)
  BY <1>1, Indices DEF FoldsOver
<1>3. PICK f : Folded(A, 1 .. N, base, step, c, f)
  BY <1>2, FoldsExist
<1>4. ASSUME NEW s \in SUBSET (1 .. N)
      PROVE  IF s = {} THEN f[s] = base
                       ELSE /\ Max(s) \in 1 .. N /\ f[s \ {Max(s)}] \in A
                            /\ f[s] = step[<<f[s \ {Max(s)}], Max(s)>>]
  <2>1. f[s] = FoldStep(base, step, c, f, s) /\ s \ {Max(s)} \in SUBSET (1 .. N)
    BY <1>3 DEF Folded
  <2>2. QED
    BY <1>1, <1>3, <2>1 DEF FoldStep, Folded
<1>5. f = [s \in SUBSET (1 .. N) |-> f[s]]
  BY <1>3 DEF Folded
<1>6. LeftFold(A, N, base, step, f)
  BY <1>4 DEF LeftFold
<1>7. QED
  BY <1>5, <1>6

\* The function behind FoldRight: it takes the least index of a set last.
RightFold(A, N, base, step, f) ==
  \A s \in SUBSET (1 .. N) :
    IF s = {} THEN f[s] = base
              ELSE /\ Min(s) \in 1 .. N /\ f[s \ {Min(s)}] \in A
                   /\ f[s] = step[<<f[s \ {Min(s)}], Min(s)>>]

\* It exists.
LEMMA RightFolds ==
  ASSUME NEW N, NEW A, NEW base, NEW step, Steps(A, N, base, step)
  PROVE  \E f : f = [s \in SUBSET (1 .. N) |-> f[s]] /\ RightFold(A, N, base, step, f)
<1> USE DEF Steps
<1> DEFINE c == [s \in SUBSET (1 .. N) |-> Min(s)]
<1>1. ASSUME NEW s \in SUBSET (1 .. N), s # {}
      PROVE  Min(s) \in s /\ c[s] = Min(s)
  <2>1. s \subseteq Nat
    OBVIOUS
  <2>2. \E x \in s : \A y \in s : x <= y
    BY <1>1, <2>1, LeastElement
  <2>3. QED
    BY <2>2 DEF Min
<1> HIDE DEF c
<1>2. FoldsOver(A, 1 .. N, base, step, c)
  BY <1>1, Indices DEF FoldsOver
<1>3. PICK f : Folded(A, 1 .. N, base, step, c, f)
  BY <1>2, FoldsExist
<1>4. ASSUME NEW s \in SUBSET (1 .. N)
      PROVE  IF s = {} THEN f[s] = base
                       ELSE /\ Min(s) \in 1 .. N /\ f[s \ {Min(s)}] \in A
                            /\ f[s] = step[<<f[s \ {Min(s)}], Min(s)>>]
  <2>1. f[s] = FoldStep(base, step, c, f, s) /\ s \ {Min(s)} \in SUBSET (1 .. N)
    BY <1>3 DEF Folded
  <2>2. QED
    BY <1>1, <1>3, <2>1 DEF FoldStep, Folded
<1>5. f = [s \in SUBSET (1 .. N) |-> f[s]]
  BY <1>3 DEF Folded
<1>6. RightFold(A, N, base, step, f)
  BY <1>4 DEF RightFold
<1>7. QED
  BY <1>5, <1>6

\* The sets of indices that FoldRight goes through: the least is the first.
LEMMA LastIndices ==
  ASSUME NEW N \in Nat, NEW m \in 1 .. N
  PROVE  /\ m .. N \in SUBSET (1 .. N) /\ m .. N # {}
         /\ Min(m .. N) = m /\ (m .. N) \ {m} = m + 1 .. N
<1>1. m .. N \in SUBSET (1 .. N) /\ m \in m .. N /\ (m .. N) \ {m} = m + 1 .. N
  OBVIOUS
<1>2. m .. N \subseteq Int /\ \A y \in m .. N : m <= y
  OBVIOUS
<1>3. Min(m .. N) = m
  BY ONLY <1>1, <1>2, MinIs
<1>4. QED
  BY <1>1, <1>3
\* A function whose values for the first indices come from one another by step.
LeftRun(A, N, base, step, f) ==
  /\ f[1 .. 0] = base
  /\ \A m \in 1 .. N :
       f[1 .. m - 1] \in A /\ f[1 .. m] \in A /\ f[1 .. m] = step[<<f[1 .. m - 1], m>>]

\* A function that is a fold as far as its values are in A is one.
LEMMA LeftRuns ==
  ASSUME NEW N, NEW A, NEW base, NEW step, Steps(A, N, base, step), NEW f,
         \A s \in SUBSET (1 .. N) :
           IF s = {} THEN f[s] = base
                     ELSE Max(s) \in 1 .. N /\ f[s \ {Max(s)}] \in A =>
                            f[s] = step[<<f[s \ {Max(s)}], Max(s)>>]
  PROVE  LeftRun(A, N, base, step, f)
<1>1. N \in Nat /\ base \in A /\ step \in [A \X (1 .. N) -> A]
  BY DEF Steps
<1>2. 1 .. 0 = {} /\ 1 .. 0 \in SUBSET (1 .. N)
  OBVIOUS
<1>3. f[1 .. 0] = base
  BY <1>2
<1>4. ASSUME NEW m \in 1 .. N, f[1 .. m - 1] \in A
      PROVE  f[1 .. m] \in A /\ f[1 .. m] = step[<<f[1 .. m - 1], m>>]
  <2>1. /\ 1 .. m \in SUBSET (1 .. N) /\ 1 .. m # {}
        /\ Max(1 .. m) = m /\ (1 .. m) \ {m} = 1 .. m - 1
    BY <1>1, FirstIndices
  <2>2. f[1 .. m] = step[<<f[1 .. m - 1], m>>]
    BY <1>4, <2>1
  <2>3. QED
    BY <1>1, <1>4, <2>2
<1>5. \A m \in 0 .. N : f[1 .. m] \in A
  <2> DEFINE G == {m \in 0 .. N : f[1 .. m] \in A}
  <2>1. 0 \in G
    BY <1>1, <1>3
  <2>2. ASSUME NEW m \in 1 .. N, m - 1 \in G
        PROVE  m \in G
    <3>1. f[1 .. m - 1] \in A /\ m \in 0 .. N
      BY <2>2
    <3>2. QED
      BY <1>4, <3>1
  <2> HIDE DEF G
  <2>3. \A m \in 0 .. N : m \in G
    BY <1>1, <2>1, <2>2, UpTo
  <2>4. QED
    BY <2>3 DEF G
<1>6. ASSUME NEW m \in 1 .. N
      PROVE  f[1 .. m - 1] \in A
  <2>1. m - 1 \in 0 .. N
    BY <1>1
  <2>2. QED
    BY <1>5, <2>1
<1>7. QED
  BY <1>3, <1>4, <1>6 DEF LeftRun

\* The same from the last index down.
RightRun(A, N, base, step, f) ==
  /\ f[N + 1 .. N] = base
  /\ \A m \in 1 .. N :
       f[m + 1 .. N] \in A /\ f[m .. N] \in A /\ f[m .. N] = step[<<f[m + 1 .. N], m>>]

\* A fold from the right is such a run.
LEMMA RightRuns ==
  ASSUME NEW N, NEW A, NEW base, NEW step, Steps(A, N, base, step), NEW f,
         \A s \in SUBSET (1 .. N) :
           IF s = {} THEN f[s] = base
                     ELSE Min(s) \in 1 .. N /\ f[s \ {Min(s)}] \in A =>
                            f[s] = step[<<f[s \ {Min(s)}], Min(s)>>]
  PROVE  RightRun(A, N, base, step, f)
<1>1. N \in Nat /\ base \in A /\ step \in [A \X (1 .. N) -> A]
  BY DEF Steps
<1>2. N + 1 .. N = {} /\ N + 1 .. N \in SUBSET (1 .. N)
  BY <1>1
<1>3. f[N + 1 .. N] = base
  BY <1>2
<1>4. ASSUME NEW m \in 1 .. N, f[m + 1 .. N] \in A
      PROVE  f[m .. N] \in A /\ f[m .. N] = step[<<f[m + 1 .. N], m>>]
  <2>1. /\ m .. N \in SUBSET (1 .. N) /\ m .. N # {}
        /\ Min(m .. N) = m /\ (m .. N) \ {m} = m + 1 .. N
    BY <1>1, LastIndices
  <2>2. f[m .. N] = step[<<f[m + 1 .. N], m>>]
    BY <1>4, <2>1
  <2>3. QED
    BY <1>1, <1>4, <2>2
<1>5. \A n \in 0 .. N : f[N - n + 1 .. N] \in A
  <2> DEFINE G == {n \in 0 .. N : f[N - n + 1 .. N] \in A}
  <2>1. 0 \in G
    <3>1. N - 0 + 1 = N + 1 /\ 0 \in 0 .. N
      BY <1>1
    <3>2. QED
      BY <1>1, <1>3, <3>1
  <2>2. ASSUME NEW n \in 1 .. N, n - 1 \in G
        PROVE  n \in G
    <3>1. /\ N - n + 1 \in 1 .. N /\ N - (n - 1) + 1 = (N - n + 1) + 1
          /\ n \in 0 .. N
      BY <1>1
    <3>2. f[(N - n + 1) + 1 .. N] \in A
      BY <2>2, <3>1
    <3>3. QED
      BY <1>4, <3>1, <3>2
  <2> HIDE DEF G
  <2>3. \A n \in 0 .. N : n \in G
    BY <1>1, <2>1, <2>2, UpTo
  <2>4. QED
    BY <2>3 DEF G
<1>6. ASSUME NEW m \in 1 .. N
      PROVE  f[m + 1 .. N] \in A
  <2>1. N - m \in 0 .. N /\ N - (N - m) + 1 = m + 1
    BY <1>1
  <2>2. QED
    BY <1>5, <2>1
<1>7. QED
  BY <1>3, <1>4, <1>6 DEF RightRun

\* What holds of the start of a fold and is kept by its steps holds of its result:
\* G[m] is the set of values that may come out of m steps.
LEMMA RunKeeps ==
  ASSUME NEW A, NEW N \in Nat, NEW base, NEW step, NEW f, LeftRun(A, N, base, step, f),
         NEW G, base \in G[0],
         \A m \in 1 .. N : \A a \in A : a \in G[m - 1] => step[<<a, m>>] \in G[m]
  PROVE  f[1 .. N] \in G[N]
<1> DEFINE H == {m \in 0 .. N : f[1 .. m] \in G[m]}
<1>1. 0 \in H
  BY DEF LeftRun
<1>2. ASSUME NEW m \in 1 .. N, m - 1 \in H
      PROVE  m \in H
  <2>1. f[1 .. m - 1] \in A /\ f[1 .. m] = step[<<f[1 .. m - 1], m>>]
    BY DEF LeftRun
  <2>2. f[1 .. m - 1] \in G[m - 1] /\ m \in 0 .. N
    BY <1>2
  <2>3. QED
    BY <2>1, <2>2
<1> HIDE DEF H
<1>3. \A m \in 0 .. N : m \in H
  BY <1>1, <1>2, UpTo
<1>4. N \in H
  BY <1>3
<1>5. QED
  BY <1>4 DEF H

\* What holds of the start of a fold from the right and is kept by its steps holds of its
\* result.
LEMMA RightRunKeeps ==
  ASSUME NEW A, NEW N \in Nat, NEW base, NEW step, NEW f, RightRun(A, N, base, step, f),
         NEW G, base \in G[N + 1],
         \A m \in 1 .. N : \A a \in A : a \in G[m + 1] => step[<<a, m>>] \in G[m]
  PROVE  f[1 .. N] \in G[1]
<1> DEFINE H == {n \in 0 .. N : f[N - n + 1 .. N] \in G[N - n + 1]}
<1>1. 0 \in H
  <2>1. N - 0 + 1 = N + 1 /\ 0 \in 0 .. N
    OBVIOUS
  <2>2. QED
    BY <2>1 DEF RightRun
<1>2. ASSUME NEW n \in 1 .. N, n - 1 \in H
      PROVE  n \in H
  <2> DEFINE m == N - n + 1
  <2>1. m \in 1 .. N /\ N - (n - 1) + 1 = m + 1 /\ n \in 0 .. N
    OBVIOUS
  <2>2. f[m + 1 .. N] \in G[m + 1]
    BY <1>2, <2>1
  <2>3. f[m + 1 .. N] \in A /\ f[m .. N] = step[<<f[m + 1 .. N], m>>]
    BY <2>1 DEF RightRun
  <2> HIDE DEF m
  <2>4. f[m .. N] \in G[m]
    BY <2>1, <2>2, <2>3
  <2>5. QED
    BY <2>1, <2>4 DEF m
<1> HIDE DEF H
<1>3. \A n \in 0 .. N : n \in H
  BY <1>1, <1>2, UpTo
<1>4. N \in H
  BY <1>3
<1>5. N - N + 1 = 1
  OBVIOUS
<1>6. QED
  BY <1>4, <1>5 DEF H

\* The value of a run is one of its values.
LEMMA RunEnds ==
  ASSUME NEW A, NEW N \in Nat, NEW base \in A, NEW step, NEW f, LeftRun(A, N, base, step, f)
  PROVE  f[1 .. N] \in A
<1>1. CASE N = 0
  BY <1>1 DEF LeftRun
<1>2. CASE N # 0
  <2>1. N \in 1 .. N
    BY <1>2
  <2>2. QED
    BY <2>1 DEF LeftRun
<1>3. QED
  BY <1>1, <1>2

-----------------------------------------------------------------------------
(* Rows that grow                                                          *)

\* The first numbers of a row, and one more.
LEMMA OneMore ==
  ASSUME NEW T, NEW s \in Seq(T), NEW m \in 1 .. Len(s)
  PROVE  /\ SubSeq(s, 1, m - 1) \in Seq(T) /\ Len(SubSeq(s, 1, m - 1)) = m - 1
         /\ Append(SubSeq(s, 1, m - 1), s[m]) = SubSeq(s, 1, m)
         /\ \A x : x \in ToSet(SubSeq(s, 1, m - 1)) <=> \E i \in 1 .. m - 1 : s[i] = x
<1> DEFINE r == SubSeq(s, 1, m - 1)
<1>1. r = [i \in 1 .. m - 1 |-> s[i]] /\ r \in Seq(T) /\ Len(r) = m - 1
  OBVIOUS
<1>2. SubSeq(s, 1, m) = [i \in 1 .. m |-> s[i]] /\ SubSeq(s, 1, m) \in Seq(T)
  OBVIOUS
<1> HIDE DEF r
<1>3. Append(r, s[m]) = [i \in 1 .. m |-> IF i = m THEN s[m] ELSE r[i]]
  BY <1>1
<1>4. Append(r, s[m]) = SubSeq(s, 1, m)
  BY <1>1, <1>2, <1>3
<1>5. \A x : x \in ToSet(r) <=> \E i \in 1 .. m - 1 : s[i] = x
  <2>1. r \in Seq(T)
    BY <1>1
  <2>2. \A x : x \in ToSet(r) <=> \E i \in 1 .. Len(r) : r[i] = x
    BY ONLY <2>1, ToSetProps
  <2>3. QED
    BY <1>1, <2>2
<1>6. QED
  BY <1>1, <1>4, <1>5 DEF r

\* Nothing is dropped from a row that has nothing to drop.
LEMMA NoneDropped ==
  ASSUME NEW T, NEW s \in Seq(T), NEW S, \A i \in 1 .. Len(s) : s[i] \notin S
  PROVE  Dropping(s, S) = s
<1> DEFINE N == Len(s)
           Upto(m) == SubSeq(s, 1, m)
           G == {m \in 0 .. N : Dropping(Upto(m), S) = Upto(m)}
<1>1. N \in Nat /\ Upto(0) = <<>> /\ Upto(N) = s
  OBVIOUS
<1>2. 0 \in G
  <2>1. Dropping(<<>>, S) = <<>>
    BY DroppingEmpty
  <2>2. 0 \in 0 .. N
    BY <1>1
  <2> HIDE DEF Upto, N
  <2>3. Dropping(Upto(0), S) = Upto(0)
    BY <1>1, <2>1, Zenon
  <2>4. QED
    BY <2>2, <2>3
<1>3. ASSUME NEW m \in 1 .. N, m - 1 \in G
      PROVE  m \in G
  <2> DEFINE old == Upto(m - 1)
             e == s[m]
  <2>1. old \in Seq(T) /\ e \in T /\ Append(old, e) = Upto(m)
    BY OneMore
  <2>2. Dropping(old, S) = old /\ e \notin S /\ m \in 0 .. N
    BY <1>1, <1>3
  <2> HIDE DEF old, e
  <2>3. Dropping(Append(old, e), S) = IF e \in S THEN Dropping(old, S) ELSE Append(Dropping(old, S), e)
    <3>1. old \in Seq(T) /\ e \in T
      BY <2>1
    <3>2. QED
      BY ONLY <3>1, DroppingAppend
  <2> HIDE DEF Upto
  <2>4. QED
    BY <2>1, <2>2, <2>3
<1>4. N \in G
  <2> HIDE DEF G, N
  <2>1. \A m \in 0 .. N : m \in G
    BY <1>1, <1>2, <1>3, UpTo
  <2>2. QED
    BY <1>1, <2>1
<1>5. QED
  BY <1>1, <1>4

\* A sequence of numbers is bounded.
LEMMA Bounded ==
  ASSUME NEW s \in Seq(Nat)
  PROVE  \E b \in Nat : \A i \in 1 .. Len(s) : s[i] <= b
<1> DEFINE N == Len(s)
           G == {m \in 0 .. N : \E b \in Nat : \A i \in 1 .. m : s[i] <= b}
<1>1. N \in Nat /\ \A i \in 1 .. N : s[i] \in Nat
  OBVIOUS
<1> HIDE DEF N
<1>2. 0 \in G
  <2>1. \A i \in 1 .. 0 : s[i] <= 0
    OBVIOUS
  <2>2. QED
    BY <1>1, <2>1
<1>3. ASSUME NEW m \in 1 .. N, m - 1 \in G
      PROVE  m \in G
  <2>1. PICK b \in Nat : \A i \in 1 .. m - 1 : s[i] <= b
    BY <1>3
  <2>2. s[m] \in Nat
    BY <1>1
  <2>3. \A i \in 1 .. m : s[i] <= b + s[m]
    <3>1. ASSUME NEW i \in 1 .. m
          PROVE  s[i] <= b + s[m]
      <4>1. i = m \/ i \in 1 .. m - 1
        OBVIOUS
      <4>2. s[i] \in Nat
        BY <1>1
      <4>3. CASE i = m
        BY <2>2, <4>3
      <4>4. CASE i \in 1 .. m - 1
        <5>1. s[i] <= b
          BY <2>1, <4>4
        <5>2. QED
          BY <2>2, <4>2, <5>1
      <4>5. QED
        BY <4>1, <4>3, <4>4
    <3>2. QED
      BY <3>1
  <2>4. b + s[m] \in Nat /\ m \in 0 .. N
    BY <1>1, <2>2
  <2>5. QED
    BY <2>3, <2>4
<1> HIDE DEF G
<1>4. \A m \in 0 .. N : m \in G
  BY <1>1, <1>2, <1>3, UpTo
<1>5. QED
  <2>1. N \in G
    BY <1>1, <1>4
  <2>2. QED
    BY <2>1 DEF G, N

-----------------------------------------------------------------------------
(* Loops that may not end                                                  *)

\* A run from x by next, through points that are not in stop, up to a point that is.
LeadsOn(S, stop, next, n, p) ==
  /\ p \in [0 .. n -> S] /\ p[n] \in stop
  /\ \A i \in 0 .. n - 1 : p[i] \notin stop /\ p[i + 1] = next[p[i]]

Stops(S, stop, next, x) ==
  {y \in stop : \E n \in Nat : \E p : LeadsOn(S, stop, next, n, p) /\ p[0] = x /\ p[n] = y}

\* A function that goes on from x to next[x] until it comes to stop.
Loops(S, stop, next, out, f) ==
  f = [x \in S |-> IF x \in stop THEN out[x] ELSE f[next[x]]]

\* Such a function exists, whether or not the loop ends.
LEMMA LoopsExist ==
  ASSUME NEW S, NEW stop \in SUBSET S, NEW next, NEW out,
         \A x \in S \ stop : next[x] \in S
  PROVE  \E f : Loops(S, stop, next, out, f)
<1> DEFINE E(x) == Stops(S, stop, next, x)
<1>1. ASSUME NEW x \in stop
      PROVE  E(x) = {x}
  <2>1. x \in E(x)
    <3> DEFINE p == [i \in 0 .. 0 |-> x]
    <3>1. LeadsOn(S, stop, next, 0, p) /\ p[0] = x
      BY DEF LeadsOn
    <3> HIDE DEF p
    <3>2. QED
      BY <3>1 DEF Stops
  <2>2. ASSUME NEW y \in E(x)
        PROVE  y = x
    <3>1. PICK n \in Nat : \E p : LeadsOn(S, stop, next, n, p) /\ p[0] = x /\ p[n] = y
      BY <2>2 DEF Stops
    <3>2. PICK p : LeadsOn(S, stop, next, n, p) /\ p[0] = x /\ p[n] = y
      BY <3>1
    <3>3. n = 0
      <4>1. n # 0 => 0 \in 0 .. n - 1
        OBVIOUS
      <4>2. QED
        BY <3>2, <4>1 DEF LeadsOn
    <3>4. QED
      BY <3>2, <3>3
  <2>3. QED
    BY <2>1, <2>2
<1>2. ASSUME NEW x \in S \ stop
      PROVE  E(x) = E(next[x])
  <2>1. ASSUME NEW y \in E(x)
        PROVE  y \in E(next[x])
    <3>1. PICK n \in Nat : \E p : LeadsOn(S, stop, next, n, p) /\ p[0] = x /\ p[n] = y
      BY <2>1 DEF Stops
    <3>2. PICK p : LeadsOn(S, stop, next, n, p) /\ p[0] = x /\ p[n] = y
      BY <3>1
    <3> DEFINE q == [i \in 0 .. n - 1 |-> p[i + 1]]
    <3>3. n # 0 /\ n - 1 \in Nat /\ 0 \in 0 .. n - 1 /\ 0 \in 0 .. n
      BY <3>2 DEF LeadsOn
    <3>4. /\ q[0] = next[x] /\ q[n - 1] = y /\ y \in stop
          /\ q \in [0 .. n - 1 -> S]
      BY <3>2, <3>3 DEF LeadsOn
    <3>5. \A i \in 0 .. n - 1 - 1 : q[i] \notin stop /\ q[i + 1] = next[q[i]]
      BY <3>2, <3>3 DEF LeadsOn
    <3> HIDE DEF q
    <3>6. LeadsOn(S, stop, next, n - 1, q)
      BY <3>4, <3>5 DEF LeadsOn
    <3>7. QED
      BY <3>3, <3>4, <3>6 DEF Stops
  <2>2. ASSUME NEW y \in E(next[x])
        PROVE  y \in E(x)
    <3>1. PICK n \in Nat : \E p : LeadsOn(S, stop, next, n, p) /\ p[0] = next[x] /\ p[n] = y
      BY <2>2 DEF Stops
    <3>2. PICK p : LeadsOn(S, stop, next, n, p) /\ p[0] = next[x] /\ p[n] = y
      BY <3>1
    <3> DEFINE q == [i \in 0 .. n + 1 |-> IF i = 0 THEN x ELSE p[i - 1]]
    <3>3. /\ q[0] = x /\ q[n + 1] = y /\ y \in stop
          /\ q \in [0 .. n + 1 -> S]
      BY <3>2 DEF LeadsOn
    <3>4. ASSUME NEW i \in 0 .. n + 1 - 1
          PROVE  q[i] \notin stop /\ q[i + 1] = next[q[i]]
      <4>1. CASE i = 0
        BY <3>2, <4>1
      <4>2. CASE i # 0
        <5>1. i - 1 \in 0 .. n - 1 /\ i \in 0 .. n
          BY <4>2
        <5>2. q[i] = p[i - 1] /\ q[i + 1] = p[i] /\ p[i - 1 + 1] = p[i]
          BY <4>2, <5>1
        <5> HIDE DEF q
        <5>3. QED
          BY <3>2, <5>1, <5>2 DEF LeadsOn
      <4>3. QED
        BY <4>1, <4>2
    <3> HIDE DEF q
    <3>5. LeadsOn(S, stop, next, n + 1, q)
      BY <3>3, <3>4 DEF LeadsOn
    <3>6. QED
      BY <3>3, <3>5 DEF Stops
  <2>3. QED
    BY <2>1, <2>2
<1> HIDE DEF E
<1> DEFINE G(x) == out[CHOOSE y \in E(x) : TRUE]
           f == [x \in S |-> G(x)]
<1>3. \A x \in stop : G(x) = out[x]
  BY <1>1
<1>4. \A x \in S \ stop : G(x) = G(next[x])
  BY <1>2
<1> HIDE DEF G
<1>5. \A x \in S : f[x] = IF x \in stop THEN out[x] ELSE f[next[x]]
  BY <1>3, <1>4
<1>6. f = [x \in S |-> f[x]]
  OBVIOUS
<1> HIDE DEF f
<1>7. f = [x \in S |-> IF x \in stop THEN out[x] ELSE f[next[x]]]
  BY <1>5, <1>6, Zenon
<1>8. QED
  BY <1>7 DEF Loops

-----------------------------------------------------------------------------
(* Sequences put together                                                  *)

\* FlattenSeq of the first m parts.
Flattens(seqs, m, f) ==
  f = [i \in 1 .. m |-> IF i = 1 THEN seqs[i] ELSE f[i - 1] \o seqs[i]]

LEMMA FlattensExist ==
  ASSUME NEW N \in Nat, NEW seqs
  PROVE  \E f : Flattens(seqs, N, f)
<1> DEFINE G == {m \in Nat : \E f : Flattens(seqs, m, f)}
<1>1. 0 \in G
  <2> DEFINE f == [i \in 1 .. 0 |-> seqs[i]]
  <2>1. Flattens(seqs, 0, f)
    BY DEF Flattens
  <2> HIDE DEF f
  <2>2. QED
    BY <2>1
<1>2. ASSUME NEW m \in 1 .. N, m - 1 \in G
      PROVE  m \in G
  <2>1. PICK g : Flattens(seqs, m - 1, g)
    BY <1>2
  <2> DEFINE f == [i \in 1 .. m |-> IF i = 1 THEN seqs[i] ELSE g[i - 1] \o seqs[i]]
  <2>2. \A i \in 1 .. m - 1 : f[i] = g[i]
    <3>1. \A i \in 1 .. m - 1 : g[i] = IF i = 1 THEN seqs[i] ELSE g[i - 1] \o seqs[i]
      BY <2>1, Zenon DEF Flattens
    <3>2. \A i \in 1 .. m - 1 : i \in 1 .. m
      OBVIOUS
    <3>3. QED
      BY <3>1, <3>2, Zenon
  <2> HIDE DEF f
  <2>3. \A i \in 1 .. m : i = 1 \/ g[i - 1] = f[i - 1]
    <3>1. \A i \in 1 .. m : i = 1 \/ i - 1 \in 1 .. m - 1
      OBVIOUS
    <3>2. QED
      BY <2>2, <3>1, Zenon
  <2>4. f = [i \in 1 .. m |-> IF i = 1 THEN seqs[i] ELSE g[i - 1] \o seqs[i]]
    BY DEF f
  <2>5. f = [i \in 1 .. m |-> IF i = 1 THEN seqs[i] ELSE f[i - 1] \o seqs[i]]
    BY <2>3, <2>4, Zenon
  <2>6. Flattens(seqs, m, f)
    BY <2>5, Zenon DEF Flattens
  <2>7. QED
    BY <2>6
<1> HIDE DEF G
<1>3. \A m \in 0 .. N : m \in G
  BY <1>1, <1>2, UpTo
<1>4. QED
  BY <1>3 DEF G

\* What FlattenSeq makes of seqs: part i is behind the first cut[i - 1] elements.
PutTogether(seqs, cut, flat) ==
  /\ cut \in [0 .. Len(seqs) -> Nat] /\ cut[0] = 0 /\ Len(flat) = cut[Len(seqs)]
  /\ \A i \in 1 .. Len(seqs) :
       /\ cut[i] = cut[i - 1] + Len(seqs[i]) /\ cut[i] <= Len(flat)
       /\ \A k \in 1 .. Len(seqs[i]) : flat[cut[i - 1] + k] = seqs[i][k]

LEMMA FlattenProps ==
  ASSUME NEW A, NEW seqs \in Seq(Seq(A))
  PROVE  FlattenSeq(seqs) \in Seq(A) /\ \E cut : PutTogether(seqs, cut, FlattenSeq(seqs))
<1> DEFINE N == Len(seqs)
<1>1. N \in Nat /\ \A i \in 1 .. N : seqs[i] \in Seq(A) /\ Len(seqs[i]) \in Nat
  OBVIOUS
<1>2. CASE N = 0
  <2> DEFINE cut == [i \in 0 .. 0 |-> 0]
  <2>1. FlattenSeq(seqs) = <<>> /\ seqs = <<>>
    BY <1>2 DEF FlattenSeq
  <2>2. PutTogether(<<>>, cut, <<>>)
    BY DEF PutTogether
  <2> HIDE DEF cut
  <2>3. QED
    BY <2>1, <2>2
<1>3. CASE N # 0
  <2> DEFINE f == CHOOSE g : Flattens(seqs, N, g)
  <2>1. Flattens(seqs, N, f)
    BY <1>1, FlattensExist
  <2>2. FlattenSeq(seqs) = f[N]
    BY <1>3 DEF FlattenSeq, Flattens
  <2> HIDE DEF f, N
  <2>3. f[1] = seqs[1] /\ \A i \in 2 .. N : f[i] = f[i - 1] \o seqs[i]
    <3>1. \A i \in 1 .. N : f[i] = IF i = 1 THEN seqs[i] ELSE f[i - 1] \o seqs[i]
      BY <2>1, Zenon DEF Flattens
    <3>2. N \in Nat /\ N # 0
      BY <1>1, <1>3 DEF N
    <3>3. 1 \in 1 .. N /\ \A i \in 2 .. N : i \in 1 .. N /\ i # 1
      BY <3>2
    <3>4. QED
      BY <3>1, <3>3, Zenon
  <2> DEFINE cut == [i \in 0 .. N |-> IF i = 0 THEN 0 ELSE Len(f[i])]
             Row(m) == /\ f[m] \in Seq(A) /\ Len(f[m]) = cut[m]
                       /\ \A i \in 1 .. m :
                            /\ cut[i - 1] \in Nat /\ cut[i] \in Nat
                            /\ cut[i] = cut[i - 1] + Len(seqs[i]) /\ cut[i] <= Len(f[m])
                            /\ \A k \in 1 .. Len(seqs[i]) : f[m][cut[i - 1] + k] = seqs[i][k]
             G == {m \in Nat : m = 0 \/ Row(m)}
  <2>4. ASSUME NEW m \in 1 .. N, m - 1 \in G
        PROVE  m \in G
    <3>1. CASE m = 1
      <4>1. f[1] \in Seq(A) /\ cut[0] = 0 /\ cut[1] = Len(f[1]) /\ Len(f[1]) \in Nat /\ 1 \in 1 .. N
        BY <1>1, <1>3, <2>3
      <4> HIDE DEF cut
      <4>2. \A i \in 1 .. 1 : i = 1
        OBVIOUS
      <4>3. Row(1)
        BY <2>3, <4>1, <4>2
      <4>4. QED
        BY <3>1, <4>3
    <3>2. CASE m # 1
      <4> DEFINE before == f[m - 1]
                 part == seqs[m]
      <4>1. m - 1 \in 1 .. N /\ m \in 2 .. N /\ m - 1 # 0
        <5>1. N \in Nat
          BY <1>1 DEF N
        <5>2. QED
          BY <3>2, <5>1
      <4>2. Row(m - 1)
        BY <2>4, <4>1
      <4>3. before \in Seq(A) /\ part \in Seq(A) /\ f[m] = before \o part
        BY <1>1, <2>3, <4>1, <4>2
      <4>4. cut[m - 1] = Len(before) /\ cut[m] = Len(f[m])
        BY <4>1
      <4> HIDE DEF cut
      <4>5. /\ before \in Seq(A) /\ Len(before) = cut[m - 1]
            /\ \A i \in 1 .. m - 1 :
                 /\ cut[i - 1] \in Nat /\ cut[i] \in Nat
                 /\ cut[i] = cut[i - 1] + Len(seqs[i]) /\ cut[i] <= Len(before)
                 /\ \A k \in 1 .. Len(seqs[i]) : before[cut[i - 1] + k] = seqs[i][k]
        BY <4>2
      <4> HIDE DEF before, part
      <4>6. /\ f[m] \in Seq(A) /\ Len(f[m]) = Len(before) + Len(part)
            /\ \A j \in 1 .. Len(before) : f[m][j] = before[j]
            /\ \A j \in 1 .. Len(part) : f[m][Len(before) + j] = part[j]
            /\ Len(before) \in Nat /\ Len(part) \in Nat
        BY <4>3
      <4>7. ASSUME NEW i \in 1 .. m - 1
            PROVE  /\ cut[i - 1] \in Nat /\ cut[i] \in Nat
                   /\ cut[i] = cut[i - 1] + Len(seqs[i]) /\ cut[i] <= Len(f[m])
                   /\ \A k \in 1 .. Len(seqs[i]) : f[m][cut[i - 1] + k] = seqs[i][k]
        <5>1. i \in 1 .. N /\ Len(seqs[i]) \in Nat
          BY <1>1 DEF N
        <5>2. \A k \in 1 .. Len(seqs[i]) : cut[i - 1] + k \in 1 .. Len(before)
          <6>1. cut[i - 1] \in Nat /\ cut[i - 1] + Len(seqs[i]) <= Len(before)
            BY <4>5
          <6>2. \A a, b, c \in Nat : a + b <= c => \A k \in 1 .. b : a + k \in 1 .. c
            OBVIOUS
          <6>3. QED
            BY ONLY <4>6, <5>1, <6>1, <6>2
        <5>3. cut[i] <= Len(f[m])
          BY <4>5, <4>6
        <5>4. \A k \in 1 .. Len(seqs[i]) : f[m][cut[i - 1] + k] = before[cut[i - 1] + k]
          BY <4>6, <5>2
        <5>5. QED
          BY <4>5, <5>3, <5>4
      <4>8. /\ cut[m - 1] \in Nat /\ cut[m] \in Nat
            /\ cut[m] = cut[m - 1] + Len(seqs[m]) /\ cut[m] <= Len(f[m])
            /\ \A k \in 1 .. Len(seqs[m]) : f[m][cut[m - 1] + k] = seqs[m][k]
        BY <4>4, <4>6 DEF part
      <4>9. \A i \in 1 .. m : i \in 1 .. m - 1 \/ i = m
        OBVIOUS
      <4>10. Row(m)
        BY <4>4, <4>6, <4>7, <4>8, <4>9
      <4>11. QED
        BY <4>10
    <3>3. QED
      BY <3>1, <3>2
  <2>5. 0 \in G
    OBVIOUS
  <2> HIDE DEF G
  <2>6. \A m \in 0 .. N : m \in G
    BY <1>1, <2>4, <2>5, UpTo
  <2>7. Row(N)
    <3>1. N \in 0 .. N /\ N # 0
      BY <1>1, <1>3 DEF N
    <3>2. N \in G
      BY <2>6, <3>1
    <3> HIDE DEF Row
    <3>3. QED
      BY <3>1, <3>2 DEF G
  <2>8. cut \in [0 .. N -> Nat] /\ cut[0] = 0
    <3>1. \A i \in 1 .. N : cut[i] \in Nat
      BY <2>7
    <3>2. N \in Nat
      BY <1>1 DEF N
    <3>3. cut = [i \in 0 .. N |-> cut[i]] /\ cut[0] = 0
      BY <3>2
    <3> HIDE DEF cut
    <3>4. \A i \in 0 .. N : i = 0 \/ i \in 1 .. N
      BY <3>2
    <3>5. \A i \in 0 .. N : cut[i] \in Nat
      <4>1. cut[0] \in Nat
        BY <3>3
      <4>2. QED
        BY ONLY <3>1, <3>4, <4>1
    <3>6. QED
      BY ONLY <3>3, <3>5
  <2> HIDE DEF cut
  <2>9. PutTogether(seqs, cut, f[N])
    BY <2>7, <2>8 DEF PutTogether, N
  <2>10. QED
    BY <2>2, <2>7, <2>9
<1>4. QED
  BY <1>2, <1>3
\* A sequence is put together of its elements, one by one.
LEMMA FlattenSingles ==
  ASSUME NEW A, NEW s \in Seq(A)
  PROVE  FlattenSeq([i \in DOMAIN s |-> <<s[i]>>]) = s
<1> DEFINE seqs == [i \in DOMAIN s |-> <<s[i]>>]
           flat == FlattenSeq(seqs)
           N == Len(s)
<1>1. N \in Nat /\ DOMAIN s = 1 .. N /\ s = [i \in 1 .. N |-> s[i]]
  OBVIOUS
<1>2. \A i \in 1 .. N : s[i] \in A /\ <<s[i]>> \in Seq(A) /\ Len(<<s[i]>>) = 1 /\ <<s[i]>>[1] = s[i]
  OBVIOUS
<1> HIDE DEF N
<1>3. seqs \in Seq(Seq(A)) /\ Len(seqs) = N
  <2> DEFINE S == Seq(A)
  <2>1. seqs = [i \in 1 .. N |-> seqs[i]] /\ \A i \in 1 .. N : seqs[i] \in S
    BY <1>1, <1>2
  <2> HIDE DEF seqs, S
  <2>2. seqs \in Seq(S) /\ Len(seqs) = N
    BY <1>1, <2>1
  <2>3. QED
    BY <2>2 DEF S
<1>4. \A i \in 1 .. N : Len(seqs[i]) = 1 /\ seqs[i][1] = s[i]
  BY <1>1, <1>2
<1> HIDE DEF seqs
<1>5. flat \in Seq(A) /\ \E cut : PutTogether(seqs, cut, flat)
  BY <1>3, FlattenProps
<1>6. PICK cut : PutTogether(seqs, cut, flat)
  BY <1>5
<1> HIDE DEF flat
<1>7. /\ cut[0] = 0 /\ Len(flat) = cut[N]
      /\ \A i \in 1 .. N : cut[i] = cut[i - 1] + 1 /\ flat[cut[i - 1] + 1] = s[i]
  <2>1. /\ cut[0] = 0 /\ Len(flat) = cut[N]
        /\ \A i \in 1 .. N : /\ cut[i] = cut[i - 1] + Len(seqs[i])
                             /\ \A k \in 1 .. Len(seqs[i]) : flat[cut[i - 1] + k] = seqs[i][k]
    BY <1>3, <1>6 DEF PutTogether
  <2>2. ASSUME NEW i \in 1 .. N
        PROVE  cut[i] = cut[i - 1] + 1 /\ flat[cut[i - 1] + 1] = s[i]
    <3>1. Len(seqs[i]) = 1 /\ seqs[i][1] = s[i] /\ 1 \in 1 .. 1
      BY <1>4
    <3>2. QED
      BY <2>1, <3>1
  <2>3. QED
    BY <2>1, <2>2
<1> DEFINE G == {i \in Nat : cut[i] = i}
<1>8. \A i \in 0 .. N : i \in G
  <2>1. 0 \in G
    BY <1>7
  <2>2. ASSUME NEW i \in 1 .. N, i - 1 \in G
        PROVE  i \in G
    BY <1>7, <2>2
  <2> HIDE DEF G
  <2>3. QED
    BY <1>1, <2>1, <2>2, UpTo
<1>9. Len(flat) = N /\ \A i \in 1 .. N : flat[i] = s[i]
  <2>1. N \in 0 .. N /\ \A i \in 1 .. N : i - 1 \in 0 .. N /\ (i - 1) + 1 = i
    BY <1>1
  <2>2. QED
    BY <1>7, <1>8, <2>1
<1>10. s \in Seq(A) /\ Len(s) = N
  BY <1>1 DEF N
<1>11. flat = s
  BY ONLY <1>5, <1>9, <1>10
<1>12. QED
  BY <1>11 DEF flat, seqs

=============================================================================
