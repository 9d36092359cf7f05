--------------------------- MODULE EventLoopProofs ---------------------------
(***************************************************************************)
(* Proofs about EventLoop, for any handlers, descriptors, table sizes and  *)
(* delays and any number of ticks in a second.                             *)
(***************************************************************************)
EXTENDS EventLoop, SequenceFacts, FiniteSetTheorems, TLAPS

-----------------------------------------------------------------------------
(* Arithmetic                                                              *)

LEMMA SecondIsPositive == TicksPerSec \in Nat /\ TicksPerSec >= 1
BY LoopAssumption

\* A number of ticks is its full seconds and what is left of them.
LEMMA DivMod ==
  ASSUME NEW a \in Nat
  PROVE  \E q \in Nat, r \in 0 .. TicksPerSec - 1 :
           a \div TicksPerSec = q /\ a % TicksPerSec = r /\ a = q * TicksPerSec + r
<1> DEFINE q == a \div TicksPerSec
           r == a % TicksPerSec
<1>1. a \in Int /\ TicksPerSec \in Int /\ TicksPerSec > 0
  BY SecondIsPositive
<1>2. r = a - TicksPerSec * q
  BY <1>1
<1>3. q \in Nat /\ r \in 0 .. TicksPerSec - 1
  BY SecondIsPositive
<1>4. a \div TicksPerSec = q /\ a % TicksPerSec = r
  OBVIOUS
<1> HIDE DEF q, r
<1>5. a = q * TicksPerSec + r
  BY <1>1, <1>2, <1>3
<1>6. QED
  BY <1>3, <1>4, <1>5

\* Less of one means at least a second less.
LEMMA SecondsApart ==
  ASSUME NEW m \in Int, NEW n \in Int, m < n
  PROVE  /\ m * TicksPerSec \in Int /\ n * TicksPerSec \in Int
         /\ m * TicksPerSec + TicksPerSec <= n * TicksPerSec
<1>1. PICK k \in Nat : n = m + 1 + k
  <2>1. n - m - 1 \in Nat
    OBVIOUS
  <2>2. QED
    BY <2>1
<1>2. n * TicksPerSec = m * TicksPerSec + TicksPerSec + k * TicksPerSec
  BY <1>1, SecondIsPositive
<1>3. k * TicksPerSec \in Nat /\ m * TicksPerSec \in Int
  BY SecondIsPositive
<1>4. QED
  BY <1>2, <1>3, SecondIsPositive

\* Two ways to write a number as seconds and ticks are the same.
LEMMA SecondsUnique ==
  ASSUME NEW m \in Int, NEW n \in Int,
         NEW r \in 0 .. TicksPerSec - 1, NEW s \in 0 .. TicksPerSec - 1,
         m * TicksPerSec + r = n * TicksPerSec + s
  PROVE  m = n /\ r = s
<1>1. ~ (m < n) /\ ~ (n < m)
  BY SecondsApart, SecondIsPositive
<1>2. m = n
  BY <1>1
<1>3. m * TicksPerSec \in Int
  BY SecondIsPositive
<1>4. QED
  BY <1>2, <1>3, SecondIsPositive

\* The fraction of a sum.
LEMMA ModAdd ==
  ASSUME NEW a \in Nat, NEW b \in 0 .. TicksPerSec - 1
  PROVE  (a + b) % TicksPerSec =
           IF (a % TicksPerSec) + b < TicksPerSec THEN (a % TicksPerSec) + b
           ELSE (a % TicksPerSec) + b - TicksPerSec
<1>1. PICK q \in Nat, r \in 0 .. TicksPerSec - 1 :
        a % TicksPerSec = r /\ a = q * TicksPerSec + r
  BY DivMod
<1>2. PICK p \in Nat, s \in 0 .. TicksPerSec - 1 :
        (a + b) % TicksPerSec = s /\ a + b = p * TicksPerSec + s
  <2>1. a + b \in Nat
    BY SecondIsPositive
  <2>2. QED
    BY <2>1, DivMod
<1>3. (q + 1) * TicksPerSec = q * TicksPerSec + TicksPerSec /\ q * TicksPerSec \in Nat
      /\ p * TicksPerSec \in Nat
  BY <1>1, <1>2, SecondIsPositive
<1>4. CASE r + b < TicksPerSec
  <2>1. r + b \in 0 .. TicksPerSec - 1 /\ p * TicksPerSec + s = q * TicksPerSec + (r + b)
    BY <1>1, <1>2, <1>3, <1>4, SecondIsPositive
  <2>2. s = r + b
    BY <1>1, <1>2, <2>1, SecondsUnique
  <2>3. QED
    BY <1>1, <1>2, <1>4, <2>2
<1>5. CASE ~ (r + b < TicksPerSec)
  <2>1. /\ r + b - TicksPerSec \in 0 .. TicksPerSec - 1
        /\ p * TicksPerSec + s = (q + 1) * TicksPerSec + (r + b - TicksPerSec)
    BY <1>1, <1>2, <1>3, <1>5, SecondIsPositive
  <2>2. q + 1 \in Int
    BY <1>1
  <2>3. s = r + b - TicksPerSec
    BY <1>1, <1>2, <2>1, <2>2, SecondsUnique
  <2>4. QED
    BY <1>1, <1>2, <1>5, <2>3
<1>6. QED
  BY <1>4, <1>5

-----------------------------------------------------------------------------
(* The functions on times                                                  *)

LEMMA TicksType ==
  ASSUME NEW t \in Nat \X Nat
  PROVE  Ticks(t) \in Nat
<1>1. t[1] \in Nat /\ t[2] \in Nat
  OBVIOUS
<1>2. t[1] * TicksPerSec \in Nat
  BY <1>1, SecondIsPositive
<1>3. QED
  BY <1>1, <1>2 DEF Ticks

\* The time is the uptime, moved by one of two amounts.
LEMMA GettimeFacts ==
  ASSUME uptime \in Nat, skew \in 0 .. TicksPerSec - 1
  PROVE  /\ gettime \in Nat \X (0 .. TicksPerSec - 1)
         /\ \/ Ticks(gettime) = uptime + skew
            \/ Ticks(gettime) = uptime + skew - TicksPerSec /\ skew # 0
<1> DEFINE s == (uptime + skew) % TicksPerSec
<1>1. PICK q \in Nat, r \in 0 .. TicksPerSec - 1 :
        /\ uptime \div TicksPerSec = q /\ uptime % TicksPerSec = r
        /\ uptime = q * TicksPerSec + r
  BY DivMod
<1>2. s = IF r + skew < TicksPerSec THEN r + skew ELSE r + skew - TicksPerSec
  BY <1>1, ModAdd
<1>3. gettime[1] = q /\ gettime[2] = s /\ gettime = <<q, s>>
  BY <1>1 DEF gettime
<1> HIDE DEF s
<1>4. s \in 0 .. TicksPerSec - 1
  BY <1>1, <1>2, SecondIsPositive
<1>5. q * TicksPerSec \in Nat
  BY <1>1, SecondIsPositive
<1>6. Ticks(gettime) = q * TicksPerSec + s
  BY <1>3 DEF Ticks
<1>7. QED
  BY <1>1, <1>2, <1>3, <1>4, <1>5, <1>6, SecondIsPositive

\* Adding is exact.
LEMMA AddFacts ==
  ASSUME NEW t \in Nat \X (0 .. TicksPerSec - 1), NEW d \in Nat
  PROVE  /\ addMs(t, d) \in Nat \X (0 .. TicksPerSec - 1)
         /\ Ticks(addMs(t, d)) = Ticks(t) + d
<1>1. PICK q \in Nat, r \in 0 .. TicksPerSec - 1 :
        /\ d \div TicksPerSec = q /\ d % TicksPerSec = r
        /\ d = q * TicksPerSec + r
  BY DivMod
<1> DEFINE s == t[1] + q
           u == t[2] + r
<1>2. t[1] \in Nat /\ t[2] \in 0 .. TicksPerSec - 1
  OBVIOUS
<1>3. addMs(t, d) = IF u >= TicksPerSec THEN <<s + 1, u - TicksPerSec>> ELSE <<s, u>>
  BY <1>1 DEF addMs
<1>4. /\ s * TicksPerSec = t[1] * TicksPerSec + q * TicksPerSec
      /\ (s + 1) * TicksPerSec = t[1] * TicksPerSec + q * TicksPerSec + TicksPerSec
      /\ t[1] * TicksPerSec \in Nat /\ q * TicksPerSec \in Nat
  BY <1>1, <1>2, SecondIsPositive
<1>5. s \in Nat /\ s + 1 \in Nat /\ u \in Nat
  BY <1>1, <1>2, SecondIsPositive
<1>6. CASE u >= TicksPerSec
  <2>1. addMs(t, d) = <<s + 1, u - TicksPerSec>>
    BY <1>3, <1>6
  <2>2. u - TicksPerSec \in 0 .. TicksPerSec - 1
    BY <1>1, <1>2, <1>6, SecondIsPositive
  <2>3. Ticks(addMs(t, d)) = (s + 1) * TicksPerSec + (u - TicksPerSec)
    BY <2>1 DEF Ticks
  <2>4. QED
    BY <1>1, <1>2, <1>4, <1>5, <2>1, <2>2, <2>3, SecondIsPositive DEF Ticks
<1>7. CASE ~ (u >= TicksPerSec)
  <2>1. addMs(t, d) = <<s, u>>
    BY <1>3, <1>7
  <2>2. u \in 0 .. TicksPerSec - 1
    BY <1>5, <1>7, SecondIsPositive
  <2>3. Ticks(addMs(t, d)) = s * TicksPerSec + u
    BY <2>1 DEF Ticks
  <2>4. QED
    BY <1>1, <1>2, <1>4, <1>5, <2>1, <2>2, <2>3, SecondIsPositive DEF Ticks
<1>8. QED
  BY <1>6, <1>7

\* So is stepping, although it may leave a full second in the ticks.
LEMMA SteppedFacts ==
  ASSUME NEW t \in Nat \X (0 .. TicksPerSec), NEW d \in Nat
  PROVE  /\ Stepped(t, d) \in Nat \X (0 .. TicksPerSec)
         /\ Ticks(Stepped(t, d)) = Ticks(t) + d
<1>1. PICK q \in Nat, r \in 0 .. TicksPerSec - 1 :
        /\ d \div TicksPerSec = q /\ d % TicksPerSec = r
        /\ d = q * TicksPerSec + r
  BY DivMod
<1> DEFINE s == t[1] + q
           u == t[2] + r
<1>2. t[1] \in Nat /\ t[2] \in 0 .. TicksPerSec
  OBVIOUS
<1>3. Stepped(t, d) = IF u > TicksPerSec THEN <<s + 1, u - TicksPerSec>> ELSE <<s, u>>
  BY <1>1 DEF Stepped
<1>4. /\ s * TicksPerSec = t[1] * TicksPerSec + q * TicksPerSec
      /\ (s + 1) * TicksPerSec = t[1] * TicksPerSec + q * TicksPerSec + TicksPerSec
      /\ t[1] * TicksPerSec \in Nat /\ q * TicksPerSec \in Nat
  BY <1>1, <1>2, SecondIsPositive
<1>5. s \in Nat /\ s + 1 \in Nat /\ u \in Nat
  BY <1>1, <1>2, SecondIsPositive
<1>6. CASE u > TicksPerSec
  <2>1. Stepped(t, d) = <<s + 1, u - TicksPerSec>>
    BY <1>3, <1>6
  <2>2. u - TicksPerSec \in 0 .. TicksPerSec
    BY <1>1, <1>2, <1>6, SecondIsPositive
  <2>3. Ticks(Stepped(t, d)) = (s + 1) * TicksPerSec + (u - TicksPerSec)
    BY <2>1 DEF Ticks
  <2>4. Stepped(t, d) \in Nat \X (0 .. TicksPerSec)
    BY <1>5, <2>1, <2>2
  <2>5. Ticks(t) = t[1] * TicksPerSec + t[2]
    BY DEF Ticks
  <2>6. Ticks(Stepped(t, d)) = (t[1] * TicksPerSec + q * TicksPerSec + TicksPerSec)
                                 + (t[2] + r - TicksPerSec)
    BY ONLY <1>1, <1>2, <1>4, <2>3, SecondIsPositive
  <2>7. t[2] \in Int /\ d \in Int /\ TicksPerSec \in Int
    BY <1>2, SecondIsPositive
  <2>8. Ticks(Stepped(t, d)) = Ticks(t) + d
    BY ONLY <1>1, <1>4, <2>5, <2>6, <2>7
  <2>9. QED
    BY <2>4, <2>8
<1>7. CASE ~ (u > TicksPerSec)
  <2>1. Stepped(t, d) = <<s, u>>
    BY <1>3, <1>7
  <2>2. u \in 0 .. TicksPerSec
    BY <1>5, <1>7, SecondIsPositive
  <2>3. Ticks(Stepped(t, d)) = s * TicksPerSec + u
    BY <2>1 DEF Ticks
  <2>4. Stepped(t, d) \in Nat \X (0 .. TicksPerSec)
    BY <1>5, <2>1, <2>2
  <2>5. Ticks(t) = t[1] * TicksPerSec + t[2]
    BY DEF Ticks
  <2>6. Ticks(Stepped(t, d)) = (t[1] * TicksPerSec + q * TicksPerSec) + (t[2] + r)
    BY <1>4, <2>3
  <2>7. t[2] \in Int /\ d \in Int /\ TicksPerSec \in Int
    BY <1>2, SecondIsPositive
  <2>8. Ticks(Stepped(t, d)) = Ticks(t) + d
    BY ONLY <1>1, <1>4, <2>5, <2>6, <2>7, SMTT(60)
  <2>9. QED
    BY <2>4, <2>8
<1>8. QED
  BY <1>6, <1>7

\* And it keeps the order of times.
LEMMA SteppedOrder ==
  ASSUME NEW t1 \in Nat \X (0 .. TicksPerSec), NEW t2 \in Nat \X (0 .. TicksPerSec),
         NEW d \in Nat, ~Before(t2, t1)
  PROVE  ~Before(Stepped(t2, d), Stepped(t1, d))
<1>1. PICK q \in Nat, r \in 0 .. TicksPerSec - 1 :
        d \div TicksPerSec = q /\ d % TicksPerSec = r
  BY DivMod
<1> DEFINE s1 == t1[1] + q
           s2 == t2[1] + q
           u1 == t1[2] + r
           u2 == t2[2] + r
<1>2. /\ t1[1] \in Nat /\ t1[2] \in 0 .. TicksPerSec
      /\ t2[1] \in Nat /\ t2[2] \in 0 .. TicksPerSec
  OBVIOUS
<1>3. /\ Stepped(t1, d)[1] = IF u1 > TicksPerSec THEN s1 + 1 ELSE s1
      /\ Stepped(t1, d)[2] = IF u1 > TicksPerSec THEN u1 - TicksPerSec ELSE u1
      /\ Stepped(t2, d)[1] = IF u2 > TicksPerSec THEN s2 + 1 ELSE s2
      /\ Stepped(t2, d)[2] = IF u2 > TicksPerSec THEN u2 - TicksPerSec ELSE u2
  BY <1>1 DEF Stepped
<1>4. ~ (t2[1] < t1[1] \/ (t2[1] = t1[1] /\ t2[2] < t1[2]))
  BY DEF Before
<1>5. QED
  BY <1>1, <1>2, <1>3, <1>4, SecondIsPositive DEF Before

\* A timer that has expired is not later than the time, and if it is not earlier
\* either, the time is a full second.
LEMMA ExpiredFacts ==
  ASSUME NEW n \in Nat \X (0 .. TicksPerSec - 1), NEW e \in Nat \X (0 .. TicksPerSec),
         subTime(n, e)[1] < 0
  PROVE  Ticks(e) < Ticks(n) \/ (Ticks(e) = Ticks(n) /\ n[2] = 0)
<1>1. /\ n[1] \in Nat /\ n[2] \in 0 .. TicksPerSec - 1
      /\ e[1] \in Nat /\ e[2] \in 0 .. TicksPerSec
  OBVIOUS
<1>2. n[1] * TicksPerSec \in Nat /\ e[1] * TicksPerSec \in Nat
  BY <1>1, SecondIsPositive
<1>3. CASE e[2] < n[2]
  <2>1. e[1] - n[1] - 1 < 0
    BY <1>3 DEF subTime
  <2>2. e[1] * TicksPerSec <= n[1] * TicksPerSec
    <3>1. CASE e[1] = n[1]
      BY <1>2, <3>1
    <3>2. CASE e[1] < n[1]
      BY <1>1, <1>2, <3>2, SecondsApart, SecondIsPositive
    <3>3. QED
      BY <1>1, <2>1, <3>1, <3>2
  <2>3. QED
    BY <1>1, <1>2, <1>3, <2>2 DEF Ticks
<1>4. CASE ~ (e[2] < n[2])
  <2>1. e[1] - n[1] < 0
    BY <1>4 DEF subTime
  <2>2. e[1] * TicksPerSec + TicksPerSec <= n[1] * TicksPerSec
    BY <1>1, <2>1, SecondsApart
  <2>3. QED
    BY <1>1, <1>2, <2>2, SecondIsPositive DEF Ticks
<1>5. QED
  BY <1>3, <1>4

\* The order of times: strict, and total.
LEMMA BeforeOrder ==
  ASSUME NEW t1 \in Nat \X Nat, NEW t2 \in Nat \X Nat, NEW t3 \in Nat \X Nat
  PROVE  /\ ~Before(t1, t1)
         /\ Before(t1, t2) => ~Before(t2, t1)
         /\ ~Before(t2, t1) /\ ~Before(t3, t2) => ~Before(t3, t1)
BY DEF Before

-----------------------------------------------------------------------------
(* The queue                                                               *)

\* Queues as TypeOK, QueueOrdered and Displaced want them.
GoodQueue(q) ==
  /\ q \in Seq(Timer)
  /\ \A j, k \in DOMAIN q : j < k =>
       ~Before(q[k].expire, q[j].expire) /\ q[j].h # q[k].h

InPlace(q, s) ==
  \A k \in DOMAIN q :
    LET off == Ticks(q[k].expire) - q[k].due
    IN  /\ off < TicksPerSec /\ -off < TicksPerSec
        /\ ~q[k].moved => off = s \/ off = s - TicksPerSec

LEMMA TimerFields ==
  ASSUME NEW t \in Timer
  PROVE  /\ t.h \in Handlers /\ t.due \in Nat /\ t.moved \in BOOLEAN
         /\ t.expire \in Nat \X (0 .. TicksPerSec) /\ t.expire \in Nat \X Nat
         /\ Ticks(t.expire) \in Nat
<1>1. /\ t.h \in Handlers /\ t.due \in Nat /\ t.moved \in BOOLEAN
      /\ t.expire \in Nat \X (0 .. TicksPerSec)
  BY DEF Timer
<1>2. t.expire \in Nat \X Nat
  BY <1>1, SecondIsPositive
<1>3. QED
  BY <1>1, <1>2, TicksType

\* Entries that are unlinked leave a good queue behind.
LEMMA DroppingGood ==
  ASSUME NEW q, GoodQueue(q), NEW S, NEW s
  PROVE  /\ GoodQueue(Dropping(q, S)) /\ Len(Dropping(q, S)) <= Len(q)
         /\ \A i \in DOMAIN Dropping(q, S) :
              \E k \in DOMAIN q : Dropping(q, S)[i] = q[k] /\ q[k] \notin S
         /\ InPlace(q, s) => InPlace(Dropping(q, S), s)
<1> DEFINE r == Dropping(q, S)
<1>1. q \in Seq(Timer)
  BY DEF GoodQueue
<1>2. PICK at : Selects(Timer, q, S, r, Len(q), at)
  BY <1>1, DroppingProps
<1> HIDE DEF r
<1>3. /\ r \in Seq(Timer) /\ Len(r) <= Len(q)
      /\ DOMAIN r = 1 .. Len(r) /\ DOMAIN q = 1 .. Len(q)
  BY <1>1, <1>2 DEF Selects
<1>4. \A i \in DOMAIN r : at[i] \in DOMAIN q /\ r[i] = q[at[i]] /\ q[at[i]] \notin S
  BY <1>2, <1>3 DEF Selects
<1>5. \A i, j \in DOMAIN r : i < j => at[i] < at[j]
  BY <1>2, <1>3 DEF Selects
<1>6. GoodQueue(r)
  BY <1>3, <1>4, <1>5 DEF GoodQueue
<1>7. InPlace(q, s) => InPlace(r, s)
  BY <1>4 DEF InPlace
<1>8. \A i \in DOMAIN r : \E k \in DOMAIN q : r[i] = q[k] /\ q[k] \notin S
  BY <1>4
<1>9. QED
  BY <1>3, <1>6, <1>7, <1>8 DEF r

\* The place of a new timer.
LEMMA PlaceFacts ==
  ASSUME NEW q \in Seq(Timer), NEW e \in Nat \X Nat
  PROVE  /\ Place(q, e) \in 1 .. Len(q) + 1
         /\ \A j \in 1 .. Place(q, e) - 1 : ~Before(e, q[j].expire)
         /\ Place(q, e) <= Len(q) => Before(e, q[Place(q, e)].expire)
<1> DEFINE Later == {k \in 1 .. Len(q) + 1 : k <= Len(q) => Before(e, q[k].expire)}
           Fits(k) == /\ \A j \in 1 .. k - 1 : ~Before(e, q[j].expire)
                      /\ k <= Len(q) => Before(e, q[k].expire)
<1>1. Len(q) \in Nat
  OBVIOUS
<1>2. Later \subseteq Nat /\ Len(q) + 1 \in Later
  BY <1>1
<1>3. PICK k \in Later : \A j \in Later : k <= j
  BY <1>2, LeastElement
<1>4. k \in 1 .. Len(q) + 1 /\ (k <= Len(q) => Before(e, q[k].expire))
  OBVIOUS
<1>5. ASSUME NEW j \in 1 .. k - 1
      PROVE  ~Before(e, q[j].expire)
  <2>1. j \in 1 .. Len(q) + 1 /\ j <= Len(q) /\ ~ (k <= j)
    BY <1>1, <1>4
  <2>2. j \notin Later
    BY <1>3, <2>1
  <2>3. QED
    BY <2>1, <2>2
<1>6. \E i \in 1 .. Len(q) + 1 : Fits(i)
  BY <1>4, <1>5
<1>7. Place(q, e) = CHOOSE i \in 1 .. Len(q) + 1 : Fits(i)
  BY DEF Place
<1> HIDE DEF Fits
<1>8. Place(q, e) \in 1 .. Len(q) + 1 /\ Fits(Place(q, e))
  BY <1>6, <1>7
<1>9. QED
  BY <1>8 DEF Fits

\* A timer that is inserted at its place leaves a good queue behind.
LEMMA InsertGood ==
  ASSUME NEW q, GoodQueue(q), NEW t \in Timer, NEW s, InPlace(q, s), InPlace(<<t>>, s),
         \A k \in DOMAIN q : q[k].h # t.h
  PROVE  /\ GoodQueue(InsertAt(q, Place(q, t.expire), t))
         /\ Len(InsertAt(q, Place(q, t.expire), t)) = Len(q) + 1
         /\ InPlace(InsertAt(q, Place(q, t.expire), t), s)
<1> DEFINE e == t.expire
           p == Place(q, e)
           r == InsertAt(q, p, t)
           N == Len(q)
<1>1. q \in Seq(Timer) /\ N \in Nat /\ DOMAIN q = 1 .. N
  BY DEF GoodQueue
<1>2. e \in Nat \X Nat /\ \A k \in 1 .. N : q[k].expire \in Nat \X Nat
  BY <1>1, TimerFields
<1>3. /\ p \in 1 .. N + 1
      /\ \A j \in 1 .. p - 1 : ~Before(e, q[j].expire)
      /\ p <= N => Before(e, q[p].expire)
  BY <1>1, <1>2, PlaceFacts
<1> HIDE DEF p
<1>4. /\ r \in Seq(Timer) /\ Len(r) = N + 1
      /\ \A j \in 1 .. N + 1 : r[j] = IF j < p THEN q[j] ELSE IF j = p THEN t ELSE q[j - 1]
  <2>1. q \in Seq(Timer) /\ p \in 1 .. Len(q) + 1 /\ t \in Timer
    BY <1>1, <1>3
  <2>2. /\ r \in Seq(Timer) /\ Len(r) = Len(q) + 1
        /\ \A j \in 1 .. Len(q) + 1 : r[j] = IF j < p THEN q[j] ELSE IF j = p THEN t ELSE q[j - 1]
    BY ONLY <2>1, InsertAtProps
  <2>3. QED
    BY <2>2
<1> HIDE DEF r
<1>5. DOMAIN r = 1 .. N + 1
  BY <1>4
<1>6. \A j, k \in 1 .. N : j < k => ~Before(q[k].expire, q[j].expire) /\ q[j].h # q[k].h
  BY <1>1 DEF GoodQueue
<1>7. ASSUME NEW k \in 1 .. N, k >= p
      PROVE  ~Before(q[k].expire, e)
  <2>1. p \in 1 .. N /\ Before(e, q[p].expire)
    BY <1>3, <1>7
  <2>2. ~Before(q[p].expire, e)
    BY <1>2, <2>1, BeforeOrder
  <2>3. CASE k = p
    BY <2>2, <2>3
  <2>4. CASE k # p
    <3>1. ~Before(q[k].expire, q[p].expire)
      BY <1>6, <1>7, <2>1, <2>4
    <3>2. QED
      BY <1>2, <2>1, <2>2, <3>1, BeforeOrder
  <2>5. QED
    BY <2>3, <2>4
<1>8. ASSUME NEW j \in 1 .. N + 1, NEW k \in 1 .. N + 1, j < k
      PROVE  ~Before(r[k].expire, r[j].expire) /\ r[j].h # r[k].h
  <2>1. CASE k < p
    <3>1. j \in 1 .. N /\ k \in 1 .. N /\ r[j] = q[j] /\ r[k] = q[k]
      BY <1>1, <1>3, <1>4, <1>8, <2>1
    <3>2. QED
      BY <1>6, <1>8, <3>1
  <2>2. CASE k = p
    <3>1. j \in 1 .. N /\ j \in 1 .. p - 1 /\ r[j] = q[j] /\ r[k] = t
      BY <1>1, <1>3, <1>4, <1>8, <2>2
    <3>2. QED
      BY <1>1, <1>3, <3>1
  <2>3. CASE k > p /\ j < p
    <3>1. j \in 1 .. N /\ k - 1 \in 1 .. N /\ j < k - 1 /\ r[j] = q[j] /\ r[k] = q[k - 1]
      BY <1>1, <1>3, <1>4, <1>8, <2>3
    <3>2. QED
      BY <1>6, <3>1
  <2>4. CASE k > p /\ j = p
    <3>1. k - 1 \in 1 .. N /\ k - 1 >= p /\ r[j] = t /\ r[k] = q[k - 1]
      BY <1>1, <1>3, <1>4, <1>8, <2>4
    <3>2. QED
      BY <1>1, <1>7, <3>1
  <2>5. CASE k > p /\ j > p
    <3>1. /\ j - 1 \in 1 .. N /\ k - 1 \in 1 .. N /\ j - 1 < k - 1
          /\ r[j] = q[j - 1] /\ r[k] = q[k - 1]
      BY <1>1, <1>3, <1>4, <1>8, <2>5
    <3>2. QED
      BY <1>6, <3>1
  <2>6. QED
    BY <1>3, <1>8, <2>1, <2>2, <2>3, <2>4, <2>5
<1>9. GoodQueue(r)
  BY <1>4, <1>5, <1>8 DEF GoodQueue
<1>10. ASSUME NEW k \in 1 .. N + 1
       PROVE  r[k] = t \/ \E j \in DOMAIN q : r[k] = q[j]
  <2>1. CASE k < p
    BY <1>1, <1>3, <1>4, <2>1
  <2>2. CASE k = p
    BY <1>4, <2>2
  <2>3. CASE k > p
    <3>1. k - 1 \in DOMAIN q /\ r[k] = q[k - 1]
      BY <1>1, <1>3, <1>4, <2>3
    <3>2. QED
      BY <3>1
  <2>4. QED
    BY <1>3, <2>1, <2>2, <2>3
<1>11. InPlace(r, s)
  <2>1. 1 \in DOMAIN <<t>> /\ <<t>>[1] = t
    OBVIOUS
  <2>2. LET off == Ticks(t.expire) - t.due
        IN  /\ off < TicksPerSec /\ -off < TicksPerSec
            /\ ~t.moved => off = s \/ off = s - TicksPerSec
    BY <2>1 DEF InPlace
  <2>3. QED
    BY <1>5, <1>10, <2>2 DEF InPlace
<1>12. QED
  BY <1>4, <1>9, <1>11 DEF r, p

\* Stepping keeps the order and the distance from the uptime.
LEMMA StepGood ==
  ASSUME NEW q, GoodQueue(q), NEW d \in Nat, NEW s \in Int, InPlace(q, s)
  PROVE  LET r == [k \in DOMAIN q |->
                     [q[k] EXCEPT !.expire = Stepped(@, d), !.due = @ + d]]
         IN  GoodQueue(r) /\ Len(r) = Len(q) /\ InPlace(r, s)
<1> DEFINE r == [k \in DOMAIN q |-> [q[k] EXCEPT !.expire = Stepped(@, d), !.due = @ + d]]
<1>1. q \in Seq(Timer) /\ Len(q) \in Nat /\ DOMAIN q = 1 .. Len(q)
  BY DEF GoodQueue
<1>2. ASSUME NEW k \in DOMAIN q
      PROVE  /\ q[k] \in Timer /\ r[k] \in Timer
             /\ r[k].h = q[k].h /\ r[k].moved = q[k].moved
             /\ r[k].expire = Stepped(q[k].expire, d)
             /\ r[k].due = q[k].due + d
             /\ Ticks(r[k].expire) = Ticks(q[k].expire) + d
  <2>1. q[k] \in Timer
    BY <1>1
  <2>2. q[k].expire \in Nat \X (0 .. TicksPerSec) /\ q[k].due \in Nat
    BY <2>1, TimerFields
  <2>3. /\ Stepped(q[k].expire, d) \in Nat \X (0 .. TicksPerSec)
        /\ Ticks(Stepped(q[k].expire, d)) = Ticks(q[k].expire) + d
    BY <2>2, SteppedFacts
  <2>4. q[k].due + d \in Nat
    BY <2>2
  <2>5. r[k] = [q[k] EXCEPT !.expire = Stepped(@, d), !.due = @ + d]
    OBVIOUS
  <2> HIDE DEF r
  <2>6. QED
    BY <2>1, <2>3, <2>4, <2>5 DEF Timer
<1>3. DOMAIN r = 1 .. Len(q)
  BY <1>1
<1> HIDE DEF r
<1>4. r \in Seq(Timer) /\ Len(r) = Len(q)
  <2>1. r = [k \in 1 .. Len(q) |-> r[k]]
    BY <1>1 DEF r
  <2>2. \A k \in 1 .. Len(q) : r[k] \in Timer
    BY <1>1, <1>2
  <2>3. QED
    BY <1>1, <2>1, <2>2
<1>5. ASSUME NEW j \in DOMAIN q, NEW k \in DOMAIN q, j < k
      PROVE  ~Before(r[k].expire, r[j].expire) /\ r[j].h # r[k].h
  <2>1. ~Before(q[k].expire, q[j].expire) /\ q[j].h # q[k].h
    BY <1>5 DEF GoodQueue
  <2>2. q[j].expire \in Nat \X (0 .. TicksPerSec) /\ q[k].expire \in Nat \X (0 .. TicksPerSec)
    BY <1>2, TimerFields
  <2>3. ~Before(Stepped(q[k].expire, d), Stepped(q[j].expire, d))
    BY <2>1, <2>2, SteppedOrder
  <2>4. QED
    BY <1>2, <2>1, <2>3
<1>6. GoodQueue(r)
  BY <1>1, <1>3, <1>4, <1>5 DEF GoodQueue
<1>7. InPlace(r, s)
  <2>1. ASSUME NEW k \in DOMAIN q
        PROVE  Ticks(r[k].expire) - r[k].due = Ticks(q[k].expire) - q[k].due
    <3>1. Ticks(q[k].expire) \in Int /\ q[k].due \in Int
      BY <1>2, TimerFields
    <3>2. QED
      BY <1>2, <3>1
  <2>2. QED
    BY <1>1, <1>2, <1>3, <2>1 DEF InPlace
<1>8. QED
  BY <1>4, <1>6, <1>7 DEF r

\* So does setting the clock, which is remembered of every timer.
LEMMA SetGood ==
  ASSUME NEW q, GoodQueue(q), NEW s, InPlace(q, s), NEW s1
  PROVE  LET r == [k \in DOMAIN q |-> [q[k] EXCEPT !.moved = TRUE]]
         IN  GoodQueue(r) /\ Len(r) = Len(q) /\ InPlace(r, s1)
<1> DEFINE r == [k \in DOMAIN q |-> [q[k] EXCEPT !.moved = TRUE]]
<1>1. q \in Seq(Timer) /\ Len(q) \in Nat /\ DOMAIN q = 1 .. Len(q)
  BY DEF GoodQueue
<1>2. ASSUME NEW k \in DOMAIN q
      PROVE  /\ r[k] \in Timer /\ r[k].h = q[k].h /\ r[k].moved
             /\ r[k].expire = q[k].expire /\ r[k].due = q[k].due
  <2>1. q[k] \in Timer
    BY <1>1
  <2>2. r[k] = [q[k] EXCEPT !.moved = TRUE]
    OBVIOUS
  <2> HIDE DEF r
  <2>3. QED
    BY <2>1, <2>2 DEF Timer
<1>3. DOMAIN r = 1 .. Len(q) /\ r = [k \in 1 .. Len(q) |-> r[k]]
  BY <1>1
<1> HIDE DEF r
<1>4. r \in Seq(Timer) /\ Len(r) = Len(q)
  BY <1>1, <1>2, <1>3
<1>5. GoodQueue(r)
  BY <1>1, <1>2, <1>3, <1>4 DEF GoodQueue
<1>6. InPlace(r, s1)
  BY <1>1, <1>2, <1>3 DEF InPlace
<1>7. QED
  BY <1>4, <1>5, <1>6 DEF r

\* The queue behind its head.
LEMMA TailGood ==
  ASSUME NEW q, GoodQueue(q), q # <<>>, NEW s, InPlace(q, s)
  PROVE  GoodQueue(Tail(q)) /\ Len(Tail(q)) <= Len(q) /\ InPlace(Tail(q), s)
<1>1. q \in Seq(Timer) /\ Len(q) \in Nat /\ DOMAIN q = 1 .. Len(q)
  BY DEF GoodQueue
<1>2. /\ Tail(q) \in Seq(Timer) /\ Len(Tail(q)) = Len(q) - 1
      /\ DOMAIN Tail(q) = 1 .. Len(q) - 1
      /\ \A k \in 1 .. Len(q) - 1 : Tail(q)[k] = q[k + 1] /\ k + 1 \in DOMAIN q
  BY <1>1
<1>3. GoodQueue(Tail(q))
  <2>1. ASSUME NEW j \in DOMAIN Tail(q), NEW k \in DOMAIN Tail(q), j < k
        PROVE  ~Before(q[k + 1].expire, q[j + 1].expire) /\ q[j + 1].h # q[k + 1].h
    <3>1. j + 1 \in DOMAIN q /\ k + 1 \in DOMAIN q /\ j + 1 < k + 1
      BY <1>1, <1>2, <2>1
    <3>2. QED
      BY <3>1 DEF GoodQueue
  <2>2. QED
    BY <1>2, <2>1 DEF GoodQueue
<1>4. InPlace(Tail(q), s)
  BY <1>2 DEF InPlace
<1>5. QED
  BY <1>1, <1>2, <1>3, <1>4

-----------------------------------------------------------------------------
(* The invariant                                                           *)

\* IInv in two halves, the queue and the rest.
Queue == GoodQueue(timers) /\ Len(timers) <= MaxTimers /\ InPlace(timers, skew)

Rest ==
  /\ uptime \in 0 .. Horizon
  /\ skew \in 0 .. TicksPerSec - 1
  /\ listeners \in Seq([fd : Fds, type : Types])
  /\ Len(listeners) <= MaxListeners
  /\ pc \in Places
  /\ ready \subseteq Fds \X {"r", "w", "e"}
  /\ res \in Int
  /\ Counted

LEMMA Halves == IInv <=> Queue /\ Rest
<1>1. QueueOrdered /\ timers \in Seq(Timer) <=> GoodQueue(timers)
  BY DEF QueueOrdered, GoodQueue
<1>2. Displaced <=> InPlace(timers, skew)
  BY DEF Displaced, InPlace
<1>3. QED
  BY <1>1, <1>2 DEF IInv, TypeOK, Queue, Rest

LEMMA HalvesNext == Queue' /\ Rest' => IInv'
<1>1. GoodQueue(timers') => QueueOrdered' /\ timers' \in Seq(Timer)
  BY DEF QueueOrdered, GoodQueue
<1>2. InPlace(timers', skew') => Displaced'
  BY DEF Displaced, InPlace
<1>3. QED
  BY <1>1, <1>2 DEF IInv, TypeOK, Queue, Rest

LEMMA InitHolds == Init => IInv
<1> SUFFICES ASSUME Init PROVE IInv
  OBVIOUS
<1>1. Queue
  <2>1. timers = <<>> /\ Len(timers) = 0 /\ DOMAIN timers = {} /\ timers \in Seq(Timer)
    BY DEF Init
  <2>2. QED
    BY <2>1, LoopAssumption DEF Queue, GoodQueue, InPlace
<1>2. Rest
  BY LoopAssumption DEF Init, Rest, Counted, Places
<1>3. QED
  BY <1>1, <1>2, Halves

\* A timer set now is where it belongs, as far as the clocks can tell.
LEMMA NewTimerFacts ==
  ASSUME Rest, NEW h \in Handlers, NEW d \in Nat
  PROVE  /\ NewTimer(h, d) \in Timer /\ NewTimer(h, d).h = h
         /\ InPlace(<<NewTimer(h, d)>>, skew)
<1> DEFINE t == NewTimer(h, d)
<1>1. uptime \in Nat /\ skew \in 0 .. TicksPerSec - 1
  BY LoopAssumption DEF Rest
<1>2. /\ gettime \in Nat \X (0 .. TicksPerSec - 1)
      /\ \/ Ticks(gettime) = uptime + skew
         \/ Ticks(gettime) = uptime + skew - TicksPerSec /\ skew # 0
  BY <1>1, GettimeFacts
<1>3. /\ addMs(gettime, d) \in Nat \X (0 .. TicksPerSec - 1)
      /\ Ticks(addMs(gettime, d)) = Ticks(gettime) + d
  BY <1>2, AddFacts
<1>4. addMs(gettime, d) \in Nat \X (0 .. TicksPerSec)
  BY <1>3, SecondIsPositive
<1>5. t = [h |-> h, expire |-> addMs(gettime, d), due |-> uptime + d, moved |-> FALSE]
  BY DEF NewTimer
<1> HIDE DEF t
<1>6. /\ t \in Timer /\ t.h = h /\ t.expire = addMs(gettime, d) /\ t.due = uptime + d
  BY <1>1, <1>4, <1>5 DEF Timer
<1>7. LET off == Ticks(t.expire) - t.due
      IN  /\ off < TicksPerSec /\ -off < TicksPerSec
          /\ off = skew \/ off = skew - TicksPerSec
  BY <1>1, <1>2, <1>3, <1>6, SecondIsPositive
<1>8. InPlace(<<t>>, skew)
  <2>1. \A k \in DOMAIN <<t>> : <<t>>[k] = t
    OBVIOUS
  <2>2. QED
    BY <1>7, <2>1 DEF InPlace
<1>9. QED
  BY <1>6, <1>8 DEF t

LEMMA WithoutFacts ==
  ASSUME Queue, NEW h
  PROVE  /\ GoodQueue(Without(h)) /\ Len(Without(h)) <= MaxTimers
         /\ InPlace(Without(h), skew) /\ \A k \in DOMAIN Without(h) : Without(h)[k].h # h
<1> DEFINE S == {t \in ToSet(timers) : t.h = h}
<1>1. GoodQueue(timers) /\ Len(timers) <= MaxTimers /\ InPlace(timers, skew)
  BY DEF Queue
<1>2. Without(h) = Dropping(timers, S)
  BY DEF Without
<1>3. \A k \in DOMAIN timers : timers[k] \in ToSet(timers)
  BY <1>1 DEF ToSet, GoodQueue
<1>4. \A k \in DOMAIN timers : timers[k] \notin S => timers[k].h # h
  BY <1>3
<1> HIDE DEF S
<1>5. /\ GoodQueue(Dropping(timers, S)) /\ Len(Dropping(timers, S)) <= Len(timers)
      /\ \A i \in DOMAIN Dropping(timers, S) :
           \E k \in DOMAIN timers : Dropping(timers, S)[i] = timers[k] /\ timers[k] \notin S
      /\ InPlace(Dropping(timers, S), skew)
  BY <1>1, DroppingGood
<1>6. Len(timers) \in Nat /\ Len(Dropping(timers, S)) \in Nat
  BY <1>1, <1>5 DEF GoodQueue
<1>7. Len(Dropping(timers, S)) <= MaxTimers
  BY <1>1, <1>5, <1>6, LoopAssumption
<1>8. QED
  BY <1>2, <1>4, <1>5, <1>7

LEMMA QueueKept ==
  ASSUME Queue, Rest, [Next]_vars
  PROVE  Queue'
<1>0. GoodQueue(timers) /\ Len(timers) <= MaxTimers /\ InPlace(timers, skew) /\ Len(timers) \in Nat
  BY DEF Queue, GoodQueue
<1>1. CASE UNCHANGED <<timers, skew>>
  BY <1>0, <1>1 DEF Queue
<1>2. ASSUME NEW h \in Handlers, NEW d \in Delays, setTimer(h, d)
      PROVE  Queue'
  <2> DEFINE q == Without(h)
             t == NewTimer(h, d)
  <2>1. d \in Nat
    BY LoopAssumption
  <2>2. t \in Timer /\ t.h = h /\ InPlace(<<t>>, skew)
    BY <2>1, NewTimerFacts
  <2>3. GoodQueue(q) /\ Len(q) <= MaxTimers /\ InPlace(q, skew) /\ \A k \in DOMAIN q : q[k].h # t.h
    BY <2>2, WithoutFacts
  <2>4. timers' = (IF Room(q) THEN InsertAt(q, Place(q, t.expire), t) ELSE q) /\ skew' = skew
    BY <1>2 DEF setTimer
  <2> HIDE DEF q, t
  <2>5. CASE Room(q)
    <3>1. /\ GoodQueue(InsertAt(q, Place(q, t.expire), t))
          /\ Len(InsertAt(q, Place(q, t.expire), t)) = Len(q) + 1
          /\ InPlace(InsertAt(q, Place(q, t.expire), t), skew)
      BY <2>2, <2>3, InsertGood
    <3>2. Len(q) \in Nat /\ Len(q) < MaxTimers
      BY <2>3, <2>5 DEF Room, GoodQueue
    <3>3. Len(q) + 1 <= MaxTimers
      BY <3>2, LoopAssumption
    <3>4. QED
      BY <2>4, <2>5, <3>1, <3>3 DEF Queue
  <2>6. CASE ~Room(q)
    BY <2>3, <2>4, <2>6 DEF Queue
  <2>7. QED
    BY <2>5, <2>6
<1>3. ASSUME NEW h \in Handlers, stopTimer(h)
      PROVE  Queue'
  <2>1. timers' = Without(h) /\ skew' = skew
    BY <1>3 DEF stopTimer
  <2>2. QED
    BY <2>1, WithoutFacts DEF Queue
<1>4. CASE stopAllTimers
  <2>1. timers' = <<>> /\ skew' = skew /\ Len(<<>>) = 0 /\ DOMAIN <<>> = {} /\ <<>> \in Seq(Timer)
    BY <1>4 DEF stopAllTimers
  <2>2. QED
    BY <2>1, LoopAssumption DEF Queue, GoodQueue, InPlace
<1>5. ASSUME NEW d \in Delays, stepTime(d)
      PROVE  Queue'
  <2> DEFINE r == [k \in DOMAIN timers |->
                     [timers[k] EXCEPT !.expire = Stepped(@, d), !.due = @ + d]]
  <2>1. timers' = r /\ skew' = skew
    BY <1>5 DEF stepTime
  <2>2. d \in Nat /\ skew \in Int
    BY LoopAssumption, SecondIsPositive DEF Rest
  <2>3. GoodQueue(r) /\ Len(r) = Len(timers) /\ InPlace(r, skew)
    BY <1>0, <2>2, StepGood
  <2> HIDE DEF r
  <2>4. QED
    BY <1>0, <2>1, <2>3 DEF Queue
<1>6. CASE FireTimer
  <2>1. timers' = Tail(timers) /\ timers # <<>> /\ skew' = skew
    BY <1>6 DEF FireTimer, Expired
  <2>2. GoodQueue(Tail(timers)) /\ Len(Tail(timers)) <= Len(timers) /\ InPlace(Tail(timers), skew)
    BY <1>0, <2>1, TailGood
  <2>3. Len(Tail(timers)) \in Nat
    BY <2>2 DEF GoodQueue
  <2>4. Len(Tail(timers)) <= MaxTimers
    BY <1>0, <2>2, <2>3, LoopAssumption
  <2>5. QED
    BY <2>1, <2>2, <2>4 DEF Queue
<1>7. CASE settimeofday
  <2> DEFINE r == [k \in DOMAIN timers |-> [timers[k] EXCEPT !.moved = TRUE]]
  <2>1. timers' = r
    BY <1>7 DEF settimeofday
  <2>2. GoodQueue(r) /\ Len(r) = Len(timers) /\ InPlace(r, skew')
    BY <1>0, SetGood
  <2> HIDE DEF r
  <2>3. QED
    BY <1>0, <2>1, <2>2 DEF Queue
<1>8. QED
  BY <1>1, <1>2, <1>3, <1>4, <1>5, <1>6, <1>7
     DEF Next, vars, setListenerType, stopListener, closeAllFds, Enter, Leave, Select, Serve,
         EndServe, HandlerReturns, Tick

LEMMA UnlistenedFacts ==
  ASSUME Rest, NEW fd
  PROVE  /\ Unlistened(fd) \in Seq([fd : Fds, type : Types])
         /\ Len(Unlistened(fd)) <= MaxListeners /\ Len(Unlistened(fd)) \in Nat
<1> DEFINE L == [fd : Fds, type : Types]
           S == {l \in ToSet(listeners) : l.fd = fd}
<1>1. listeners \in Seq(L) /\ Len(listeners) <= MaxListeners /\ Len(listeners) \in Nat
  BY DEF Rest
<1>2. Unlistened(fd) = Dropping(listeners, S)
  BY DEF Unlistened
<1> HIDE DEF L, S
<1>3. PICK at : Selects(L, listeners, S, Dropping(listeners, S), Len(listeners), at)
  BY <1>1, DroppingProps
<1>4. Dropping(listeners, S) \in Seq(L) /\ Len(Dropping(listeners, S)) <= Len(listeners)
  BY <1>3 DEF Selects
<1>5. Len(Dropping(listeners, S)) \in Nat
  BY <1>4
<1>6. Len(Dropping(listeners, S)) <= MaxListeners
  BY <1>1, <1>4, <1>5, LoopAssumption
<1>7. QED
  BY <1>2, <1>4, <1>5, <1>6 DEF L

\* What select may report is finite.
LEMMA BitsFinite ==
  ASSUME Rest,
         NEW r \in SUBSET UNION {{listeners[k].fd} \X Watched(listeners[k].type) :
                                   k \in DOMAIN listeners}
  PROVE  IsFiniteSet(r) /\ Cardinality(r) \in Nat /\ r \subseteq Fds \X {"r", "w", "e"}
<1> DEFINE F == {listeners[k].fd : k \in DOMAIN listeners}
           B == {"r", "w", "e"}
<1>1. DOMAIN listeners = 1 .. Len(listeners) /\ Len(listeners) \in Nat
      /\ \A k \in DOMAIN listeners : listeners[k].fd \in Fds /\ listeners[k].type \in Types
  <2> DEFINE L == [fd : Fds, type : Types]
  <2>1. listeners \in Seq(L)
    BY DEF Rest
  <2>2. \A x \in L : x.fd \in Fds /\ x.type \in Types
    OBVIOUS
  <2> HIDE DEF L
  <2>3. /\ DOMAIN listeners = 1 .. Len(listeners) /\ Len(listeners) \in Nat
        /\ \A k \in DOMAIN listeners : listeners[k] \in L
    BY <2>1
  <2>4. QED
    BY <2>2, <2>3
<1>2. IsFiniteSet(DOMAIN listeners)
  <2>1. IsFiniteSet(1 .. Len(listeners))
    BY <1>1, FS_Interval
  <2>2. QED
    BY <1>1, <2>1
<1>3. IsFiniteSet(F)
  <2> DEFINE f == [k \in DOMAIN listeners |-> listeners[k].fd]
  <2>1. f \in [DOMAIN listeners -> F] /\ \A x \in F : \E k \in DOMAIN listeners : f[k] = x
    OBVIOUS
  <2>2. f \in Surjection(DOMAIN listeners, F)
    BY <2>1 DEF Surjection
  <2> HIDE DEF f, F
  <2>3. QED
    BY <1>2, <2>2, FS_Surjection
<1>4. IsFiniteSet(B)
  <2>1. IsFiniteSet({}) /\ IsFiniteSet({} \cup {"r"}) /\ IsFiniteSet(({} \cup {"r"}) \cup {"w"})
        /\ IsFiniteSet((({} \cup {"r"}) \cup {"w"}) \cup {"e"})
    BY FS_EmptySet, FS_AddElement
  <2>2. B = (({} \cup {"r"}) \cup {"w"}) \cup {"e"}
    OBVIOUS
  <2>3. QED
    BY <2>1, <2>2
<1>5. IsFiniteSet(F \X B)
  BY <1>3, <1>4, FS_Product
<1>6. \A type \in Types : Watched(type) \subseteq B
  BY LoopAssumption DEF Watched
<1>7. r \subseteq F \X B
  BY <1>1, <1>6
<1>8. F \X B \subseteq Fds \X B
  BY <1>1
<1> HIDE DEF F
<1>9. IsFiniteSet(r)
  BY <1>5, <1>7, FS_Subset
<1>10. QED
  BY <1>7, <1>8, <1>9, FS_CardinalityType

LEMMA RestKept ==
  ASSUME Rest, [Next]_vars
  PROVE  Rest'
<1>1. CASE UNCHANGED vars
  BY <1>1 DEF Rest, Counted, vars, loopVars
<1>2. CASE UNCHANGED <<uptime, skew, listeners, loopVars>>
  BY <1>2 DEF Rest, Counted, loopVars
<1>3. ASSUME NEW fd \in Fds, NEW type \in Types, setListenerType(fd, type)
      PROVE  Rest'
  <2> DEFINE L == [fd : Fds, type : Types]
             u == Unlistened(fd)
             l == [fd |-> fd, type |-> type]
  <2>1. u \in Seq(L) /\ Len(u) <= MaxListeners /\ Len(u) \in Nat
    BY UnlistenedFacts
  <2>2. l \in L
    OBVIOUS
  <2>3. listeners' = (IF Len(u) < MaxListeners THEN <<l>> ELSE <<>>) \o u
        /\ UNCHANGED <<uptime, skew, loopVars>>
    BY <1>3 DEF setListenerType
  <2> HIDE DEF L, u, l
  <2>4. listeners' \in Seq(L) /\ Len(listeners') <= MaxListeners
    <3>1. CASE Len(u) < MaxListeners
      <4>1. <<l>> \in Seq(L) /\ Len(<<l>>) = 1 /\ listeners' = <<l>> \o u
        BY <2>2, <2>3, <3>1
      <4>2. <<l>> \o u \in Seq(L) /\ Len(<<l>> \o u) = 1 + Len(u)
        BY <2>1, <4>1
      <4>3. QED
        BY <2>1, <3>1, <4>1, <4>2, LoopAssumption
    <3>2. CASE ~ (Len(u) < MaxListeners)
      BY <2>1, <2>3, <3>2
    <3>3. QED
      BY <3>1, <3>2
  <2>5. QED
    BY <2>3, <2>4 DEF Rest, Counted, loopVars, L
<1>4. ASSUME NEW fd \in Fds, stopListener(fd)
      PROVE  Rest'
  <2>1. listeners' = Unlistened(fd) /\ UNCHANGED <<uptime, skew, loopVars>>
    BY <1>4 DEF stopListener
  <2>2. QED
    BY <2>1, UnlistenedFacts DEF Rest, Counted, loopVars
<1>5. CASE closeAllFds
  BY <1>5, LoopAssumption DEF closeAllFds, Rest, Counted, loopVars
<1>6. CASE Enter \/ Leave \/ FireTimer
  BY <1>6 DEF Enter, Leave, FireTimer, Rest, Counted, Places
<1>7. CASE Select
  <2>1. ready' \in SUBSET UNION {{listeners[k].fd} \X Watched(listeners[k].type) :
                                   k \in DOMAIN listeners}
    BY <1>7 DEF Select
  <2>2. IsFiniteSet(ready') /\ Cardinality(ready') \in Nat /\ ready' \subseteq Fds \X {"r", "w", "e"}
    BY <2>1, BitsFinite
  <2>3. res' = Cardinality(ready') /\ pc' = "serving" /\ UNCHANGED <<uptime, skew, listeners>>
    BY <1>7 DEF Select
  <2>4. QED
    BY <2>2, <2>3 DEF Rest, Counted, Places
<1>8. CASE Serve
  <2> DEFINE k == CHOOSE j \in DOMAIN listeners :
                    IsReady(listeners[j]) /\ \A i \in 1 .. j - 1 : ~IsReady(listeners[i])
  <2>1. /\ pc = "serving" /\ SomeReady /\ res \in Int
        /\ ready' = {bit \in ready : bit[1] # listeners[k].fd}
        /\ res' = res - 1 /\ pc' = "listener" /\ UNCHANGED <<uptime, skew, listeners>>
    BY <1>8 DEF Serve, Consume, Rest
  <2>2. IsFiniteSet(ready) /\ Cardinality(ready) <= res /\ Cardinality(ready) \in Nat
    BY <2>1, FS_CardinalityType DEF Rest, Counted
  <2>3. k \in DOMAIN listeners /\ IsReady(listeners[k])
    <3> DEFINE R == {j \in DOMAIN listeners : IsReady(listeners[j])}
    <3>1. DOMAIN listeners = 1 .. Len(listeners) /\ Len(listeners) \in Nat
      BY DEF Rest
    <3>2. R \subseteq Nat /\ R # {}
      BY <2>1, <3>1 DEF SomeReady
    <3>3. PICK j \in R : \A i \in R : j <= i
      BY <3>2, LeastElement
    <3>4. j \in DOMAIN listeners /\ IsReady(listeners[j])
      OBVIOUS
    <3>5. ASSUME NEW i \in 1 .. j - 1
          PROVE  ~IsReady(listeners[i])
      <4>1. i \in DOMAIN listeners /\ ~ (j <= i)
        BY <3>1, <3>4
      <4>2. QED
        BY <3>3, <4>1
    <3>6. QED
      BY <3>4, <3>5
  <2> HIDE DEF k
  <2>4. PICK bit \in ready : bit[1] = listeners[k].fd
    BY <2>3 DEF IsReady
  <2>5. ready' \subseteq ready \ {bit} /\ ready' \subseteq ready
    BY <2>1, <2>4
  <2>6. IsFiniteSet(ready \ {bit}) /\ Cardinality(ready \ {bit}) = Cardinality(ready) - 1
    BY <2>2, FS_RemoveElement
  <2>7. IsFiniteSet(ready') /\ Cardinality(ready') <= Cardinality(ready \ {bit})
        /\ Cardinality(ready') \in Nat
    BY <2>5, <2>6, FS_Subset, FS_CardinalityType
  <2>8. Cardinality(ready') <= res'
    BY <2>1, <2>2, <2>6, <2>7
  <2>9. QED
    BY <2>1, <2>5, <2>7, <2>8 DEF Rest, Counted, Places
<1>9. CASE EndServe
  BY <1>9 DEF EndServe, Rest, Counted, Places
<1>10. CASE HandlerReturns
  BY <1>10 DEF HandlerReturns, Rest, Counted, Places
<1>11. CASE Tick
  BY <1>11, LoopAssumption DEF Tick, Rest, Counted, loopVars
<1>12. CASE settimeofday
  BY <1>12 DEF settimeofday, Rest, Counted, loopVars
<1>13. QED
  BY <1>1, <1>2, <1>3, <1>4, <1>5, <1>6, <1>7, <1>8, <1>9, <1>10, <1>11, <1>12
     DEF Next, setTimer, stopTimer, stopAllTimers, stepTime

-----------------------------------------------------------------------------
(* Theorems                                                                *)

\* The inductive invariant of the timers and listeners holds in every state, for any
\* tables, delays and ticks per second (lines 509-631 and 748-834 of event.c).
THEOREM Invariance == Spec => []IInv
<1>1. IInv /\ [Next]_vars => IInv'
  BY Halves, HalvesNext, QueueKept, RestKept
<1>2. QED
  BY <1>1, InitHolds, PTL DEF Spec

\* Type correctness; the tables of timers and listeners are never overdrawn.
THEOREM TypeCorrect == Spec => []TypeOK
<1>1. IInv => TypeOK
  BY DEF IInv
<1>2. QED
  BY <1>1, Invariance, PTL

\* setTimer, stopTimer and stepTime keep the queue sorted, a timer once in it, whatever
\* the clocks do (lines 509-593).
THEOREM QueueSorted == Spec => []QueueOrdered
<1>1. IInv => QueueOrdered
  BY DEF IInv
<1>2. QED
  BY <1>1, Invariance, PTL

\* A timer fires less than a second early, or less than two if the wall clock was set
\* while it was running (gettime, lines 385-409, and the test of line 788).
THEOREM DisplacementBounded == Spec => BoundedDisplacement
<1>1. ASSUME IInv, FireTimer
      PROVE  LET t == Head(timers)
             IN  uptime > t.due - (IF t.moved THEN 2 ELSE 1) * TicksPerSec
  <2> DEFINE t == Head(timers)
             off == Ticks(t.expire) - t.due
  <2>1. Queue /\ Rest /\ timers # <<>> /\ subTime(gettime, t.expire)[1] < 0
    BY <1>1, Halves DEF FireTimer, Expired
  <2>2. 1 \in DOMAIN timers /\ t = timers[1] /\ t \in Timer
    BY <2>1 DEF Queue, GoodQueue
  <2>3. /\ off < TicksPerSec /\ -off < TicksPerSec
        /\ ~t.moved => off = skew \/ off = skew - TicksPerSec
    BY <2>1, <2>2 DEF Queue, InPlace
  <2>4. t.expire \in Nat \X (0 .. TicksPerSec) /\ Ticks(t.expire) \in Nat /\ t.due \in Nat
        /\ t.moved \in BOOLEAN
    BY <2>2, TimerFields
  <2>5. uptime \in Nat /\ skew \in 0 .. TicksPerSec - 1
    BY <2>1, LoopAssumption DEF Rest
  <2>6. /\ gettime \in Nat \X (0 .. TicksPerSec - 1)
        /\ \/ Ticks(gettime) = uptime + skew
           \/ Ticks(gettime) = uptime + skew - TicksPerSec /\ skew # 0
    BY <2>5, GettimeFacts
  <2>7. Ticks(t.expire) < Ticks(gettime) \/ (Ticks(t.expire) = Ticks(gettime) /\ gettime[2] = 0)
    BY <2>1, <2>4, <2>6, ExpiredFacts
  <2>8. gettime[2] = 0 => skew = 0 \/ Ticks(gettime) = uptime + skew - TicksPerSec
    <3>1. PICK q \in Nat, r \in 0 .. TicksPerSec - 1 :
            uptime \div TicksPerSec = q /\ uptime % TicksPerSec = r /\ uptime = q * TicksPerSec + r
      BY <2>5, DivMod
    <3>2. gettime[2] = (IF r + skew < TicksPerSec THEN r + skew ELSE r + skew - TicksPerSec)
          /\ gettime[1] = q
      BY <2>5, <3>1, ModAdd DEF gettime
    <3>3. Ticks(gettime) = q * TicksPerSec + gettime[2] /\ q * TicksPerSec \in Nat
      BY <3>1, <3>2, SecondIsPositive DEF Ticks
    <3>4. QED
      BY <2>5, <3>1, <3>2, <3>3, SecondIsPositive
  <2> HIDE DEF t
  <2>9. CASE t.moved
    BY <2>3, <2>4, <2>5, <2>6, <2>7, <2>9, SecondIsPositive DEF t
  <2>10. CASE ~t.moved
    BY <2>3, <2>4, <2>5, <2>6, <2>7, <2>8, <2>10, SecondIsPositive DEF t
  <2>11. QED
    BY <2>4, <2>9, <2>10
<1>2. IInv /\ [Next]_vars => [FireTimer =>
         LET t == Head(timers)
         IN  uptime > t.due - (IF t.moved THEN 2 ELSE 1) * TicksPerSec]_vars
  BY <1>1
<1>3. QED
  BY <1>2, Invariance, PTL DEF Spec, BoundedDisplacement

\* The loop returns to select only when every descriptor that select reported has been
\* served or is not listened to any more (lines 817-832): the count, which is of
\* bits while the loop counts descriptors, does not run out before.
THEOREM ReadyServed == Spec => AllReadyServed
<1>1. ASSUME IInv, [Next]_vars, pc = "serving", pc' = "top"
      PROVE  ~SomeReady
  <2>1. res <= 0 \/ ~SomeReady
    BY <1>1 DEF Next, vars, loopVars, setTimer, stopTimer, stopAllTimers, stepTime,
       setListenerType, stopListener, closeAllFds, Enter, Leave, FireTimer, Select, Serve,
       EndServe, HandlerReturns, Tick, settimeofday
  <2>2. IsFiniteSet(ready) /\ Cardinality(ready) <= res /\ res \in Int
    BY <1>1 DEF IInv, TypeOK, Counted
  <2>3. Cardinality(ready) \in Nat
    BY <2>2, FS_CardinalityType
  <2>4. res <= 0 => ready = {}
    <3>1. res <= 0 => Cardinality(ready) = 0
      BY <2>2, <2>3
    <3>2. QED
      BY <2>2, <3>1, FS_EmptySet
  <2>5. QED
    BY <2>1, <2>4 DEF SomeReady, IsReady
<1>2. IInv /\ [Next]_vars => [pc = "serving" /\ pc' = "top" => ~SomeReady]_vars
  BY <1>1
<1>3. QED
  BY <1>2, Invariance, PTL DEF Spec, AllReadyServed
=============================================================================
