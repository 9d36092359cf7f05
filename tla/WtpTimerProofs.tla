--------------------------- MODULE WtpTimerProofs ---------------------------
(***************************************************************************)
(* Proofs about WtpTimer, for any number of timers, any delays, any length *)
(* of a second and any horizon: the inductive invariant IInv, the safety   *)
(* invariants it contains, and the refinement of TimerService.             *)
(***************************************************************************)
EXTENDS WtpTimer, SequenceFacts, TLAPS

-----------------------------------------------------------------------------
(* The arithmetic of timer_start                                           *)

LEMMA DivMod ==
  ASSUME NEW t \in Nat
  PROVE  /\ Sec(t) \in Nat /\ Usec(t) \in 0 .. UsecPerSec - 1
         /\ t = Sec(t) * UsecPerSec + Usec(t)
  BY WtpAssumption DEF Sec, Usec

LEMMA Distribute ==
  ASSUME NEW a \in Nat, NEW b \in Nat, NEW u \in Nat
  PROVE  /\ (a - b) * u = a * u - b * u
         /\ (a - b - 1) * u = a * u - b * u - u
  OBVIOUS

\* TV_MINUS (lines 41-52) is exact when no microsecond is borrowed, and a
\* microsecond short when one is, whatever the length of a second.
THEOREM MinusShort ==
  ASSUME NEW t1 \in Nat, NEW t2 \in Nat
  PROVE  /\ Usec(t1) >= Usec(t2) => TV_MINUS(t1, t2) = t1 - t2
         /\ ~(Usec(t1) >= Usec(t2)) => TV_MINUS(t1, t2) = t1 - t2 - 1
<1> DEFINE s1 == Sec(t1)  s2 == Sec(t2)  u1 == Usec(t1)  u2 == Usec(t2)
           p1 == s1 * UsecPerSec  p2 == s2 * UsecPerSec
<1>1. /\ s1 \in Nat /\ s2 \in Nat /\ u1 \in Nat /\ u2 \in Nat /\ UsecPerSec \in Nat
      /\ t1 = p1 + u1 /\ t2 = p2 + u2
  BY DivMod, WtpAssumption
<1>2. p1 \in Nat /\ p2 \in Nat
  BY <1>1
<1>3. /\ (s1 - s2) * UsecPerSec = p1 - p2
      /\ (s1 - s2 - 1) * UsecPerSec = p1 - p2 - UsecPerSec
  BY <1>1, Distribute
<1>4. TV_MINUS(t1, t2) =
        IF u1 >= u2 THEN (p1 - p2) + (u1 - u2)
        ELSE (p1 - p2 - UsecPerSec) + u1 + (UsecPerSec - 1 - u2)
  BY <1>3 DEF TV_MINUS, MAX_USEC
<1> HIDE DEF s1, s2, u1, u2, p1, p2
<1>5. /\ u1 >= u2 => TV_MINUS(t1, t2) = t1 - t2
      /\ ~(u1 >= u2) => TV_MINUS(t1, t2) = t1 - t2 - 1
  BY <1>1, <1>2, <1>4
<1>6. QED
  BY <1>5 DEF u1, u2

LEMMA timer_start_Type ==
  ASSUME NEW t \in 0 .. Horizon, now \in 0 .. Horizon
  PROVE  timer_start(t) \in {Off} \cup 0 .. Horizon
<1>1. CASE now < t
  <2>1. t \in Nat /\ now \in Nat
    BY WtpAssumption
  <2>2. TV_MINUS(t, now) = t - now \/ TV_MINUS(t, now) = t - now - 1
    BY <2>1, MinusShort
  <2>3. timer_start(t) = Off \/ timer_start(t) = now + TV_MINUS(t, now)
    BY <1>1 DEF timer_start, Setitimer
  <2>4. QED
    BY <1>1, <2>1, <2>2, <2>3, WtpAssumption
<1>2. CASE ~(now < t)
  <2>1. timer_start(t) = Cut(now + AlmostNow)
    BY <1>2, WtpAssumption DEF timer_start, Setitimer
  <2>2. QED
    BY <2>1, WtpAssumption DEF Cut
<1>3. QED
  BY <1>1, <1>2

-----------------------------------------------------------------------------
(* The insertion of timer_add                                              *)

\* The search of lines 374-380 finds a position, after every timer that does
\* not expire later and before the first that does.
LEMMA PositionProps ==
  ASSUME TypeOK, NEW due \in Nat
  PROVE  LET p == Position(queue, due)
         IN  /\ p \in 1 .. Len(queue) + 1
             /\ \A j \in 1 .. p - 1 : due >= timeout[queue[j]]
             /\ p <= Len(queue) => due < timeout[queue[p]]
<1>1. /\ queue \in Seq(Ids) /\ Len(queue) \in Nat
      /\ \A j \in 1 .. Len(queue) : queue[j] \in Ids /\ timeout[queue[j]] \in Nat
  BY WtpAssumption DEF TypeOK
<1> DEFINE Later == {j \in 1 .. Len(queue) : due < timeout[queue[j]]}
           T == Later \cup {Len(queue) + 1}
<1>2. PICK k \in T : \A j \in T : k <= j
  <2>1. T \subseteq Nat /\ T # {}
    BY <1>1
  <2> HIDE DEF T
  <2>2. QED
    BY <2>1, LeastElement
<1>3. k \in 1 .. Len(queue) + 1 /\ (k <= Len(queue) => due < timeout[queue[k]])
  BY <1>1
<1>4. ASSUME NEW j \in 1 .. k - 1
      PROVE  due >= timeout[queue[j]]
  <2>1. j \in 1 .. Len(queue) /\ j < k
    BY <1>1, <1>3
  <2>2. j \notin Later
    BY <1>1, <1>2, <1>3, <2>1
  <2>3. QED
    BY <1>1, <2>1, <2>2
<1>5. QED
  BY <1>3, <1>4 DEF Position

-----------------------------------------------------------------------------
(* IInv is inductive                                                       *)

LEMMA InitInv == Init => IInv
<1> SUFFICES ASSUME Init PROVE IInv
  OBVIOUS
<1>1. 0 \in 0 .. Horizon /\ 0 \in 0 .. MaxTimers /\ <<>> \in Seq(Ids)
  BY WtpAssumption
<1>2. TypeOK
  BY <1>1 DEF Init, TypeOK, TickerStates
<1>3. QueueOrder /\ ActiveHead /\ NoMissedWakeup /\ ArgHandedOnce /\ Bookkeeping
  BY DEF Init, QueueOrder, ActiveHead, NoMissedWakeup, ArgHandedOnce, Bookkeeping
<1>4. QED
  BY <1>2, <1>3 DEF IInv

\* No id is queued twice.
LEMMA DistinctIds ==
  ASSUME TypeOK, QueueOrder, NEW j \in DOMAIN queue, NEW k \in DOMAIN queue, j # k
  PROVE  queue[j] # queue[k]
<1>1. j \in Nat /\ k \in Nat /\ queue[j] \in Ids /\ queue[k] \in Ids
  BY DEF TypeOK
<1>2. timeout[queue[j]] \in Nat /\ timeout[queue[k]] \in Nat /\ queue[j] \in Int /\ queue[k] \in Int
  BY <1>1, WtpAssumption DEF TypeOK, Ids
<1>3. j < k \/ k < j
  BY <1>1
<1>4. QED
  BY <1>2, <1>3 DEF QueueOrder

\* timer_add inserts the new timer in order, whichever branch it takes.
LEMMA AddInv ==
  ASSUME IInv, NEW d \in Delays, NEW lag \in Lags, timer_add(d, lag)
  PROVE  IInv'
<1> DEFINE id == cur_id
           due == now + d - lag
           p == Position(queue, due)
<1> USE DEF IInv
<1>1. /\ cur_id < MaxTimers /\ due <= Horizon /\ lag <= now
      /\ NewTimer(id, due)
      /\ queue' = InsertAt(queue, p, id)
      /\ now' = now /\ sigalrm' = sigalrm /\ ticker' = ticker /\ hdl' = hdl
      /\ removed' = removed /\ handed' = handed
  BY DEF timer_add, history
<1>2. /\ id \in Ids /\ id \in Nat /\ due \in Nat /\ due \in 0 .. Horizon
      /\ now \in 0 .. Horizon /\ MaxTimers \in Nat
  BY <1>1, WtpAssumption DEF TypeOK, Ids
<1>3. /\ queue \in Seq(Ids) /\ Len(queue) \in Nat /\ DOMAIN queue = 1 .. Len(queue)
      /\ \A k \in 1 .. Len(queue) : queue[k] \in Ids /\ queue[k] \in Nat /\ queue[k] < id
  BY WtpAssumption, SMTT(60) DEF TypeOK, Bookkeeping, Ids
<1> HIDE DEF id, due
<1>4. /\ p \in 1 .. Len(queue) + 1
      /\ \A j \in 1 .. p - 1 : due >= timeout[queue[j]]
      /\ p <= Len(queue) => due < timeout[queue[p]]
  BY <1>2, PositionProps
<1> HIDE DEF p
<1>5. /\ queue' \in Seq(Ids)
      /\ Len(queue') = Len(queue) + 1
      /\ DOMAIN queue' = 1 .. Len(queue) + 1
      /\ \A j \in 1 .. Len(queue) + 1 :
           queue'[j] = IF j < p THEN queue[j] ELSE IF j = p THEN id ELSE queue[j-1]
  <2>1. /\ InsertAt(queue, p, id) \in Seq(Ids)
        /\ Len(InsertAt(queue, p, id)) = Len(queue) + 1
        /\ \A j \in 1 .. Len(queue)+1 : InsertAt(queue, p, id)[j] =
              IF j < p THEN queue[j] ELSE IF j = p THEN id ELSE queue[j-1]
    BY <1>2, <1>3, <1>4, InsertAtProps, SMTT(60)
  <2>2. QED
    BY <1>1, <2>1
<1>6. /\ cur_id' = id + 1
      /\ timeout' = [timeout EXCEPT ![id] = due]
      /\ cancelled' = [cancelled EXCEPT ![id] = FALSE]
      /\ handler_arg' = [handler_arg EXCEPT ![id] = TRUE]
  BY <1>1 DEF NewTimer, id
<1>7. TypeOK'
  <2>1. cur_id' \in 0 .. MaxTimers
    BY <1>1, <1>2, <1>6 DEF id
  <2>2. timeout' \in [Ids -> 0 .. Horizon]
    BY <1>2, <1>6 DEF TypeOK
  <2>3. /\ in_use' \in [Ids -> BOOLEAN]
        /\ alarm' \in {Off} \cup 0 .. Horizon
        /\ woken' \in BOOLEAN
    <3>1. CASE queue = <<>> /\ in_use' = [in_use EXCEPT ![id] = FALSE]
               /\ woken' = (woken \/ ticker = "cond_wait") /\ UNCHANGED alarm
      BY <3>1, <1>2 DEF TypeOK
    <3>2. CASE queue # <<>> /\ TakeOver(id, due)
      <4>1. timer_start(due) \in {Off} \cup 0 .. Horizon
        BY <1>2, timer_start_Type
      <4>2. QED
        BY <3>2, <4>1, <1>2 DEF TypeOK, TakeOver
    <3>3. CASE queue # <<>> /\ in_use' = [in_use EXCEPT ![id] = FALSE]
               /\ UNCHANGED <<alarm, woken>>
      BY <3>3, <1>2 DEF TypeOK
    <3>4. QED
      BY <3>1, <3>2, <3>3 DEF timer_add, Signal, id, due, p
  <2>4. QED
    BY <1>1, <1>5, <1>6, <2>1, <2>2, <2>3 DEF TypeOK
<1>8. QueueOrder'
  <2>1. \A x \in Ids : x # id => timeout'[x] = timeout[x]
    BY <1>6 DEF TypeOK
  <2>2. timeout'[id] = due
    BY <1>2, <1>6 DEF TypeOK
  <2>3. \A k \in 1 .. Len(queue) : timeout[queue[k]] \in Nat
    BY <1>3, WtpAssumption DEF TypeOK
  <2>4. ASSUME NEW j \in 1 .. Len(queue), p <= j
        PROVE  due < timeout[queue[j]]
    <3>1. p <= Len(queue) /\ due < timeout[queue[p]]
      BY <1>3, <1>4, <2>4
    <3>2. CASE j = p
      BY <3>1, <3>2
    <3>3. CASE j # p
      <4>1. p \in DOMAIN queue /\ j \in DOMAIN queue /\ p < j
        BY <1>3, <1>4, <2>4, <3>1, <3>3
      <4>2. timeout[queue[p]] <= timeout[queue[j]]
        BY <1>3, <2>3, <4>1 DEF QueueOrder
      <4>3. QED
        BY <1>2, <1>3, <2>3, <3>1, <4>1, <4>2
    <3>4. QED
      BY <3>2, <3>3
  <2>5. SUFFICES ASSUME NEW j \in DOMAIN queue', NEW k \in DOMAIN queue', j < k
                 PROVE  \/ timeout'[queue'[j]] < timeout'[queue'[k]]
                        \/ /\ timeout'[queue'[j]] = timeout'[queue'[k]]
                           /\ queue'[j] < queue'[k]
    BY DEF QueueOrder
  <2>6. j \in Nat /\ k \in Nat /\ j \in 1 .. Len(queue) + 1 /\ k \in 1 .. Len(queue) + 1
    BY <1>3, <1>5
  <2>7. CASE j < p /\ k < p
    <3>1. j \in DOMAIN queue /\ k \in DOMAIN queue /\ queue'[j] = queue[j] /\ queue'[k] = queue[k]
      BY <1>3, <1>4, <1>5, <2>6, <2>7
    <3>2. QED
      BY <1>3, <2>1, <2>5, <3>1 DEF QueueOrder
  <2>8. CASE j < p /\ k = p
    <3>1. j \in DOMAIN queue /\ j \in 1 .. p - 1 /\ queue'[j] = queue[j] /\ queue'[k] = id
      BY <1>3, <1>4, <1>5, <2>6, <2>8
    <3>2. due >= timeout[queue[j]] /\ timeout[queue[j]] \in Nat /\ queue[j] < id /\ queue[j] \in Ids
      BY <1>3, <1>4, <2>3, <3>1
    <3>3. timeout'[queue'[j]] = timeout[queue[j]] /\ timeout'[queue'[k]] = due
      BY <1>2, <1>3, <2>1, <2>2, <3>1, <3>2
    <3>4. QED
      BY <1>2, <3>1, <3>2, <3>3
  <2>9. CASE j < p /\ k > p
    <3>1. /\ j \in DOMAIN queue /\ k - 1 \in DOMAIN queue /\ j < k - 1
          /\ queue'[j] = queue[j] /\ queue'[k] = queue[k-1]
      BY <1>3, <1>4, <1>5, <2>6, <2>9
    <3>2. QED
      BY <1>3, <2>1, <3>1 DEF QueueOrder
  <2>10. CASE j = p /\ k > p
    <3>1. k - 1 \in 1 .. Len(queue) /\ p <= k - 1 /\ queue'[j] = id /\ queue'[k] = queue[k-1]
      BY <1>3, <1>4, <1>5, <2>6, <2>10
    <3>2. due < timeout[queue[k-1]]
      BY <2>4, <3>1
    <3>3. timeout'[queue'[j]] = due /\ timeout'[queue'[k]] = timeout[queue[k-1]]
      BY <1>2, <1>3, <2>1, <2>2, <3>1
    <3>4. QED
      BY <3>2, <3>3
  <2>11. CASE j > p
    <3>1. /\ j - 1 \in DOMAIN queue /\ k - 1 \in DOMAIN queue /\ j - 1 < k - 1
          /\ queue'[j] = queue[j-1] /\ queue'[k] = queue[k-1]
      BY <1>3, <1>4, <1>5, <2>5, <2>6, <2>11
    <3>2. QED
      BY <1>3, <2>1, <3>1 DEF QueueOrder
  <2>12. QED
    BY <1>4, <2>5, <2>6, <2>7, <2>8, <2>9, <2>10, <2>11
<1>9. ActiveHead'
  <2>1. CASE queue = <<>> /\ in_use' = [in_use EXCEPT ![id] = FALSE]
    <3>1. Len(queue) = 0 /\ ticker \notin {"sigwait", "relock"}
      BY <2>1 DEF ActiveHead
    <3>2. QED
      BY <1>1, <1>5, <3>1 DEF ActiveHead
  <2>2. CASE queue # <<>> /\ p = 1 /\ TakeOver(id, due)
    <3>1. Len(queue) \in Nat \ {0} /\ Head(queue) = queue[1] /\ queue[1] \in Ids /\ queue[1] # id
      BY <1>2, <1>3, <2>2
    <3>2. in_use' = [in_use EXCEPT ![id] = TRUE, ![queue[1]] = FALSE]
      BY <2>2, <3>1 DEF TakeOver
    <3>3. queue'[1] = id /\ in_use'[id] /\ queue' # <<>> /\ Head(queue') = queue'[1]
      BY <1>2, <1>5, <2>2, <3>1, <3>2 DEF TypeOK
    <3>4. ASSUME NEW k \in DOMAIN queue', k > 1
          PROVE  ~in_use'[queue'[k]]
      <4>1. k - 1 \in DOMAIN queue /\ queue'[k] = queue[k-1] /\ k - 1 \in Nat
        BY <1>3, <1>5, <2>2, <3>4
      <4>2. CASE k - 1 = 1
        BY <3>1, <3>2, <4>1, <4>2 DEF TypeOK
      <4>3. CASE k - 1 # 1
        <5>1. k - 1 > 1 /\ ~in_use[queue[k-1]]
          BY <4>1, <4>3, <1>3 DEF ActiveHead
        <5>2. queue[k-1] \in Ids /\ queue[k-1] # id
          BY <1>2, <1>3, <4>1
        <5>3. QED
          BY <3>1, <3>2, <4>1, <5>1, <5>2 DEF TypeOK
      <4>4. QED
        BY <4>2, <4>3
    <3>5. QED
      BY <3>3, <3>4 DEF ActiveHead
  <2>3. CASE queue # <<>> /\ p > 1 /\ in_use' = [in_use EXCEPT ![id] = FALSE]
    <3>1. /\ Len(queue) \in Nat \ {0} /\ Head(queue) = queue[1]
          /\ queue' # <<>> /\ Head(queue') = queue'[1] /\ queue'[1] = queue[1]
      <4>1. Len(queue) \in Nat \ {0} /\ Head(queue) = queue[1]
        BY <1>3, <2>3
      <4>2. Len(queue') > 0 /\ queue' # <<>>
        BY <1>5, <4>1
      <4>3. Head(queue') = queue'[1]
        BY <1>5, <4>2
      <4>4. queue'[1] = queue[1]
        BY <1>4, <1>5, <2>3, <4>1
      <4>5. QED
        BY <4>1, <4>2, <4>3, <4>4
    <3>2. queue[1] \in Ids /\ queue[1] # id /\ in_use'[queue[1]] = in_use[queue[1]]
      <4>1. 1 \in 1 .. Len(queue)
        BY <3>1
      <4>2. queue[1] \in Ids /\ queue[1] # id
        BY <1>2, <1>3, <4>1
      <4>3. QED
        BY <2>3, <4>2 DEF TypeOK
    <3>3. ASSUME NEW k \in DOMAIN queue', k > 1
          PROVE  ~in_use'[queue'[k]]
      <4>1. CASE k = p
        BY <1>2, <1>4, <1>5, <2>3, <4>1 DEF TypeOK
      <4>2. CASE k # p
        <5>1. PICK i \in DOMAIN queue : i > 1 /\ queue'[k] = queue[i]
          <6>1. CASE k < p
            BY <1>3, <1>4, <1>5, <3>3, <6>1
          <6>2. CASE k > p
            <7>1. k - 1 \in DOMAIN queue /\ k - 1 > 1 /\ queue'[k] = queue[k-1]
              BY <1>3, <1>4, <1>5, <2>3, <6>2
            <7>2. QED
              BY <7>1
          <6>3. QED
            BY <1>3, <1>4, <1>5, <4>2, <6>1, <6>2
        <5>2. ~in_use[queue[i]] /\ queue[i] \in Ids /\ queue[i] # id
          BY <1>2, <1>3, <5>1 DEF ActiveHead
        <5>3. QED
          BY <2>3, <5>1, <5>2 DEF TypeOK
      <4>3. QED
        BY <4>1, <4>2
    <3>4. QED
      BY <1>1, <3>1, <3>2, <3>3 DEF ActiveHead
  <2>4. QED
    BY <1>1, <1>3, <1>4, <2>1, <2>2, <2>3 DEF timer_add, id, due, p
<1>10. NoMissedWakeup'
  <2>1. CASE queue = <<>> /\ woken' = (woken \/ ticker = "cond_wait")
    BY <1>1, <2>1 DEF NoMissedWakeup
  <2>2. CASE queue # <<>> /\ UNCHANGED woken
    BY <1>1, <2>2 DEF NoMissedWakeup
  <2>3. QED
    BY <2>1, <2>2 DEF timer_add, Signal, TakeOver, id, due, p
<1>11. ArgHandedOnce'
  BY <1>1 DEF ArgHandedOnce
<1>12. Bookkeeping'
  <2>1. ASSUME NEW x \in Ids, x # id
        PROVE  /\ handler_arg'[x] = handler_arg[x] /\ cancelled'[x] = cancelled[x]
    BY <1>6, <2>1 DEF TypeOK
  <2>2. handed[id] = 0 /\ id \notin removed /\ cancelled'[id] = FALSE
    BY <1>2, <1>6 DEF Bookkeeping, TypeOK, id
  <2>3. ASSUME NEW k \in DOMAIN queue'
        PROVE  /\ queue'[k] < cur_id'
               /\ handler_arg'[queue'[k]] => handed'[queue'[k]] = 0
               /\ cancelled'[queue'[k]] <=> queue'[k] \in removed'
    <3>1. CASE k = p
      BY <1>1, <1>2, <1>4, <1>5, <1>6, <2>2, <3>1
    <3>2. CASE k # p
      <4>1. PICK i \in DOMAIN queue : queue'[k] = queue[i]
        <5>1. k < p \/ k - 1 \in DOMAIN queue
          BY <1>3, <1>4, <1>5, <3>2
        <5>2. QED
          BY <1>3, <1>4, <1>5, <3>2, <5>1
      <4>2. queue[i] \in Ids /\ queue[i] # id /\ queue[i] < id + 1
        BY <1>2, <1>3
      <4>3. QED
        BY <1>1, <1>6, <2>1, <4>1, <4>2 DEF Bookkeeping
    <3>3. QED
      BY <3>1, <3>2
  <2>4. ASSUME NEW x \in Ids, x >= cur_id'
        PROVE  handed'[x] = 0 /\ x \notin removed'
    <3>1. x \in Nat /\ x >= cur_id
      BY <1>2, <1>6, <2>4, WtpAssumption DEF Ids, id
    <3>2. QED
      BY <1>1, <3>1 DEF Bookkeeping
  <2>5. QED
    BY <2>3, <2>4 DEF Bookkeeping
<1>13. QED
  BY <1>7, <1>8, <1>9, <1>10, <1>11, <1>12

\* Unlinking timers keeps the order of those that stay.
LEMMA Thinned ==
  ASSUME QueueOrder, timeout' = timeout, NEW f,
         \A k \in DOMAIN queue' : f[k] \in DOMAIN queue /\ queue'[k] = queue[f[k]],
         \A j, k \in DOMAIN queue' : j < k => f[j] < f[k]
  PROVE  QueueOrder'
  BY DEF QueueOrder

\* timer_rem marks an active timer and unlinks any other.
LEMMA RemInv ==
  ASSUME IInv, NEW k \in DOMAIN queue, NEW free_arg \in BOOLEAN, timer_rem(k, free_arg)
  PROVE  IInv'
<1> DEFINE id == queue[k]
<1> USE DEF IInv
<1>1. /\ queue \in Seq(Ids) /\ Len(queue) \in Nat /\ DOMAIN queue = 1 .. Len(queue)
      /\ k \in 1 .. Len(queue) /\ id \in Ids
      /\ \A j \in DOMAIN queue : queue[j] \in Ids
  BY DEF TypeOK
<1>2. /\ removed' = removed \cup {id}
      /\ now' = now /\ cur_id' = cur_id /\ timeout' = timeout /\ in_use' = in_use
      /\ alarm' = alarm /\ sigalrm' = sigalrm /\ ticker' = ticker
      /\ woken' = woken /\ hdl' = hdl
      /\ handed' = IF free_arg /\ handler_arg[id]
                   THEN [handed EXCEPT ![id] = @ + 1] ELSE handed
  BY DEF timer_rem, clockVars
<1>3. id < cur_id /\ (handler_arg[id] => handed[id] = 0)
  BY DEF Bookkeeping
<1>4. /\ handed' \in [Ids -> Nat]
      /\ \A x \in Ids : handed'[x] <= 1
      /\ \A x \in Ids : x # id => handed'[x] = handed[x]
  BY <1>1, <1>2, <1>3 DEF TypeOK, ArgHandedOnce
<1>5. \A x \in Ids : x >= cur_id => x # id
  BY <1>1, <1>3, WtpAssumption DEF TypeOK, Ids
<1>6. CASE /\ in_use[id]
           /\ cancelled' = [cancelled EXCEPT ![id] = TRUE]
           /\ handler_arg' = [handler_arg EXCEPT ![id] = @ /\ ~free_arg]
           /\ UNCHANGED queue
  <2>1. TypeOK'
    BY <1>1, <1>2, <1>4, <1>6 DEF TypeOK
  <2>2. QueueOrder' /\ ActiveHead' /\ NoMissedWakeup' /\ ArgHandedOnce'
    BY <1>2, <1>4, <1>6 DEF QueueOrder, ActiveHead, NoMissedWakeup, ArgHandedOnce
  <2>3. ASSUME NEW j \in DOMAIN queue
        PROVE  /\ queue[j] < cur_id
               /\ handler_arg'[queue[j]] => handed'[queue[j]] = 0
               /\ cancelled'[queue[j]] <=> queue[j] \in removed'
    <3>1. CASE queue[j] = id
      <4>1. cancelled'[id] /\ id \in removed'
        BY <1>1, <1>2, <1>6 DEF TypeOK
      <4>2. handler_arg'[id] => handler_arg[id] /\ ~free_arg
        BY <1>1, <1>6 DEF TypeOK
      <4>3. QED
        BY <1>2, <1>3, <3>1, <4>1, <4>2
    <3>2. CASE queue[j] # id
      <4>1. queue[j] \in Ids
        BY <1>1
      <4>2. cancelled'[queue[j]] = cancelled[queue[j]] /\ handler_arg'[queue[j]] = handler_arg[queue[j]]
        BY <1>1, <1>6, <3>2, <4>1 DEF TypeOK
      <4>3. QED
        BY <1>2, <1>4, <3>2, <4>1, <4>2 DEF Bookkeeping
    <3>3. QED
      BY <3>1, <3>2
  <2>4. Bookkeeping'
    BY <1>2, <1>4, <1>5, <1>6, <2>3 DEF Bookkeeping
  <2>5. QED
    BY <2>1, <2>2, <2>4
<1>7. CASE /\ ~in_use[id]
           /\ queue' = RemoveAt(queue, k)
           /\ UNCHANGED <<cancelled, handler_arg>>
  <2> DEFINE f == [j \in 1 .. Len(queue) - 1 |-> IF j < k THEN j ELSE j + 1]
  <2>1. /\ queue' \in Seq(Ids)
        /\ Len(queue') = Len(queue) - 1
        /\ DOMAIN queue' = 1 .. Len(queue) - 1
        /\ \A j \in 1 .. Len(queue) - 1 : queue'[j] = IF j < k THEN queue[j] ELSE queue[j+1]
    <3>1. /\ RemoveAt(queue, k) \in Seq(Ids)
          /\ Len(RemoveAt(queue, k)) = Len(queue) - 1
          /\ \A j \in 1 .. Len(queue) - 1 :
               RemoveAt(queue, k)[j] = IF j < k THEN queue[j] ELSE queue[j+1]
      BY <1>1, RemoveAtProps
    <3>2. QED
      BY <1>7, <3>1, SMTT(60)
  <2>2. \A j \in DOMAIN queue' :
          /\ f[j] \in DOMAIN queue /\ queue'[j] = queue[f[j]] /\ f[j] # k
    BY <1>1, <2>1
  <2>3. \A i, j \in DOMAIN queue' : i < j => f[i] < f[j]
    BY <1>1, <2>1
  <2>4. ASSUME NEW j \in DOMAIN queue', j > 1
        PROVE  f[j] > 1
    BY <1>1, <2>1, <2>4
  <2> HIDE DEF f
  <2>5. TypeOK'
    BY <1>1, <1>2, <1>4, <1>7, <2>1 DEF TypeOK
  <2>6. QueueOrder'
    BY <1>2, <2>2, <2>3, Thinned
  <2>7. ActiveHead'
    <3>1. \A j \in DOMAIN queue' : j > 1 => ~in_use'[queue'[j]]
      BY <1>2, <2>2, <2>4 DEF ActiveHead
    <3>2. ASSUME ticker \in {"sigwait", "relock"}
          PROVE  queue' # <<>> /\ in_use'[Head(queue')]
      <4>1. queue # <<>> /\ in_use[Head(queue)] /\ Head(queue) = queue[1]
        BY <1>1, <3>2 DEF ActiveHead
      <4>2. k > 1
        BY <1>1, <1>7, <4>1
      <4>3. Len(queue') > 0 /\ queue'[1] = queue[1]
        BY <1>1, <2>1, <4>2
      <4>4. queue' # <<>> /\ Head(queue') = queue'[1]
        BY <2>1, <4>3
      <4>5. QED
        BY <1>2, <4>1, <4>3, <4>4
    <3>3. QED
      BY <1>2, <3>1, <3>2 DEF ActiveHead
  <2>8. NoMissedWakeup'
    <3>1. queue # <<>>
      BY <1>1
    <3>2. QED
      BY <1>2, <3>1 DEF NoMissedWakeup
  <2>9. ArgHandedOnce'
    BY <1>2, <1>4 DEF ArgHandedOnce
  <2>10. Bookkeeping'
    <3>1. ASSUME NEW j \in DOMAIN queue'
          PROVE  queue'[j] \in Ids /\ queue'[j] # id /\ \E i \in DOMAIN queue : queue'[j] = queue[i]
      BY <1>1, <2>2, DistinctIds
    <3>2. QED
      BY <1>2, <1>4, <1>5, <1>7, <3>1 DEF Bookkeeping
  <2>11. QED
    BY <2>5, <2>6, <2>7, <2>8, <2>9, <2>10
<1>8. QED
  BY <1>6, <1>7 DEF timer_rem, MarkCancelled

\* The ticker waits on an empty queue, or makes the head active.
LEMMA ArmInv ==
  ASSUME IInv, ArmOrWait, ticker \in {"lock", "cond_wait"},
         UNCHANGED <<now, queue, cur_id, timeout, cancelled, handler_arg, sigalrm, hdl, history>>
  PROVE  IInv'
<1> USE DEF IInv
<1>1. /\ now' = now /\ queue' = queue /\ cur_id' = cur_id /\ timeout' = timeout
      /\ cancelled' = cancelled /\ handler_arg' = handler_arg /\ sigalrm' = sigalrm
      /\ hdl' = hdl /\ removed' = removed /\ handed' = handed
  BY DEF history
<1>2. QueueOrder' /\ ArgHandedOnce' /\ Bookkeeping'
  BY <1>1 DEF QueueOrder, ArgHandedOnce, Bookkeeping
<1>3. CASE queue = <<>> /\ ticker' = "cond_wait" /\ woken' = FALSE
           /\ UNCHANGED <<alarm, in_use>>
  <2>1. TypeOK'
    BY <1>1, <1>3 DEF TypeOK, TickerStates
  <2>2. ActiveHead' /\ NoMissedWakeup'
    BY <1>1, <1>3 DEF ActiveHead, NoMissedWakeup
  <2>3. QED
    BY <1>2, <2>1, <2>2
<1>4. CASE /\ queue # <<>>
           /\ alarm' = timer_start(timeout[Head(queue)])
           /\ in_use' = [in_use EXCEPT ![Head(queue)] = TRUE]
           /\ ticker' = "sigwait"
           /\ UNCHANGED woken
  <2>1. /\ Len(queue) > 0 /\ Head(queue) = queue[1] /\ queue[1] \in Ids
        /\ 1 \in DOMAIN queue /\ DOMAIN queue \subseteq Nat
    BY <1>4 DEF TypeOK
  <2>2. alarm' \in {Off} \cup 0 .. Horizon
    <3>1. timeout[Head(queue)] \in 0 .. Horizon /\ now \in 0 .. Horizon
      BY <2>1 DEF TypeOK
    <3>2. QED
      BY <1>4, <3>1, timer_start_Type
  <2>3. TypeOK'
    BY <1>1, <1>4, <2>1, <2>2 DEF TypeOK, TickerStates
  <2>4. ASSUME NEW k \in DOMAIN queue, k > 1
        PROVE  ~in_use'[queue[k]]
    <3>1. queue[k] # queue[1]
      BY <2>1, <2>4, DistinctIds
    <3>2. queue[k] \in Ids
      BY DEF TypeOK
    <3>3. QED
      BY <1>4, <2>1, <2>4, <3>1, <3>2 DEF TypeOK, ActiveHead
  <2>5. in_use'[Head(queue)]
    BY <1>4, <2>1 DEF TypeOK
  <2>6. ActiveHead' /\ NoMissedWakeup'
    BY <1>1, <1>4, <2>4, <2>5 DEF ActiveHead, NoMissedWakeup
  <2>7. QED
    BY <1>2, <2>3, <2>6
<1>5. QED
  BY <1>3, <1>4 DEF ArmOrWait

\* The ticker takes the signal; the head is still active when it relocks.
LEMMA SigwaitInv == IInv /\ TickerSigwait => IInv'
<1> SUFFICES ASSUME IInv, TickerSigwait PROVE IInv'
  OBVIOUS
<1> USE DEF IInv
<1>1. TypeOK'
  BY DEF TypeOK, TickerStates, TickerSigwait, timerVars, history
<1>2. QueueOrder' /\ ActiveHead' /\ NoMissedWakeup' /\ ArgHandedOnce' /\ Bookkeeping'
  BY DEF TickerSigwait, timerVars, history, QueueOrder, ActiveHead, NoMissedWakeup,
         ArgHandedOnce, Bookkeeping
<1>3. QED
  BY <1>1, <1>2

\* The head of a queue that has one, and what is left without it.
LEMMA HeadAndTail ==
  ASSUME TypeOK, queue # <<>>
  PROVE  /\ 1 \in DOMAIN queue /\ Head(queue) = queue[1] /\ Head(queue) \in Ids
         /\ Tail(queue) \in Seq(Ids)
         /\ DOMAIN queue = 1 .. Len(queue) /\ Len(queue) \in Nat \ {0}
         /\ DOMAIN Tail(queue) = 1 .. Len(queue) - 1
         /\ \A k \in DOMAIN Tail(queue) :
              k \in Nat \ {0} /\ k + 1 \in DOMAIN queue /\ Tail(queue)[k] = queue[k+1]
<1>1. queue \in Seq(Ids)
  BY DEF TypeOK
<1>2. Len(queue) \in Nat \ {0}
  BY <1>1
<1>3. /\ Tail(queue) \in Seq(Ids) /\ Len(Tail(queue)) = Len(queue) - 1
      /\ \A k \in 1 .. Len(Tail(queue)) : Tail(queue)[k] = queue[k+1]
  BY <1>1, HeadTailProperties
<1>4. QED
  BY <1>1, <1>2, <1>3

\* When the ticker unlinks the head, the rest of the invariant about the queue
\* survives for the timers behind it.
LEMMA UnlinkHead ==
  ASSUME IInv, ticker = "relock", queue' = Tail(queue), timeout' = timeout,
         in_use' = in_use, cancelled' = cancelled, handler_arg' = handler_arg,
         cur_id' = cur_id, removed' = removed, ticker' \in {"lock", "handler"},
         \A id \in Ids : handed'[id] = handed[id] \/ id = Head(queue),
         handed' \in [Ids -> Nat]
  PROVE  QueueOrder' /\ ActiveHead' /\ NoMissedWakeup' /\ Bookkeeping'
<1> USE DEF IInv
<1>1. queue # <<>>
  BY DEF ActiveHead
<1>2. /\ 1 \in DOMAIN queue /\ Head(queue) = queue[1] /\ Head(queue) \in Ids
      /\ \A k \in DOMAIN queue' :
           k \in Nat \ {0} /\ k + 1 \in DOMAIN queue /\ queue'[k] = queue[k+1]
  BY <1>1, HeadAndTail
<1>3. QueueOrder'
  <2> DEFINE f == [k \in DOMAIN queue' |-> k + 1]
  <2>1. \A k \in DOMAIN queue' : f[k] \in DOMAIN queue /\ queue'[k] = queue[f[k]]
    BY <1>2
  <2>2. \A j, k \in DOMAIN queue' : j < k => f[j] < f[k]
    BY <1>2
  <2> HIDE DEF f
  <2>3. QED
    BY <2>1, <2>2, Thinned
<1>4. ActiveHead'
  BY <1>2 DEF ActiveHead
<1>5. NoMissedWakeup'
  BY DEF NoMissedWakeup
<1>6. Bookkeeping'
  <2>1. ASSUME NEW k \in DOMAIN queue'
        PROVE  queue'[k] \in Ids /\ handed'[queue'[k]] = handed[queue'[k]]
    <3>1. k + 1 # 1 /\ k + 1 \in DOMAIN queue /\ queue'[k] = queue[k+1]
      BY <1>2
    <3>2. queue[k+1] # queue[1] /\ queue[k+1] \in Ids
      <4>1. k + 1 \in DOMAIN queue /\ 1 \in DOMAIN queue /\ TypeOK /\ QueueOrder
        BY <1>2, <3>1
      <4> DEFINE i == k + 1
      <4>2. i # 1 /\ i \in DOMAIN queue
        BY <3>1
      <4> HIDE DEF i
      <4>3. queue[i] # queue[1]
        BY <4>1, <4>2, DistinctIds
      <4>4. queue[i] \in Ids
        BY <4>1, <4>2 DEF TypeOK
      <4>5. QED
        BY <4>3, <4>4 DEF i
    <3>3. QED
      BY <1>2, <3>1, <3>2
  <2>2. \A k \in DOMAIN queue' : \E i \in DOMAIN queue : queue'[k] = queue[i]
    BY <1>2
  <2>3. \A id \in Ids : id >= cur_id => handed'[id] = handed[id]
    <3>1. Head(queue) < cur_id
      BY <1>2 DEF Bookkeeping
    <3>2. QED
      BY <1>2, <3>1, WtpAssumption DEF TypeOK, Ids
  <2>4. QED
    BY <2>1, <2>2, <2>3 DEF Bookkeeping
<1>7. QED
  BY <1>3, <1>4, <1>5, <1>6

LEMMA DropInv == IInv /\ TickerDrop => IInv'
<1> SUFFICES ASSUME IInv, TickerDrop PROVE IInv'
  OBVIOUS
<1>1. /\ TypeOK /\ queue # <<>> /\ handed \in [Ids -> Nat]
  BY DEF IInv, ActiveHead, TypeOK, TickerDrop
<1>2. Tail(queue) \in Seq(Ids)
  BY <1>1, HeadAndTail
<1>3. TypeOK'
  BY <1>1, <1>2 DEF TypeOK, TickerStates, TickerDrop, timerVars, clockVars, history
<1>4. QueueOrder' /\ ActiveHead' /\ NoMissedWakeup' /\ Bookkeeping'
  BY <1>1, UnlinkHead DEF TickerDrop, timerVars, history
<1>5. ArgHandedOnce'
  BY DEF IInv, ArgHandedOnce, TickerDrop, history
<1>6. QED
  BY <1>3, <1>4, <1>5 DEF IInv

\* The head's argument, if timer_rem left it, is handed out here for the first time.
LEMMA FireInv == IInv /\ TickerFire => IInv'
<1> SUFFICES ASSUME IInv, TickerFire PROVE IInv'
  OBVIOUS
<1> DEFINE id == Head(queue)
<1>1. TypeOK /\ queue # <<>>
  BY DEF IInv, ActiveHead, TickerFire
<1>2. Tail(queue) \in Seq(Ids) /\ id \in Ids /\ id = queue[1] /\ 1 \in DOMAIN queue
  BY <1>1, HeadAndTail
<1>3. /\ ticker = "relock" /\ queue' = Tail(queue) /\ hdl' = id /\ ticker' = "handler"
      /\ now' = now /\ cur_id' = cur_id /\ timeout' = timeout /\ in_use' = in_use
      /\ cancelled' = cancelled /\ handler_arg' = handler_arg /\ alarm' = alarm
      /\ sigalrm' = sigalrm /\ woken' = woken /\ removed' = removed
      /\ handed' = IF handler_arg[id] THEN [handed EXCEPT ![id] = @ + 1] ELSE handed
  BY DEF TickerFire, timerVars, clockVars
<1>4. handler_arg[id] => handed[id] = 0
  BY <1>2 DEF IInv, Bookkeeping
<1> HIDE DEF id
<1>5. /\ handed' \in [Ids -> Nat]
      /\ \A x \in Ids : handed'[x] = handed[x] \/ x = id
      /\ \A x \in Ids : handed'[x] <= 1
  BY <1>1, <1>2, <1>3, <1>4 DEF TypeOK, IInv, ArgHandedOnce
<1>6. TypeOK'
  <2>1. id # None
    BY <1>2, WtpAssumption DEF Ids, None
  <2>2. QED
    BY <1>1, <1>2, <1>3, <1>5, <2>1 DEF TypeOK, TickerStates
<1>7. QueueOrder' /\ ActiveHead' /\ NoMissedWakeup' /\ Bookkeeping'
  BY <1>3, <1>5, UnlinkHead DEF id
<1>8. QED
  BY <1>5, <1>6, <1>7 DEF IInv, ArgHandedOnce

LEMMA ReturnInv == IInv /\ HandlerReturn => IInv'
<1> SUFFICES ASSUME IInv, HandlerReturn PROVE IInv'
  OBVIOUS
<1> USE DEF IInv
<1>1. TypeOK'
  BY DEF TypeOK, TickerStates, HandlerReturn, timerVars, clockVars, history
<1>2. QueueOrder' /\ ActiveHead' /\ NoMissedWakeup' /\ ArgHandedOnce' /\ Bookkeeping'
  BY DEF HandlerReturn, timerVars, history, QueueOrder, ActiveHead, NoMissedWakeup,
         ArgHandedOnce, Bookkeeping
<1>3. QED
  BY <1>1, <1>2

LEMMA KernelInv == IInv /\ (Expire \/ Tick \/ UNCHANGED vars) => IInv'
<1> SUFFICES ASSUME IInv, Expire \/ Tick \/ UNCHANGED vars PROVE IInv'
  OBVIOUS
<1> USE DEF IInv
<1>1. TypeOK'
  <2>1. CASE Expire
    BY <2>1 DEF TypeOK, Expire, timerVars, history
  <2>2. CASE Tick
    <3>1. now' \in 0 .. Horizon
      BY <2>2, WtpAssumption DEF TypeOK, Tick
    <3>2. QED
      BY <2>2, <3>1 DEF TypeOK, Tick, timerVars, clockVars, history
  <2>3. CASE UNCHANGED vars
    BY <2>3 DEF TypeOK, vars, timerVars, clockVars, history
  <2>4. QED
    BY <2>1, <2>2, <2>3
<1>2. QueueOrder' /\ ActiveHead' /\ NoMissedWakeup' /\ ArgHandedOnce' /\ Bookkeeping'
  BY DEF Expire, Tick, vars, timerVars, clockVars, history, QueueOrder, ActiveHead,
         NoMissedWakeup, ArgHandedOnce, Bookkeeping
<1>3. QED
  BY <1>1, <1>2

LEMMA Inductive == IInv /\ [Next]_vars => IInv'
<1> SUFFICES ASSUME IInv, [Next]_vars PROVE IInv'
  OBVIOUS
<1>1. ASSUME NEW d \in Delays, NEW lag \in Lags, timer_add(d, lag) PROVE IInv'
  BY <1>1, AddInv
<1>2. ASSUME NEW k \in DOMAIN queue, NEW free_arg \in BOOLEAN, timer_rem(k, free_arg)
      PROVE  IInv'
  BY <1>2, RemInv
<1>3. CASE TickerLock \/ TickerWake
  BY <1>3, ArmInv DEF TickerLock, TickerWake
<1>4. CASE TickerSigwait
  BY <1>4, SigwaitInv
<1>5. CASE TickerDrop
  BY <1>5, DropInv
<1>6. CASE TickerFire
  BY <1>6, FireInv
<1>7. CASE HandlerReturn
  BY <1>7, ReturnInv
<1>8. CASE Expire \/ Tick \/ UNCHANGED vars
  BY <1>8, KernelInv
<1>9. QED
  BY <1>1, <1>2, <1>3, <1>4, <1>5, <1>6, <1>7, <1>8 DEF Next

\* The invariant that the safety theorems below take their parts from.
THEOREM Invariance == Spec => []IInv
  BY InitInv, Inductive, PTL DEF Spec

\* Every reachable state of the library is well typed.
THEOREM TypeCorrect == Spec => []TypeOK
<1>1. IInv => TypeOK
  BY DEF IInv
<1>2. QED
  BY <1>1, Invariance, PTL

\* The queue is always sorted by timeout and then by call (timer_add, lines
\* 374-413), for any number of timers.
THEOREM QueueSorted == Spec => []QueueOrder
<1>1. IInv => QueueOrder
  BY DEF IInv
<1>2. QED
  BY <1>1, Invariance, PTL

\* The ticker never relocks to find the timer it armed gone: line 205 reads an
\* active head (timer_rem, lines 439-456).
THEOREM HeadStays == Spec => []ActiveHead
<1>1. IInv => ActiveHead
  BY DEF IInv
<1>2. QED
  BY <1>1, Invariance, PTL

\* Signalling on the empty queue only (lines 362-368) loses no wake-up.
THEOREM WakeupReaches == Spec => []NoMissedWakeup
<1>1. IInv => NoMissedWakeup
  BY DEF IInv
<1>2. QED
  BY <1>1, Invariance, PTL

\* No argument is freed twice, or freed and then given to its handler
\* (lines 445-459 and 216-217).
THEOREM NoDoubleFree == Spec => []ArgHandedOnce
<1>1. IInv => ArgHandedOnce
  BY DEF IInv
<1>2. QED
  BY <1>1, Invariance, PTL

\* A timer still in the queue is marked cancelled exactly when timer_rem was
\* called for it, and only then can the ticker drop it (lines 205-210, 449-453).
THEOREM MarksAreRight == Spec => []Bookkeeping
<1>1. IInv => Bookkeeping
  BY DEF IInv
<1>2. QED
  BY <1>1, Invariance, PTL

-----------------------------------------------------------------------------
(* WtpTimer implements TimerService                                        *)

LEMMA ServiceInit == Init => Service!Init
<1>1. ASSUME Init PROVE Pending = {}
  BY <1>1 DEF Init, Pending, Live, ToSet
<1>2. QED
  BY <1>1 DEF Init, Service!Init, None, Service!None

\* A timer in the queue is live until timer_rem is called for it.
LEMMA AddService ==
  ASSUME IInv, NEW d \in Delays, NEW lag \in Lags, timer_add(d, lag)
  PROVE  Service!Next
<1> DEFINE id == cur_id
           due == now + d - lag
           p == Position(queue, due)
<1> USE DEF IInv
<1>1. /\ cur_id < MaxTimers /\ due <= Horizon /\ lag <= now
      /\ cur_id' = id + 1
      /\ timeout' = [timeout EXCEPT ![id] = due]
      /\ queue' = InsertAt(queue, p, id)
      /\ hdl' = hdl /\ removed' = removed
  BY DEF timer_add, NewTimer, history
<1>2. id \in Ids /\ due \in Nat /\ due \in 0 .. Horizon
  BY <1>1, WtpAssumption DEF TypeOK, Ids
<1>3. /\ queue \in Seq(Ids) /\ Len(queue) \in Nat /\ DOMAIN queue = 1 .. Len(queue)
      /\ \A k \in DOMAIN queue : queue[k] \in Ids /\ queue[k] # id
      /\ id \notin removed
  <2>1. \A k \in DOMAIN queue : queue[k] < id /\ queue[k] \in Ids
    BY DEF TypeOK, Bookkeeping
  <2>2. \A x \in Ids : x < id => x # id
    BY <1>2, WtpAssumption DEF Ids
  <2>3. id \notin removed
    <3>1. id >= cur_id
      BY <1>2, WtpAssumption DEF Ids
    <3>2. QED
      BY <1>2, <3>1 DEF Bookkeeping
  <2>4. queue \in Seq(Ids) /\ Len(queue) \in Nat /\ DOMAIN queue = 1 .. Len(queue)
    BY DEF TypeOK
  <2>5. QED
    BY <2>1, <2>2, <2>3, <2>4
<1>4. p \in 1 .. Len(queue) + 1
  BY <1>2, PositionProps
<1> HIDE DEF id, due, p
<1>5. ToSet(queue') = ToSet(queue) \cup {id}
  <2>1. /\ queue' \in Seq(Ids) /\ Len(queue') = Len(queue) + 1
        /\ \A j \in 1 .. Len(queue)+1 : queue'[j] =
             IF j < p THEN queue[j] ELSE IF j = p THEN id ELSE queue[j-1]
    <3>1. /\ InsertAt(queue, p, id) \in Seq(Ids)
          /\ Len(InsertAt(queue, p, id)) = Len(queue) + 1
          /\ \A j \in 1 .. Len(queue)+1 : InsertAt(queue, p, id)[j] =
               IF j < p THEN queue[j] ELSE IF j = p THEN id ELSE queue[j-1]
      BY <1>2, <1>3, <1>4, InsertAtProps, SMTT(60)
    <3>2. QED
      BY <1>1, <3>1
  <2>2. DOMAIN queue' = 1 .. Len(queue) + 1
    BY <2>1
  <2>3. ASSUME NEW j \in DOMAIN queue'
        PROVE  queue'[j] = id \/ \E i \in DOMAIN queue : queue'[j] = queue[i]
    <3>1. j < p \/ j = p \/ j - 1 \in DOMAIN queue
      BY <1>3, <1>4, <2>2
    <3>2. QED
      BY <1>3, <1>4, <2>1, <2>2, <3>1
  <2>4. queue'[p] = id /\ p \in DOMAIN queue'
    BY <1>3, <1>4, <2>1, <2>2
  <2>5. ASSUME NEW i \in DOMAIN queue
        PROVE  \E j \in DOMAIN queue' : queue'[j] = queue[i]
    <3>1. CASE i < p
      BY <1>3, <2>1, <2>2, <3>1
    <3>2. CASE ~(i < p)
      <4>1. i + 1 \in DOMAIN queue' /\ queue'[i+1] = queue[i]
        BY <1>3, <1>4, <2>1, <2>2, <3>2
      <4>2. QED
        BY <4>1
    <3>3. QED
      BY <3>1, <3>2
  <2>6. QED
    BY <2>3, <2>4, <2>5 DEF ToSet
<1>6. Live' = Live \cup {id} /\ id \notin Live
  BY <1>1, <1>3, <1>5 DEF Live, ToSet
<1>7. \A x \in Live : x \in Ids /\ x # id
  BY <1>3 DEF Live, ToSet
<1>8. timeout'[id] = due /\ \A x \in Live : timeout'[x] = timeout[x]
  BY <1>1, <1>2, <1>7 DEF TypeOK
<1>9. Pending' = Pending \cup {<<due, id>>}
  BY <1>6, <1>8 DEF Pending
<1>10. Service!Add(due)
  BY <1>1, <1>9 DEF Service!Add, id
<1>11. QED
  BY <1>2, <1>10 DEF Service!Next

\* Taking an id out of the live ones takes its timer, and no other, out of
\* the pending ones.
LEMMA PendingWithout ==
  ASSUME timeout' = timeout, NEW id, Live' = Live \ {id}
  PROVE  Pending' = Pending \ {<<timeout[id], id>>}
  BY DEF Pending

LEMMA RemService ==
  ASSUME IInv, NEW k \in DOMAIN queue, NEW free_arg \in BOOLEAN, timer_rem(k, free_arg)
  PROVE  Service!Next \/ UNCHANGED Service!vars
<1> DEFINE id == queue[k]
<1> USE DEF IInv
<1>1. /\ queue \in Seq(Ids) /\ Len(queue) \in Nat /\ DOMAIN queue = 1 .. Len(queue)
      /\ id \in ToSet(queue)
  BY DEF TypeOK, ToSet
<1>2. removed' = removed \cup {id} /\ timeout' = timeout /\ cur_id' = cur_id /\ hdl' = hdl
  BY DEF timer_rem
<1>3. ToSet(queue') \cup {id} = ToSet(queue)
  <2>1. CASE UNCHANGED queue
    BY <1>1, <2>1
  <2>2. CASE queue' = RemoveAt(queue, k)
    <3>1. /\ queue' \in Seq(Ids) /\ Len(queue') = Len(queue) - 1
          /\ \A j \in 1 .. Len(queue) - 1 :
               queue'[j] = IF j < k THEN queue[j] ELSE queue[j+1]
      BY <1>1, <2>2, RemoveAtProps
    <3>2. DOMAIN queue' = 1 .. Len(queue) - 1
      BY <3>1
    <3>3. ASSUME NEW j \in DOMAIN queue' PROVE queue'[j] \in ToSet(queue)
      <4>1. j \in DOMAIN queue /\ j + 1 \in DOMAIN queue
        BY <1>1, <3>2
      <4>2. QED
        BY <3>1, <3>2, <4>1 DEF ToSet
    <3>4. ASSUME NEW i \in DOMAIN queue, i # k
          PROVE  \E j \in DOMAIN queue' : queue'[j] = queue[i]
      <4>1. CASE i < k
        BY <1>1, <3>1, <3>2, <4>1
      <4>2. CASE i > k
        <5>1. i - 1 \in DOMAIN queue' /\ queue'[i-1] = queue[i]
          BY <1>1, <3>1, <3>2, <4>2
        <5>2. QED
          BY <5>1
      <4>3. QED
        BY <1>1, <3>4, <4>1, <4>2
    <3>5. QED
      BY <1>1, <3>3, <3>4, SMTT(60) DEF ToSet
  <2>3. QED
    BY <2>1, <2>2 DEF timer_rem
<1>4. Live' = Live \ {id}
  BY <1>2, <1>3 DEF Live
<1> DEFINE t == <<timeout[id], id>>
<1>5. Pending' = Pending \ {t}
  BY <1>2, <1>4, PendingWithout
<1>6. CASE t \in Pending
  BY <1>2, <1>5, <1>6 DEF Service!Next, Service!Remove
<1>7. CASE t \notin Pending
  BY <1>2, <1>5, <1>7 DEF Service!vars
<1>8. QED
  BY <1>6, <1>7

\* Behind the head are the ids of the queue without the head's.
LEMMA TailIds ==
  ASSUME TypeOK, QueueOrder, queue # <<>>, queue' = Tail(queue)
  PROVE  ToSet(queue') = ToSet(queue) \ {Head(queue)}
<1>1. /\ 1 \in DOMAIN queue /\ Head(queue) = queue[1]
      /\ DOMAIN queue = 1 .. Len(queue) /\ Len(queue) \in Nat \ {0}
      /\ DOMAIN queue' = 1 .. Len(queue) - 1
      /\ \A k \in DOMAIN queue' : k + 1 \in DOMAIN queue /\ queue'[k] = queue[k+1]
  BY HeadAndTail
<1>2. \A i \in DOMAIN queue : i # 1 => queue[i] # queue[1]
  BY <1>1, DistinctIds
<1>3. ASSUME NEW k \in DOMAIN queue'
      PROVE  queue'[k] \in ToSet(queue) \ {Head(queue)}
  <2>1. k + 1 # 1 /\ k + 1 \in DOMAIN queue /\ queue'[k] = queue[k+1]
    BY <1>1
  <2>2. QED
    BY <1>1, <1>2, <2>1 DEF ToSet
<1>4. ASSUME NEW i \in DOMAIN queue, i # 1
      PROVE  \E k \in DOMAIN queue' : queue'[k] = queue[i]
  <2>1. i - 1 \in DOMAIN queue' /\ (i - 1) + 1 = i
    BY <1>1, <1>4
  <2>2. queue'[i-1] = queue[i]
    BY <1>1, <2>1
  <2>3. QED
    BY <2>1, <2>2
<1>5. QED
  BY <1>1, <1>3, <1>4 DEF ToSet

\* Dropping a cancelled head is invisible: it was removed long before.
LEMMA DropService == IInv /\ TickerDrop => UNCHANGED Service!vars
<1> SUFFICES ASSUME IInv, TickerDrop PROVE UNCHANGED Service!vars
  OBVIOUS
<1>1. /\ TypeOK /\ QueueOrder /\ queue # <<>> /\ queue' = Tail(queue)
      /\ cancelled[Head(queue)] /\ timeout' = timeout /\ removed' = removed
      /\ cur_id' = cur_id /\ hdl' = hdl
  BY DEF IInv, ActiveHead, TickerDrop, timerVars, history
<1>2. Head(queue) \in removed
  BY <1>1, HeadAndTail DEF IInv, Bookkeeping
<1>3. ToSet(queue') = ToSet(queue) \ {Head(queue)}
  BY <1>1, TailIds
<1>4. Live' = Live
  BY <1>1, <1>2, <1>3 DEF Live
<1>5. Pending' = Pending
  BY <1>1, <1>4 DEF Pending
<1>6. QED
  BY <1>1, <1>5 DEF Service!vars

\* The timer whose handler runs is the pending one that is due first.
LEMMA FireService == IInv /\ TickerFire => Service!Next
<1> SUFFICES ASSUME IInv, TickerFire PROVE Service!Next
  OBVIOUS
<1> DEFINE id == Head(queue)
           t == <<timeout[id], id>>
<1>1. /\ TypeOK /\ QueueOrder /\ queue # <<>> /\ queue' = Tail(queue)
      /\ ~cancelled[id] /\ timeout' = timeout /\ removed' = removed
      /\ cur_id' = cur_id /\ hdl' = id /\ ticker = "relock"
  BY DEF IInv, ActiveHead, TickerFire, timerVars
<1>2. 1 \in DOMAIN queue /\ id = queue[1] /\ DOMAIN queue = 1 .. Len(queue)
  BY <1>1, HeadAndTail
<1>3. id \in Live
  BY <1>1, <1>2 DEF IInv, Bookkeeping, Live, ToSet
<1>4. Live' = Live \ {id}
  BY <1>1, TailIds DEF Live
<1>5. t \in Pending /\ Pending' = Pending \ {t}
  BY <1>1, <1>3, <1>4, PendingWithout DEF Pending
<1>6. hdl = Service!None
  BY <1>1 DEF TypeOK, None, Service!None
<1>7. ASSUME NEW s \in Pending \ {t}
      PROVE  Service!Before(t, s)
  <2>1. PICK x \in Live : s = <<timeout[x], x>>
    BY DEF Pending
  <2>2. PICK k \in DOMAIN queue : x = queue[k]
    BY <2>1 DEF Live, ToSet
  <2>3. k # 1
    BY <1>2, <1>7, <2>1, <2>2
  <2>4. 1 < k
    BY <1>1, <1>2, <2>2, <2>3 DEF TypeOK
  <2>5. timeout[id] < timeout[x] \/ (timeout[id] = timeout[x] /\ id < x)
    BY <1>1, <1>2, <2>2, <2>4 DEF QueueOrder
  <2>6. QED
    BY <2>1, <2>5 DEF Service!Before
<1>8. Service!Fire(t)
  BY <1>1, <1>5, <1>6, <1>7 DEF Service!Fire
<1>9. QED
  BY <1>5, <1>8 DEF Service!Next

\* The remaining steps change nothing a caller can see, except that the handler returns.
LEMMA OtherService ==
  ASSUME IInv, TickerLock \/ TickerWake \/ TickerSigwait \/ Expire \/ Tick \/ UNCHANGED vars
  PROVE  UNCHANGED Service!vars
<1>1. /\ queue' = queue /\ timeout' = timeout /\ removed' = removed
      /\ cur_id' = cur_id /\ hdl' = hdl
  BY DEF TickerLock, TickerWake, TickerSigwait, Expire, Tick, vars, timerVars, history
<1>2. QED
  BY <1>1 DEF Service!vars, Pending, Live

LEMMA ReturnService == IInv /\ HandlerReturn => Service!Next
<1> SUFFICES ASSUME IInv, HandlerReturn PROVE Service!Next
  OBVIOUS
<1>1. /\ queue' = queue /\ timeout' = timeout /\ removed' = removed
      /\ cur_id' = cur_id /\ hdl' = None /\ hdl # None
  BY DEF HandlerReturn, timerVars, history, IInv, TypeOK
<1>2. Pending' = Pending
  BY <1>1 DEF Pending, Live
<1>3. QED
  BY <1>1, <1>2 DEF Service!Next, Service!Return, None, Service!None

LEMMA ServiceStep == IInv /\ [Next]_vars => [Service!Next]_Service!vars
<1> SUFFICES ASSUME IInv, [Next]_vars PROVE Service!Next \/ UNCHANGED Service!vars
  OBVIOUS
<1>1. ASSUME NEW d \in Delays, NEW lag \in Lags, timer_add(d, lag) PROVE Service!Next
  BY <1>1, AddService
<1>2. ASSUME NEW k \in DOMAIN queue, NEW free_arg \in BOOLEAN, timer_rem(k, free_arg)
      PROVE  Service!Next \/ UNCHANGED Service!vars
  BY <1>2, RemService
<1>3. CASE TickerLock \/ TickerWake \/ TickerSigwait \/ Expire \/ Tick \/ UNCHANGED vars
  BY <1>3, OtherService
<1>4. CASE TickerDrop
  BY <1>4, DropService
<1>5. CASE TickerFire
  BY <1>5, FireService
<1>6. CASE HandlerReturn
  BY <1>6, ReturnService
<1>7. QED
  BY <1>1, <1>2, <1>3, <1>4, <1>5, <1>6 DEF Next

\* The library implements the timer service of wtp_timerlib.h: a removed timer
\* never fires, none fires twice, and handlers run one at a time, earliest deadline
\* first, whatever the interleaving of callers, ticker and signals.
THEOREM Refinement == Spec => ServiceSpec
  BY ServiceInit, ServiceStep, Invariance, PTL DEF Spec, ServiceSpec, Service!Spec
=============================================================================
