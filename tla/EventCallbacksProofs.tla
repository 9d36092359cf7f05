------------------------ MODULE EventCallbacksProofs ------------------------
(***************************************************************************)
(* Proofs about EventCallbacks, for any targets, callbacks and table       *)
(* sizes, and dispatches nested to any depth.                              *)
(***************************************************************************)
EXTENDS EventCallbacks, SequenceFacts, FiniteSetTheorems, TLAPS

-----------------------------------------------------------------------------
(* Two halves of the invariant: the lists of Callbacks, and the dispatches *)

Pool ==
  /\ cbs \in [Addrs -> Seq(Slots)]
  /\ free \in Seq(Slots)
  /\ key \in [Slots -> Keys \cup {NoKey}]
  /\ deleted \in [Slots -> BOOLEAN]
  /\ OnePlace
  /\ LiveFirst

EntriesOf(fs) == UNION {{n} \X DOMAIN fs[n].active : n \in DOMAIN fs}

RunsEntry(f) == f.running => f.cb # Nil

Serving(fs) == \A n \in DOMAIN fs : fs[n].active # <<>> /\ RunsEntry(fs[n])

Stack ==
  /\ callback_deleted \in BOOLEAN
  /\ scheduled \in Seq(Addrs)
  /\ timer_set \in BOOLEAN
  /\ frames \in Seq(Frame)
  /\ IsFiniteSet(EntriesOf(frames))
  /\ Len(scheduled) + Cardinality(EntriesOf(frames)) <= MaxActive
  /\ timer_set => scheduled # <<>>
  /\ Serving(frames)

\* gs is fs but for what the dispatches do with the target they serve.
Kin(fs, gs) ==
  /\ gs \in Seq(Frame)
  /\ Len(gs) = Len(fs)
  /\ \A n \in 1 .. Len(fs) :
       /\ gs[n].active = fs[n].active /\ gs[n].batch = fs[n].batch
       /\ RunsEntry(fs[n]) => RunsEntry(gs[n])

-----------------------------------------------------------------------------
(* Sequences                                                               *)

LEMMA FrontFacts ==
  ASSUME NEW T, NEW s \in Seq(T), s # <<>>
  PROVE  /\ Front(s) \in Seq(T) /\ Len(Front(s)) = Len(s) - 1
         /\ \A i \in 1 .. Len(s) - 1 : Front(s)[i] = s[i]
         /\ Last(s) \in T /\ Len(s) \in 1 .. Len(s) /\ Len(s) \in Nat
<1> DEFINE m == Len(s) - 1
<1>1. Len(s) \in Nat /\ Len(s) \in 1 .. Len(s) /\ m \in Nat /\ 1 \in Int
      /\ \A i \in 1 .. m : s[i] \in T
  OBVIOUS
<1>2. Last(s) \in T
  BY <1>1 DEF Last
<1> HIDE DEF m
<1>3. /\ SubSeq(s, 1, m) \in Seq(T)
      /\ Len(SubSeq(s, 1, m)) = IF 1 <= m THEN m - 1 + 1 ELSE 0
      /\ \A i \in 1 .. m - 1 + 1 : SubSeq(s, 1, m)[i] = s[1 + i - 1]
  BY <1>1, SubSeqProperties
<1>4. /\ SubSeq(s, 1, m) \in Seq(T) /\ Len(SubSeq(s, 1, m)) = m
      /\ \A i \in 1 .. m : SubSeq(s, 1, m)[i] = s[i]
  BY <1>1, <1>3
<1>5. QED
  BY <1>1, <1>2, <1>4 DEF Front, m

LEMMA ReverseFacts ==
  ASSUME NEW T, NEW s \in Seq(T)
  PROVE  /\ Reverse(s) \in Seq(T) /\ Len(Reverse(s)) = Len(s)
         /\ \A i \in 1 .. Len(s) : Reverse(s)[i] = s[Len(s) - i + 1]
<1>1. \A i \in 1 .. Len(s) : s[Len(s) - i + 1] \in T
  OBVIOUS
<1>2. QED
  BY <1>1 DEF Reverse

\* A list extended at its head is, in the order of the calls, extended at its end.
LEMMA ReverseOfLonger ==
  ASSUME NEW T, NEW s \in Seq(T), NEW a \in T
  PROVE  Reverse(<<a>> \o s) = Append(Reverse(s), a)
<1> DEFINE t == <<a>> \o s
<1>1. t \in Seq(T) /\ Len(t) = Len(s) + 1 /\ t[1] = a
      /\ \A i \in 1 .. Len(s) : t[i + 1] = s[i]
  OBVIOUS
<1> HIDE DEF t
<1>2. /\ Reverse(t) \in Seq(T) /\ Len(Reverse(t)) = Len(s) + 1
      /\ \A i \in 1 .. Len(s) + 1 : Reverse(t)[i] = t[Len(s) + 1 - i + 1]
  BY <1>1, ReverseFacts
<1>3. /\ Reverse(s) \in Seq(T) /\ Len(Reverse(s)) = Len(s) /\ Len(s) \in Nat
      /\ \A i \in 1 .. Len(s) : Reverse(s)[i] = s[Len(s) - i + 1]
  BY ReverseFacts
<1> DEFINE r == Append(Reverse(s), a)
<1>4. r \in Seq(T) /\ Len(r) = Len(s) + 1 /\ r[Len(s) + 1] = a
      /\ \A i \in 1 .. Len(s) : r[i] = Reverse(s)[i]
  BY <1>3
<1>5. ASSUME NEW i \in 1 .. Len(s) + 1
      PROVE  Reverse(t)[i] = r[i]
  <2>1. CASE i = Len(s) + 1
    BY <2>1, <1>1, <1>2, <1>3, <1>4
  <2>2. CASE i # Len(s) + 1
    <3>1. i \in 1 .. Len(s) /\ Len(s) - i + 1 \in 1 .. Len(s)
          /\ Len(s) + 1 - i + 1 = (Len(s) - i + 1) + 1
      BY <2>2, <1>3
    <3>2. QED
      BY <3>1, <1>1, <1>2, <1>3, <1>4
  <2>3. QED
    BY <2>1, <2>2
<1> HIDE DEF r
<1>6. Reverse(t) = r
  BY <1>2, <1>3, <1>4, <1>5, SeqEqual
<1>7. QED
  BY <1>6 DEF r, t

\* Taking the last element off is taking the first of the reverse.
LEMMA ReverseOfFront ==
  ASSUME NEW T, NEW s \in Seq(T), s # <<>>
  PROVE  Reverse(s) # <<>> /\ Reverse(Front(s)) = Tail(Reverse(s))
<1> DEFINE f == Front(s)
           n == Len(s)
<1>1. f \in Seq(T) /\ Len(f) = n - 1 /\ n \in Nat /\ n >= 1
      /\ \A i \in 1 .. n - 1 : f[i] = s[i]
  BY FrontFacts
<1>2. Reverse(s) \in Seq(T) /\ Len(Reverse(s)) = n
      /\ \A i \in 1 .. n : Reverse(s)[i] = s[n - i + 1]
  BY ReverseFacts
<1> HIDE DEF f, n
<1>3. Reverse(f) \in Seq(T) /\ Len(Reverse(f)) = n - 1
      /\ \A i \in 1 .. n - 1 : Reverse(f)[i] = f[(n - 1) - i + 1]
  <2>1. Reverse(f) \in Seq(T) /\ Len(Reverse(f)) = Len(f)
        /\ \A i \in 1 .. Len(f) : Reverse(f)[i] = f[Len(f) - i + 1]
    BY <1>1, ReverseFacts
  <2>2. QED
    BY <1>1, <2>1
<1> DEFINE t == Tail(Reverse(s))
<1>4. /\ Reverse(s) # <<>> /\ t \in Seq(T) /\ Len(t) = n - 1
      /\ \A i \in 1 .. n - 1 : t[i] = Reverse(s)[i + 1]
  BY <1>1, <1>2
<1>5. ASSUME NEW i \in 1 .. n - 1
      PROVE  Reverse(f)[i] = t[i]
  <2>1. i + 1 \in 1 .. n /\ n - i \in 1 .. n - 1 /\ n - (i + 1) + 1 = n - i
        /\ (n - 1) - i + 1 = n - i /\ i + 1 \in 1 .. n
    BY <1>1
  <2>2. Reverse(f)[i] = s[n - i]
    BY <2>1, <1>1, <1>3
  <2>3. t[i] = s[n - i]
    BY <2>1, <1>2, <1>4
  <2>4. QED
    BY <2>2, <2>3
<1> HIDE DEF t
<1>6. Reverse(f) = t
  BY <1>1, <1>3, <1>4, <1>5, SeqEqual
<1>7. QED
  BY <1>4, <1>6 DEF f, t

-----------------------------------------------------------------------------
(* Frames                                                                  *)

LEMMA FrameFields ==
  ASSUME NEW f \in Frame
  PROVE  /\ f.active \in Seq(Addrs) /\ f.cb \in Slots \cup {Nil}
         /\ f.running \in BOOLEAN /\ f.left \in 0 .. MaxCalls /\ f.batch \in BOOLEAN
BY DEF Frame

LEMMA NewFrame ==
  ASSUME NEW a \in Seq(Addrs), NEW c \in Slots \cup {Nil}, NEW r \in BOOLEAN,
         NEW l \in 0 .. MaxCalls, NEW b \in BOOLEAN
  PROVE  [active |-> a, cb |-> c, running |-> r, left |-> l, batch |-> b] \in Frame
BY DEF Frame

LEMMA UpdateFacts ==
  ASSUME NEW fs \in Seq(Frame), fs # <<>>, NEW f \in Frame
  PROVE  LET gs == [fs EXCEPT ![Len(fs)] = f]
         IN  /\ gs \in Seq(Frame) /\ Len(gs) = Len(fs) /\ gs[Len(fs)] = f
             /\ \A n \in 1 .. Len(fs) : n # Len(fs) => gs[n] = fs[n]
OBVIOUS

LEMMA UpdateKin ==
  ASSUME NEW fs \in Seq(Frame), fs # <<>>, NEW f \in Frame,
         f.active = Last(fs).active, f.batch = Last(fs).batch,
         RunsEntry(Last(fs)) => RunsEntry(f)
  PROVE  Kin(fs, [fs EXCEPT ![Len(fs)] = f])
BY UpdateFacts DEF Kin, Last

LEMMA CalledKin ==
  ASSUME frames \in Seq(Frame), UserCode
  PROVE  Kin(frames, Called)
<1>1. CASE frames = <<>>
  BY <1>1 DEF Called, Kin
<1>2. CASE frames # <<>>
  <2> DEFINE f == [Top EXCEPT !.left = @ - 1]
  <2>1. Top \in Frame /\ Top = frames[Len(frames)] /\ Len(frames) \in DOMAIN frames
    BY <1>2, FrontFacts DEF Top, Last
  <2>2. Top.left \in 0 .. MaxCalls /\ Top.left > 0
    BY <1>2, <2>1, FrameFields DEF UserCode
  <2>3. Top.left - 1 \in 0 .. MaxCalls
    BY <2>2, EventAssumption
  <2>4. f \in Frame /\ f.active = Top.active /\ f.batch = Top.batch
    BY <2>1, <2>3 DEF Frame
  <2>5. RunsEntry(Top) => RunsEntry(f)
    BY <2>1 DEF RunsEntry, Frame
  <2>6. Called = [frames EXCEPT ![Len(frames)] = f]
    BY <1>2, <2>1 DEF Called
  <2> HIDE DEF f
  <2>7. QED
    BY <1>2, <2>4, <2>5, <2>6, UpdateKin DEF Top
<1>3. QED
  BY <1>1, <1>2

LEMMA KinFacts ==
  ASSUME NEW fs \in Seq(Frame), NEW gs, Kin(fs, gs)
  PROVE  EntriesOf(gs) = EntriesOf(fs) /\ (Serving(fs) => Serving(gs))
<1>1. DOMAIN fs = 1 .. Len(fs) /\ DOMAIN gs = 1 .. Len(fs)
  BY DEF Kin
<1>2. QED
  BY <1>1 DEF Kin, EntriesOf, Serving

-----------------------------------------------------------------------------
(* Where a dispatch stands                                                 *)

LEMMA FirstFacts ==
  ASSUME NEW list \in Seq(Slots)
  PROVE  /\ First(list) \in Slots \cup {Nil}
         /\ First(list) # Nil => First(list) \in ToSet(list)
BY DEF First, ToSet

LEMMA SuccFacts ==
  ASSUME Pool, NEW c \in Slots
  PROVE  /\ Succ(c) \in Slots \cup {Nil}
         /\ \A a \in Addrs : c \in ToSet(cbs[a]) /\ Succ(c) # Nil => Succ(c) \in ToSet(cbs[a])
<1> DEFINE Lists == {free} \cup {cbs[a] : a \in Addrs}
           list == CHOOSE l \in Lists : c \in ToSet(l)
           i == CHOOSE j \in DOMAIN list : list[j] = c
<1>1. \E l \in Lists : c \in ToSet(l)
  BY DEF Pool, OnePlace
<1>2. list \in Lists /\ c \in ToSet(list)
  BY <1>1
<1>3. \A l \in Lists : l \in Seq(Slots)
  BY DEF Pool
<1>4. Succ(c) = IF i < Len(list) THEN list[i + 1] ELSE Nil
  BY DEF Succ
<1>5. ASSUME NEW a \in Addrs, c \in ToSet(cbs[a])
      PROVE  list = cbs[a]
  <2>1. c \notin ToSet(free)
    BY <1>5 DEF Pool, OnePlace, ToSet
  <2>2. \A b \in Addrs : c \in ToSet(cbs[b]) => b = a
    BY <1>5 DEF Pool, OnePlace, ToSet
  <2> HIDE DEF list
  <2>3. QED
    BY <1>2, <2>1, <2>2
<1> HIDE DEF list
<1>6. i \in DOMAIN list /\ list[i] = c
  BY <1>2 DEF ToSet
<1>7. list \in Seq(Slots)
  BY <1>2, <1>3
<1> HIDE DEF i
<1>8. Succ(c) # Nil => Succ(c) \in Slots /\ Succ(c) \in ToSet(list)
  BY <1>4, <1>6, <1>7 DEF ToSet
<1>9. QED
  BY <1>5, <1>8

LEMMA StandsType ==
  ASSUME Pool, frames \in Seq(Frame), frames # <<>>
  PROVE  /\ Top \in Frame /\ Len(frames) \in 1 .. Len(frames) /\ Top = frames[Len(frames)]
         /\ Top.cb # Nil => Succ(Top.cb) \in Slots \cup {Nil}
<1>1. Top \in Frame /\ Len(frames) \in 1 .. Len(frames) /\ Top = frames[Len(frames)]
  BY FrontFacts DEF Top, Last
<1>2. Top.cb \in Slots \cup {Nil}
  BY <1>1, FrameFields
<1>3. QED
  BY <1>1, <1>2, SuccFacts

-----------------------------------------------------------------------------
(* The steps of the stack                                                  *)

Stays ==
  /\ Kin(frames, frames')
  /\ scheduled' = scheduled
  /\ timer_set' \in BOOLEAN /\ (timer_set' => timer_set)

Waits ==
  /\ Kin(frames, frames')
  /\ \E a \in Addrs : scheduled' = <<a>> \o scheduled
  /\ ActiveRoom
  /\ timer_set' \in BOOLEAN

Nests ==
  /\ \E fs : \E a \in Addrs, f \in Frame :
       /\ Kin(frames, fs)
       /\ f.active = <<a>> /\ ~f.batch /\ ~f.running
       /\ frames' = Append(fs, f)
  /\ ActiveRoom
  /\ UNCHANGED <<scheduled, timer_set>>

Starts ==
  /\ frames = <<>> /\ timer_set
  /\ \E f \in Frame : f.active = scheduled /\ f.batch /\ ~f.running /\ frames' = <<f>>
  /\ scheduled' = <<>> /\ timer_set' = FALSE

Ends ==
  /\ frames # <<>> /\ Front(Top.active) = <<>>
  /\ frames' = Front(frames)
  /\ UNCHANGED <<scheduled, timer_set>>

GoesOn ==
  /\ frames # <<>> /\ Front(Top.active) # <<>>
  /\ \E f \in Frame :
       /\ f.active = Front(Top.active) /\ f.batch = Top.batch /\ ~f.running
       /\ frames' = [frames EXCEPT ![Len(frames)] = f]
  /\ UNCHANGED <<scheduled, timer_set>>

LEMMA CheckFacts ==
  ASSUME Pool, callback_deleted \in BOOLEAN, NEW list \in Seq(Addrs), list # <<>>,
         NEW batch \in BOOLEAN, checkCallbacks(list, batch)
  PROVE  /\ callback_deleted' \in BOOLEAN
         /\ \E f \in Frame :
              /\ f.active = list /\ f.batch = batch /\ ~f.running
              /\ frames' = Append(Called, f)
<1> DEFINE f == [active |-> list, cb |-> First(cbs[Last(list)]),
                 running |-> FALSE, left |-> 0, batch |-> batch]
<1>1. Last(list) \in Addrs
  BY FrontFacts
<1>2. First(cbs[Last(list)]) \in Slots \cup {Nil}
  BY <1>1, FirstFacts DEF Pool
<1>3. 0 \in 0 .. MaxCalls
  BY EventAssumption
<1>4. f \in Frame
  BY <1>2, <1>3, NewFrame
<1>5. f.active = list /\ f.batch = batch /\ f.running = FALSE
  OBVIOUS
<1>6. frames' = Append(Called, f) /\ callback_deleted' = FALSE
  BY DEF checkCallbacks
<1> HIDE DEF f
<1>7. QED
  BY <1>4, <1>5, <1>6

\* What a step does to the stack of dispatches and to the targets that wait.
LEMMA Moves ==
  ASSUME Pool, Stack, [Next]_vars, cbs' \in [Addrs -> Seq(Slots)]
  PROVE  /\ Stays \/ Waits \/ Nests \/ Starts \/ Ends \/ GoesOn
         /\ callback_deleted' \in BOOLEAN
<1>1. /\ frames \in Seq(Frame) /\ callback_deleted \in BOOLEAN /\ timer_set \in BOOLEAN
      /\ scheduled \in Seq(Addrs) /\ (timer_set => scheduled # <<>>)
      /\ Serving(frames)
  BY DEF Stack
<1>2. UserCode => Kin(frames, Called)
  BY <1>1, CalledKin
<1>3. ASSUME NEW a \in Addrs, NEW k \in Keys, setCallback(a, k)
      PROVE  Stays /\ UNCHANGED callback_deleted
  BY <1>1, <1>2, <1>3 DEF setCallback, Stays
<1>4. ASSUME NEW a \in Addrs, NEW k \in Keys, stopCallback(a, k)
      PROVE  Stays /\ callback_deleted' \in BOOLEAN
  <2>1. UserCode /\ frames' = Called /\ UNCHANGED <<scheduled, timer_set>>
    BY <1>4 DEF stopCallback
  <2>2. callback_deleted' = TRUE \/ callback_deleted' = callback_deleted
    BY <1>4 DEF stopCallback, Delete
  <2>3. QED
    BY <1>1, <1>2, <2>1, <2>2 DEF Stays
<1>5. ASSUME NEW a \in Addrs, notifyCallbacks(a)
      PROVE  (Stays \/ Waits) /\ UNCHANGED callback_deleted
  <2>1. UserCode /\ frames' = Called /\ UNCHANGED callback_deleted
    BY <1>5 DEF notifyCallbacks
  <2>2. CASE ~ActiveRoom
    <3>1. UNCHANGED <<scheduled, timer_set>>
      BY <1>5, <2>2 DEF notifyCallbacks
    <3>2. QED
      BY <1>1, <1>2, <2>1, <3>1 DEF Stays
  <2>3. CASE ActiveRoom
    <3>1. Schedule(a) /\ timer_set' \in BOOLEAN
      BY <1>5, <2>3 DEF notifyCallbacks
    <3>2. QED
      BY <1>2, <2>1, <2>3, <3>1 DEF Waits, Schedule
  <2>4. QED
    BY <2>1, <2>2, <2>3
<1>6. ASSUME NEW a \in Addrs, notifyCallbacksAndWait(a)
      PROVE  (Stays \/ Nests) /\ callback_deleted' \in BOOLEAN
  <2>1. UserCode /\ UNCHANGED <<scheduled, timer_set>>
    BY <1>6 DEF notifyCallbacksAndWait
  <2>2. CASE ~ActiveRoom
    <3>1. frames' = Called /\ UNCHANGED callback_deleted
      BY <1>6, <2>2 DEF notifyCallbacksAndWait
    <3>2. QED
      BY <1>1, <1>2, <2>1, <3>1 DEF Stays
  <2>3. CASE ActiveRoom
    <3>1. checkCallbacks(<<a>>, FALSE)
      BY <1>6, <2>3 DEF notifyCallbacksAndWait
    <3>2. <<a>> \in Seq(Addrs) /\ <<a>> # <<>>
      OBVIOUS
    <3>3. callback_deleted' \in BOOLEAN
          /\ \E f \in Frame : f.active = <<a>> /\ f.batch = FALSE /\ ~f.running /\ frames' = Append(Called, f)
      BY <1>1, <3>1, <3>2, CheckFacts
    <3>4. QED
      BY <1>2, <2>1, <2>3, <3>3 DEF Nests
  <2>4. QED
    BY <2>2, <2>3
<1>7. CASE stopAllTimers
  BY <1>1, <1>2, <1>7 DEF stopAllTimers, Stays
<1>8. CASE callbackTimer
  <2>1. frames = <<>> /\ timer_set /\ timer_set' = FALSE /\ scheduled' = <<>>
        /\ checkCallbacks(scheduled, TRUE)
    BY <1>8 DEF callbackTimer
  <2>2. /\ callback_deleted' \in BOOLEAN
        /\ \E f \in Frame : /\ f.active = scheduled /\ f.batch = TRUE /\ ~f.running
                           /\ frames' = Append(Called, f)
    <3>1. scheduled \in Seq(Addrs) /\ scheduled # <<>>
      BY <1>1, <2>1
    <3>2. checkCallbacks(scheduled, TRUE)
      BY <2>1
    <3>3. QED
      BY <1>1, <3>1, <3>2, CheckFacts
  <2>3. \A f : Append(Called, f) = <<f>>
    BY <2>1 DEF Called
  <2>4. QED
    BY <2>1, <2>2, <2>3 DEF Starts
<1>9. CASE Skip
  <2>1. /\ frames # <<>> /\ Top.cb # Nil /\ ~Top.running
        /\ UNCHANGED <<callback_deleted, scheduled, timer_set>>
        /\ Update([Top EXCEPT !.cb = Succ(Top.cb)])
    BY <1>9 DEF Skip, Standing
  <2>2. Top \in Frame /\ Succ(Top.cb) \in Slots \cup {Nil}
    BY <1>1, <2>1, StandsType
  <2> DEFINE f == [Top EXCEPT !.cb = Succ(Top.cb)]
  <2>3. f \in Frame /\ f.active = Top.active /\ f.batch = Top.batch /\ RunsEntry(f)
    BY <2>1, <2>2 DEF Frame, RunsEntry
  <2>4. frames' = [frames EXCEPT ![Len(frames)] = f]
    BY <2>1 DEF Update
  <2> HIDE DEF f
  <2>5. Kin(frames, frames')
    BY <1>1, <2>1, <2>3, <2>4, UpdateKin DEF Top
  <2>6. QED
    BY <1>1, <2>1, <2>5 DEF Stays
<1>10. CASE Call
  <2>1. /\ frames # <<>> /\ Top.cb # Nil /\ UNCHANGED <<callback_deleted, scheduled, timer_set>>
        /\ Update([Top EXCEPT !.running = TRUE, !.left = MaxCalls])
    BY <1>10 DEF Call, Standing
  <2>2. Top \in Frame /\ MaxCalls \in 0 .. MaxCalls
    BY <1>1, <2>1, StandsType, EventAssumption
  <2> DEFINE f == [Top EXCEPT !.running = TRUE, !.left = MaxCalls]
  <2>3. f \in Frame /\ f.active = Top.active /\ f.batch = Top.batch /\ RunsEntry(f)
    BY <2>1, <2>2 DEF Frame, RunsEntry
  <2>4. frames' = [frames EXCEPT ![Len(frames)] = f]
    BY <2>1 DEF Update
  <2> HIDE DEF f
  <2>5. Kin(frames, frames')
    BY <1>1, <2>1, <2>3, <2>4, UpdateKin DEF Top
  <2>6. QED
    BY <1>1, <2>1, <2>5 DEF Stays
<1>11. CASE Return
  <2> DEFINE f == [Top EXCEPT !.running = FALSE, !.left = 0, !.cb = After(Top)]
  <2>1. /\ frames # <<>> /\ Top.running /\ UNCHANGED <<callback_deleted, scheduled, timer_set>>
        /\ Update(f)
    BY <1>11 DEF Return
  <2>2. Top \in Frame /\ 0 \in 0 .. MaxCalls /\ Top = frames[Len(frames)]
        /\ Len(frames) \in DOMAIN frames
    BY <1>1, <2>1, StandsType, EventAssumption
  <2>3. After(Top) \in Slots \cup {Nil}
    <3>1. Top.cb # Nil
      BY <1>1, <2>1, <2>2 DEF Serving, RunsEntry
    <3>2. QED
      BY <1>1, <2>1, <3>1, StandsType DEF After
  <2>4. f \in Frame /\ f.active = Top.active /\ f.batch = Top.batch /\ RunsEntry(f)
    BY <2>2, <2>3 DEF Frame, RunsEntry
  <2>5. frames' = [frames EXCEPT ![Len(frames)] = f]
    BY <2>1 DEF Update
  <2> HIDE DEF f
  <2>6. Kin(frames, frames')
    BY <1>1, <2>1, <2>4, <2>5, UpdateKin DEF Top
  <2>7. QED
    BY <1>1, <2>1, <2>6 DEF Stays
<1>12. CASE Served
  <2> DEFINE rest == Front(Top.active)
  <2>1. /\ frames # <<>> /\ ~Top.running /\ UNCHANGED <<callback_deleted, scheduled, timer_set>>
        /\ IF rest = <<>> THEN frames' = Front(frames)
           ELSE Update([Top EXCEPT !.active = rest, !.cb = First(cbs'[Last(rest)])])
    BY <1>12 DEF Served
  <2>2. CASE rest = <<>>
    BY <1>1, <2>1, <2>2 DEF Ends
  <2>3. CASE rest # <<>>
    <3>1. Top \in Frame /\ Top.active \in Seq(Addrs) /\ Top.active # <<>>
      BY <1>1, <2>1, StandsType, FrameFields DEF Serving
    <3>2. rest \in Seq(Addrs)
      BY <3>1, FrontFacts
    <3> HIDE DEF rest
    <3>3. Last(rest) \in Addrs
      BY <2>3, <3>2, FrontFacts
    <3>4. First(cbs'[Last(rest)]) \in Slots \cup {Nil}
      BY <3>3, FirstFacts
    <3> DEFINE f == [Top EXCEPT !.active = rest, !.cb = First(cbs'[Last(rest)])]
    <3>5. f \in Frame /\ f.active = rest /\ f.batch = Top.batch /\ ~f.running
      BY <2>1, <3>1, <3>2, <3>4 DEF Frame
    <3>6. frames' = [frames EXCEPT ![Len(frames)] = f]
      BY <2>1, <2>3 DEF Update
    <3> HIDE DEF f
    <3>7. QED
      BY <1>1, <2>1, <2>3, <3>5, <3>6 DEF GoesOn, rest
  <2>4. QED
    BY <1>1, <2>1, <2>2, <2>3
<1>13. CASE UNCHANGED vars
  BY <1>1, <1>13 DEF vars, Stays, Kin
<1>14. QED
  BY <1>1, <1>3, <1>4, <1>5, <1>6, <1>7, <1>8, <1>9, <1>10, <1>11, <1>12, <1>13
     DEF Next, stopAllTimers

LEMMA StackKept ==
  ASSUME Pool, Stack, [Next]_vars, cbs' \in [Addrs -> Seq(Slots)]
  PROVE  Stack'
<1> DEFINE E == EntriesOf(frames)
           B == callback_deleted' \in BOOLEAN
<1>1. /\ frames \in Seq(Frame) /\ timer_set \in BOOLEAN /\ scheduled \in Seq(Addrs)
      /\ (timer_set => scheduled # <<>>)
      /\ IsFiniteSet(E) /\ Serving(frames)
      /\ Len(scheduled) + Cardinality(E) <= MaxActive
  BY DEF Stack
<1>2. Cardinality(E) \in Nat /\ Len(scheduled) \in Nat /\ MaxActive \in Nat
  BY <1>1, FS_CardinalityType, EventAssumption
<1>3. ActiveRoom => Len(scheduled) + Cardinality(E) < MaxActive
  BY DEF ActiveRoom, ActiveInUse, Entries, EntriesOf
<1>4. B
  BY Moves
<1>5. ASSUME NEW gs, Kin(frames, gs)
      PROVE  gs \in Seq(Frame) /\ EntriesOf(gs) = E /\ Serving(gs)
  BY <1>1, <1>5, KinFacts DEF Kin
<1>6. ASSUME frames' \in Seq(Frame), Serving(frames'), EntriesOf(frames') \subseteq E,
             UNCHANGED <<scheduled, timer_set>>
      PROVE  Stack'
  <2>1. IsFiniteSet(EntriesOf(frames')) /\ Cardinality(EntriesOf(frames')) <= Cardinality(E)
        /\ Cardinality(EntriesOf(frames')) \in Nat
    BY <1>1, <1>6, FS_Subset, FS_CardinalityType
  <2>2. QED
    BY <1>1, <1>2, <1>4, <1>6, <2>1 DEF Stack
<1>7. CASE Stays
  <2>1. frames' \in Seq(Frame) /\ EntriesOf(frames') = E /\ Serving(frames')
    BY <1>5, <1>7 DEF Stays
  <2>2. scheduled' = scheduled /\ (timer_set' => timer_set) /\ timer_set' \in BOOLEAN
    BY <1>7 DEF Stays
  <2>3. QED
    BY <1>1, <1>4, <2>1, <2>2 DEF Stack
<1>8. CASE Waits
  <2>1. frames' \in Seq(Frame) /\ EntriesOf(frames') = E /\ Serving(frames')
    BY <1>5, <1>8 DEF Waits
  <2>2. PICK a \in Addrs : scheduled' = <<a>> \o scheduled
    BY <1>8 DEF Waits
  <2>3. scheduled' \in Seq(Addrs) /\ Len(scheduled') = Len(scheduled) + 1
        /\ scheduled' # <<>>
    BY <1>1, <2>2
  <2>4. ActiveRoom /\ timer_set' \in BOOLEAN
    BY <1>8 DEF Waits
  <2>5. Len(scheduled') + Cardinality(E) <= MaxActive
    BY <1>2, <1>3, <2>3, <2>4
  <2>6. QED
    BY <1>1, <1>4, <2>1, <2>3, <2>4, <2>5 DEF Stack
<1>9. CASE Nests
  <2>1. PICK fs : \E a \in Addrs, f \in Frame :
          /\ Kin(frames, fs)
          /\ f.active = <<a>> /\ ~f.batch /\ ~f.running
          /\ frames' = Append(fs, f)
    BY <1>9 DEF Nests
  <2>2. PICK a \in Addrs, f \in Frame :
          /\ Kin(frames, fs)
          /\ f.active = <<a>> /\ ~f.batch /\ ~f.running
          /\ frames' = Append(fs, f)
    BY <2>1
  <2>3. fs \in Seq(Frame) /\ EntriesOf(fs) = E /\ Serving(fs)
    BY <1>5, <2>2
  <2> DEFINE n == Len(fs) + 1
  <2>4. /\ frames' \in Seq(Frame) /\ DOMAIN frames' = (DOMAIN fs) \cup {n}
        /\ frames'[n] = f /\ \A m \in DOMAIN fs : frames'[m] = fs[m] /\ m # n
    BY <2>2, <2>3
  <2> HIDE DEF n
  <2>5. Serving(frames')
    <3>1. f.active # <<>> /\ RunsEntry(f)
      BY <2>2 DEF RunsEntry
    <3>2. QED
      BY <2>3, <2>4, <3>1 DEF Serving
  <2>6. EntriesOf(frames') = E \cup {<<n, 1>>}
    <3>1. DOMAIN f.active = {1}
      BY <2>2
    <3>2. {n} \X DOMAIN f.active = {<<n, 1>>}
      BY <3>1
    <3>3. EntriesOf(frames') = EntriesOf(fs) \cup ({n} \X DOMAIN f.active)
      BY <2>4 DEF EntriesOf
    <3>4. QED
      BY <2>3, <3>2, <3>3
  <2>7. IsFiniteSet(EntriesOf(frames'))
        /\ Cardinality(EntriesOf(frames')) <= Cardinality(E) + 1
        /\ Cardinality(EntriesOf(frames')) \in Nat
    <3> HIDE DEF E
    <3>1. IsFiniteSet(E \cup {<<n, 1>>}) /\ Cardinality(E \cup {<<n, 1>>}) <= Cardinality(E) + 1
      <4>1. /\ IsFiniteSet(E \cup {<<n, 1>>})
            /\ Cardinality(E \cup {<<n, 1>>}) =
                 IF <<n, 1>> \in E THEN Cardinality(E) ELSE Cardinality(E) + 1
        BY <1>1, FS_AddElement
      <4>2. QED
        BY <1>2, <4>1
    <3>2. QED
      BY <2>6, <3>1, FS_CardinalityType
  <2>8. ActiveRoom /\ UNCHANGED <<scheduled, timer_set>>
    BY <1>9 DEF Nests
  <2>9. Len(scheduled) + Cardinality(EntriesOf(frames')) <= MaxActive
    BY <1>2, <1>3, <2>7, <2>8
  <2>10. QED
    BY <1>1, <1>4, <2>4, <2>5, <2>7, <2>8, <2>9 DEF Stack
<1>10. CASE Starts
  <2>1. PICK f \in Frame : f.active = scheduled /\ f.batch /\ ~f.running /\ frames' = <<f>>
    BY <1>10 DEF Starts
  <2>2. timer_set /\ scheduled' = <<>> /\ timer_set' = FALSE
    BY <1>10 DEF Starts
  <2>3. frames' \in Seq(Frame) /\ DOMAIN frames' = {1} /\ frames'[1] = f
    BY <2>1
  <2>4. Serving(frames')
    BY <1>1, <2>1, <2>2, <2>3 DEF Serving, RunsEntry
  <2>5. EntriesOf(frames') = {1} \X (1 .. Len(scheduled))
    <3>1. DOMAIN f.active = 1 .. Len(scheduled)
      BY <1>1, <2>1
    <3>2. QED
      BY <2>3, <3>1 DEF EntriesOf
  <2>6. IsFiniteSet(EntriesOf(frames')) /\ Cardinality(EntriesOf(frames')) = Len(scheduled)
    <3>1. IsFiniteSet(1 .. Len(scheduled)) /\ Cardinality(1 .. Len(scheduled)) = Len(scheduled)
      <4>1. 1 \in Int /\ Len(scheduled) \in Int
        BY <1>2
      <4>2. /\ IsFiniteSet(1 .. Len(scheduled))
            /\ Cardinality(1 .. Len(scheduled)) =
                 IF 1 > Len(scheduled) THEN 0 ELSE Len(scheduled) - 1 + 1
        BY <4>1, FS_Interval
      <4>3. QED
        BY <1>2, <4>2
    <3>2. IsFiniteSet({1}) /\ Cardinality({1}) = 1
      BY FS_Singleton
    <3>3. QED
      <4>1. /\ IsFiniteSet({1} \X (1 .. Len(scheduled)))
            /\ Cardinality({1} \X (1 .. Len(scheduled))) = 1 * Len(scheduled)
        BY <3>1, <3>2, FS_Product
      <4>2. QED
        BY <1>2, <2>5, <4>1
  <2>7. scheduled' \in Seq(Addrs) /\ Len(scheduled') = 0
    BY <2>2
  <2>8. QED
    <3>1. Len(scheduled') + Cardinality(EntriesOf(frames')) <= MaxActive
      BY <1>1, <1>2, <2>6, <2>7, FS_CardinalityType
    <3>2. QED
      BY <1>4, <2>2, <2>3, <2>4, <2>6, <2>7, <3>1 DEF Stack
<1>11. CASE Ends
  <2>1. frames # <<>> /\ frames' = Front(frames) /\ UNCHANGED <<scheduled, timer_set>>
    BY <1>11 DEF Ends
  <2>2. frames' \in Seq(Frame) /\ DOMAIN frames' \subseteq DOMAIN frames
        /\ \A n \in DOMAIN frames' : frames'[n] = frames[n]
    <3>1. /\ Front(frames) \in Seq(Frame) /\ Len(Front(frames)) = Len(frames) - 1
          /\ \A i \in 1 .. Len(frames) - 1 : Front(frames)[i] = frames[i]
      BY <1>1, <2>1, FrontFacts
    <3>2. DOMAIN frames' = 1 .. Len(frames) - 1 /\ DOMAIN frames = 1 .. Len(frames)
          /\ Len(frames) \in Nat
      BY <1>1, <2>1, <3>1
    <3>3. QED
      BY <2>1, <3>1, <3>2
  <2>3. Serving(frames') /\ EntriesOf(frames') \subseteq E
    BY <1>1, <2>2 DEF Serving, EntriesOf
  <2>4. QED
    BY <1>6, <2>1, <2>2, <2>3
<1>12. CASE GoesOn
  <2>1. frames # <<>> /\ Front(Top.active) # <<>> /\ UNCHANGED <<scheduled, timer_set>>
    BY <1>12 DEF GoesOn
  <2>2. PICK f \in Frame :
          /\ f.active = Front(Top.active) /\ f.batch = Top.batch /\ ~f.running
          /\ frames' = [frames EXCEPT ![Len(frames)] = f]
    BY <1>12 DEF GoesOn
  <2>3. /\ frames' \in Seq(Frame) /\ Len(frames') = Len(frames) /\ frames'[Len(frames)] = f
        /\ \A n \in 1 .. Len(frames) : n # Len(frames) => frames'[n] = frames[n]
    BY <1>1, <2>1, <2>2, UpdateFacts
  <2>4. DOMAIN frames' = 1 .. Len(frames) /\ DOMAIN frames = 1 .. Len(frames)
        /\ Len(frames) \in 1 .. Len(frames)
    BY <1>1, <2>1, <2>3
  <2>5. Top = frames[Len(frames)] /\ Top.active \in Seq(Addrs) /\ Top.active # <<>>
    <3>1. Top = frames[Len(frames)] /\ Top \in Frame
      BY <1>1, <2>1, FrontFacts DEF Top, Last
    <3>2. QED
      BY <1>1, <2>4, <3>1, FrameFields DEF Serving
  <2>6. DOMAIN f.active \subseteq DOMAIN frames[Len(frames)].active
    <3>1. /\ Len(f.active) = Len(Top.active) - 1 /\ f.active \in Seq(Addrs)
          /\ Len(Top.active) \in Nat
      BY <2>2, <2>5, FrontFacts
    <3>2. DOMAIN f.active = 1 .. Len(Top.active) - 1 /\ DOMAIN Top.active = 1 .. Len(Top.active)
      BY <2>5, <3>1
    <3>3. QED
      BY <2>5, <3>1, <3>2
  <2>7. Serving(frames')
    BY <1>1, <2>1, <2>2, <2>3, <2>4 DEF Serving, RunsEntry
  <2>8. \A n \in 1 .. Len(frames) : DOMAIN frames'[n].active \subseteq DOMAIN frames[n].active
    BY <2>3, <2>6
  <2>9. EntriesOf(frames') \subseteq E
    BY <2>4, <2>8 DEF EntriesOf
  <2>10. QED
    BY <1>6, <2>1, <2>3, <2>7, <2>9
<1>13. QED
  BY <1>7, <1>8, <1>9, <1>10, <1>11, <1>12, Moves

-----------------------------------------------------------------------------
(* What waits to be served                                                 *)

BatchOf(fs) ==
  IF fs # <<>> /\ fs[1].batch THEN Reverse(fs[1].active) ELSE <<>>

LEMMA WaitingIs == Waiting = BatchOf(frames) \o Reverse(scheduled)
BY DEF Waiting, BatchOf

LEMMA WaitingNextIs == Waiting' = BatchOf(frames') \o Reverse(scheduled')
BY DEF Waiting, BatchOf

LEMMA ConcatFacts ==
  ASSUME NEW T, NEW x \in Seq(T), NEW y \in Seq(T), NEW a \in T
  PROVE  /\ x \o Append(y, a) = Append(x \o y, a)
         /\ x # <<>> => x \o y # <<>> /\ Tail(x) \o y = Tail(x \o y)
         /\ <<>> \o y = y /\ x \o <<>> = x
<1>1. x \o Append(y, a) = Append(x \o y, a)
  OBVIOUS
<1>2. ASSUME x # <<>>
      PROVE  x \o y # <<>> /\ Tail(x) \o y = Tail(x \o y)
  BY <1>2
<1>3. <<>> \o y = y /\ x \o <<>> = x
  OBVIOUS
<1>4. QED
  BY <1>1, <1>2, <1>3

LEMMA BatchFacts ==
  ASSUME NEW fs \in Seq(Frame)
  PROVE  /\ BatchOf(fs) \in Seq(Addrs)
         /\ \A gs : Kin(fs, gs) => BatchOf(gs) = BatchOf(fs)
<1>1. BatchOf(fs) \in Seq(Addrs)
  <2>1. CASE fs = <<>>
    BY <2>1 DEF BatchOf
  <2>2. CASE fs # <<>>
    <3>1. fs[1] \in Frame
      BY <2>2
    <3>2. QED
      BY <3>1, FrameFields, ReverseFacts DEF BatchOf
  <2>3. QED
    BY <2>1, <2>2
<1>2. ASSUME NEW gs, Kin(fs, gs)
      PROVE  BatchOf(gs) = BatchOf(fs)
  <2>1. gs \in Seq(Frame) /\ Len(gs) = Len(fs)
    BY <1>2 DEF Kin
  <2>2. CASE fs = <<>>
    BY <2>1, <2>2 DEF BatchOf
  <2>3. CASE fs # <<>>
    <3>1. gs # <<>> /\ 1 \in 1 .. Len(fs)
      BY <2>1, <2>3
    <3>2. gs[1].active = fs[1].active /\ gs[1].batch = fs[1].batch
      BY <1>2, <3>1 DEF Kin
    <3>3. QED
      BY <2>3, <3>1, <3>2 DEF BatchOf
  <2>4. QED
    BY <2>2, <2>3
<1>3. QED
  BY <1>1, <1>2

\* The innermost dispatch ends, or goes on with the target before.
PopsOrGoesOn(fs, gs) ==
  \/ Front(Last(fs).active) = <<>> /\ gs = Front(fs)
  \/ \E f \in Frame :
       /\ f.active = Front(Last(fs).active) /\ f.batch = Last(fs).batch
       /\ gs = [fs EXCEPT ![Len(fs)] = f]

\* A dispatch that was served a target: the oldest of the batch, if it is that of the timer.
LEMMA BatchServed ==
  ASSUME NEW fs \in Seq(Frame), fs # <<>>, Serving(fs), NEW gs,
         PopsOrGoesOn(fs, gs)
  PROVE  \/ BatchOf(gs) = BatchOf(fs)
         \/ BatchOf(fs) # <<>> /\ BatchOf(gs) = Tail(BatchOf(fs))
<1>1. fs[1] \in Frame /\ fs[1].active \in Seq(Addrs) /\ fs[1].active # <<>>
      /\ Len(fs) \in Nat /\ Len(fs) >= 1 /\ Last(fs) = fs[Len(fs)] /\ fs[1].batch \in BOOLEAN
  <2>1. fs[1] \in Frame /\ 1 \in DOMAIN fs /\ Len(fs) \in Nat /\ Len(fs) >= 1
    OBVIOUS
  <2>2. QED
    BY <2>1, FrameFields DEF Serving, Last
<1>2. CASE Len(fs) > 1
  <2>1. gs # <<>> /\ gs[1].active = fs[1].active /\ gs[1].batch = fs[1].batch
    <3>1. CASE gs = Front(fs)
      <4>1. gs \in Seq(Frame) /\ Len(gs) = Len(fs) - 1 /\ gs[1] = fs[1]
        BY <1>1, <1>2, <3>1, FrontFacts
      <4>2. QED
        BY <1>1, <1>2, <4>1
    <3>2. CASE \E f \in Frame : gs = [fs EXCEPT ![Len(fs)] = f]
      <4>1. Len(gs) = Len(fs) /\ gs \in Seq(Frame) /\ gs[1] = fs[1]
        BY <1>1, <1>2, <3>2, UpdateFacts
      <4>2. QED
        BY <1>1, <1>2, <4>1
    <3>3. QED
      BY <3>1, <3>2 DEF PopsOrGoesOn
  <2>2. QED
    BY <2>1 DEF BatchOf
<1>3. CASE Len(fs) = 1
  <2>1. Last(fs) = fs[1]
    BY <1>1, <1>3
  <2> DEFINE r == Reverse(fs[1].active)
  <2>2. r # <<>> /\ Reverse(Front(fs[1].active)) = Tail(r)
    BY <1>1, ReverseOfFront
  <2>3. BatchOf(fs) = IF fs[1].batch THEN r ELSE <<>>
    BY DEF BatchOf
  <2>4. CASE /\ Front(Last(fs).active) = <<>>
             /\ gs = Front(fs)
    <3>1. gs \in Seq(Frame) /\ Len(gs) = 0
      BY <1>3, <2>4, FrontFacts
    <3>2. BatchOf(gs) = <<>>
      BY <3>1 DEF BatchOf
    <3>3. Reverse(Front(fs[1].active)) = <<>>
      BY <2>1, <2>4 DEF Reverse
    <3>4. QED
      BY <2>2, <2>3, <3>2, <3>3
  <2>5. ASSUME NEW f \in Frame,
               f.active = Front(Last(fs).active), f.batch = Last(fs).batch,
               gs = [fs EXCEPT ![Len(fs)] = f]
        PROVE  \/ BatchOf(gs) = BatchOf(fs)
               \/ BatchOf(fs) # <<>> /\ BatchOf(gs) = Tail(BatchOf(fs))
    <3>1. Len(gs) = 1 /\ gs \in Seq(Frame) /\ gs[1] = f
      BY <1>3, <2>5, UpdateFacts
    <3>2. gs # <<>>
      BY <3>1
    <3>3. BatchOf(gs) = IF fs[1].batch THEN Tail(r) ELSE <<>>
      BY <2>1, <2>2, <2>5, <3>1, <3>2 DEF BatchOf
    <3>4. QED
      BY <2>2, <2>3, <3>3
  <2>6. QED
    BY <2>4, <2>5 DEF PopsOrGoesOn
<1>4. QED
  <2>1. Len(fs) > 1 \/ Len(fs) = 1
    <3>1. Len(fs) \in Nat /\ Len(fs) >= 1
      BY <1>1
    <3> DEFINE n == Len(fs)
    <3> HIDE DEF n
    <3>2. n \in Nat /\ n >= 1 => n > 1 \/ n = 1
      OBVIOUS
    <3>3. QED
      BY ONLY <3>1, <3>2 DEF n
  <2>2. QED
    BY <1>2, <1>3, <2>1

\* Every step of the program is a step of the queue of notifications, or none.
LEMMA QueueSteps ==
  ASSUME Pool, Stack, [Next]_vars, cbs' \in [Addrs -> Seq(Slots)]
  PROVE  \/ \E a \in Addrs : Waiting' = Append(Waiting, a)
         \/ Waiting # <<>> /\ Waiting' = Tail(Waiting)
         \/ Waiting' = Waiting
<1> DEFINE B == BatchOf(frames)
           C == BatchOf(frames')
           S == Reverse(scheduled)
<1>1. /\ frames \in Seq(Frame) /\ scheduled \in Seq(Addrs) /\ Serving(frames)
  BY DEF Stack
<1>2. B \in Seq(Addrs) /\ S \in Seq(Addrs)
  BY <1>1, BatchFacts, ReverseFacts
<1>3. Waiting = B \o S /\ Waiting' = C \o Reverse(scheduled')
  BY WaitingIs, WaitingNextIs
<1>4. CASE C = B /\ scheduled' = scheduled
  BY <1>3, <1>4
<1>5. CASE Stays
  BY <1>1, <1>4, <1>5, BatchFacts DEF Stays
<1>6. CASE Waits
  <2>1. C = B
    BY <1>1, <1>6, BatchFacts DEF Waits
  <2>2. PICK a \in Addrs : scheduled' = <<a>> \o scheduled
    BY <1>6 DEF Waits
  <2>3. Reverse(scheduled') = Append(S, a)
    BY <1>1, <2>2, ReverseOfLonger
  <2> HIDE DEF B, C, S
  <2>4. Waiting' = Append(Waiting, a)
    BY <1>2, <1>3, <2>1, <2>3, ConcatFacts, SMTT(60)
  <2>5. QED
    BY <2>4
<1>7. CASE Nests
  <2>1. PICK fs : \E a \in Addrs, f \in Frame :
          Kin(frames, fs) /\ ~f.batch /\ frames' = Append(fs, f)
    BY <1>7 DEF Nests
  <2>2. PICK f \in Frame : Kin(frames, fs) /\ ~f.batch /\ frames' = Append(fs, f)
    BY <2>1
  <2>3. fs \in Seq(Frame) /\ Len(fs) = Len(frames) /\ BatchOf(fs) = B
    BY <1>1, <2>2, BatchFacts DEF Kin
  <2>4. C = BatchOf(fs)
    <3>1. CASE fs = <<>>
      <4>1. frames' = <<f>>
        BY <2>2, <3>1
      <4>2. QED
        BY <2>2, <3>1, <4>1 DEF BatchOf
    <3>2. CASE fs # <<>>
      <4>1. frames' # <<>> /\ frames'[1] = fs[1]
        BY <2>2, <2>3, <3>2
      <4>2. QED
        BY <3>2, <4>1 DEF BatchOf
    <3>3. QED
      BY <3>1, <3>2
  <2>5. scheduled' = scheduled
    BY <1>7 DEF Nests
  <2>6. QED
    BY <1>4, <2>3, <2>4, <2>5
<1>8. CASE Starts
  <2>1. PICK f \in Frame : f.active = scheduled /\ f.batch /\ frames' = <<f>>
    BY <1>8 DEF Starts
  <2>2. C = S
    BY <2>1 DEF BatchOf
  <2>3. B = <<>>
    BY <1>8 DEF Starts, BatchOf
  <2>4. Reverse(scheduled') = <<>>
    BY <1>8 DEF Starts, Reverse
  <2> HIDE DEF B, C, S
  <2>5. QED
    BY <1>2, <1>3, <2>2, <2>3, <2>4, ConcatFacts
<1>9. CASE Ends \/ GoesOn
  <2>1. scheduled' = scheduled
    BY <1>9 DEF Ends, GoesOn
  <2>2. C = B \/ (B # <<>> /\ C = Tail(B))
    <3>1. PopsOrGoesOn(frames, frames') /\ frames # <<>>
      BY <1>9 DEF Ends, GoesOn, Top, PopsOrGoesOn
    <3>2. QED
      BY <1>1, <3>1, BatchServed
  <2> HIDE DEF B, C, S
  <2>3. CASE C = B
    BY <1>3, <2>1, <2>3 DEF S
  <2>4. CASE B # <<>> /\ C = Tail(B)
    <3>1. Waiting' = Tail(B) \o S
      BY <1>3, <2>1, <2>4 DEF S
    <3>2. B \o S # <<>> /\ Tail(B) \o S = Tail(B \o S)
      BY <1>2, <2>4, SMTT(60)
    <3>3. QED
      BY <1>3, <3>1, <3>2
  <2>5. QED
    BY <2>2, <2>3, <2>4
<1>10. QED
  BY <1>5, <1>6, <1>7, <1>8, <1>9, Moves

-----------------------------------------------------------------------------
(* The lists of Callbacks                                                  *)

Once(l) == \A i, j \in DOMAIN l : l[i] = l[j] => i = j

Apart(l, m) == \A i \in DOMAIN l, j \in DOMAIN m : l[i] # m[j]

LEMMA OnePlaceParts ==
  OnePlace <=>
    /\ Once(free)
    /\ \A a \in Addrs : Once(cbs[a]) /\ Apart(free, cbs[a])
    /\ \A a, b \in Addrs : a # b => Apart(cbs[a], cbs[b])
    /\ \A c \in Slots : c \in ToSet(free) \/ \E a \in Addrs : c \in ToSet(cbs[a])
BY DEF OnePlace, Once, Apart

LEMMA OnePlacePartsNext ==
  OnePlace' <=>
    /\ Once(free')
    /\ \A a \in Addrs : Once(cbs'[a]) /\ Apart(free', cbs'[a])
    /\ \A a, b \in Addrs : a # b => Apart(cbs'[a], cbs'[b])
    /\ \A c \in Slots : c \in ToSet(free') \/ \E a \in Addrs : c \in ToSet(cbs'[a])
BY DEF OnePlace, Once, Apart

LEMMA ConcatOnce ==
  ASSUME NEW T, NEW l \in Seq(T), NEW m \in Seq(T)
  PROVE  /\ l \o m \in Seq(T)
         /\ ToSet(l \o m) = ToSet(l) \cup ToSet(m)
         /\ Once(l) /\ Once(m) /\ Apart(l, m) => Once(l \o m)
         /\ \A n : Apart(l, n) /\ Apart(m, n) => Apart(l \o m, n)
<1> DEFINE s == l \o m
<1>1. /\ s \in Seq(T) /\ Len(s) = Len(l) + Len(m) /\ Len(l) \in Nat /\ Len(m) \in Nat
      /\ \A i \in 1 .. Len(l) + Len(m) : s[i] = IF i <= Len(l) THEN l[i] ELSE m[i - Len(l)]
  BY ConcatProperties
<1>2. DOMAIN s = 1 .. Len(l) + Len(m) /\ DOMAIN l = 1 .. Len(l) /\ DOMAIN m = 1 .. Len(m)
  BY <1>1
<1> HIDE DEF s
<1>3. \A i \in DOMAIN s : \/ i \in DOMAIN l /\ s[i] = l[i]
                          \/ i - Len(l) \in DOMAIN m /\ s[i] = m[i - Len(l)] /\ i > Len(l)
  BY <1>1, <1>2
<1>4. ToSet(s) = ToSet(l) \cup ToSet(m)
  <2>1. ToSet(s) \subseteq ToSet(l) \cup ToSet(m)
    BY <1>3 DEF ToSet
  <2>2. ToSet(l) \subseteq ToSet(s)
    BY <1>1, <1>2, SMTT(60) DEF ToSet
  <2>3. ASSUME NEW j \in DOMAIN m
        PROVE  m[j] \in ToSet(s)
    <3>1. j + Len(l) \in DOMAIN s /\ s[j + Len(l)] = m[j]
      BY <1>1, <1>2
    <3>2. QED
      BY <3>1 DEF ToSet
  <2>4. QED
    BY <2>1, <2>2, <2>3 DEF ToSet
<1>5. ASSUME Once(l), Once(m), Apart(l, m)
      PROVE  Once(s)
  <2>1. SUFFICES ASSUME NEW i \in DOMAIN s, NEW j \in DOMAIN s, s[i] = s[j]
                 PROVE  i = j
    BY DEF Once
  <2>2. CASE i \in DOMAIN l /\ s[i] = l[i]
    <3>1. j \in DOMAIN l /\ s[j] = l[j]
      BY <1>3, <1>5, <2>1, <2>2 DEF Apart
    <3>2. QED
      BY <1>5, <2>1, <2>2, <3>1 DEF Once
  <2>3. CASE i - Len(l) \in DOMAIN m /\ s[i] = m[i - Len(l)] /\ i > Len(l)
    <3>1. j - Len(l) \in DOMAIN m /\ s[j] = m[j - Len(l)]
      BY <1>3, <1>5, <2>1, <2>3 DEF Apart
    <3>2. i - Len(l) = j - Len(l)
      BY <1>5, <2>1, <2>3, <3>1 DEF Once
    <3>3. i \in Int /\ j \in Int
      BY <1>2
    <3>4. QED
      BY <1>1, <3>2, <3>3
  <2>4. QED
    BY <1>3, <2>2, <2>3
<1>6. \A n : Apart(l, n) /\ Apart(m, n) => Apart(s, n)
  BY <1>3 DEF Apart
<1>7. QED
  BY <1>1, <1>4, <1>5, <1>6 DEF s

LEMMA HeadOff ==
  ASSUME NEW T, NEW l \in Seq(T), l # <<>>
  PROVE  /\ Head(l) \in T /\ Tail(l) \in Seq(T)
         /\ ToSet(l) = {Head(l)} \cup ToSet(Tail(l))
         /\ Once(l) => Once(Tail(l)) /\ Head(l) \notin ToSet(Tail(l))
         /\ \A n : Apart(l, n) => Apart(Tail(l), n) /\ Head(l) \notin ToSet(n)
<1>1. /\ Head(l) \in T /\ Head(l) = l[1] /\ Tail(l) \in Seq(T) /\ Len(l) \in Nat /\ Len(l) >= 1
      /\ DOMAIN l = 1 .. Len(l) /\ DOMAIN Tail(l) = 1 .. Len(l) - 1
      /\ \A i \in 1 .. Len(l) - 1 : Tail(l)[i] = l[i + 1]
  OBVIOUS
<1> DEFINE t == Tail(l)
           h == Head(l)
<1> HIDE DEF t, h
<1>2. /\ h = l[1] /\ 1 \in DOMAIN l
      /\ \A i \in DOMAIN t : i + 1 \in DOMAIN l /\ i + 1 # 1 /\ t[i] = l[i + 1]
      /\ \A i \in DOMAIN l : i # 1 => i - 1 \in DOMAIN t /\ t[i - 1] = l[i]
      /\ \A i, j \in DOMAIN t : i + 1 = j + 1 => i = j
  BY <1>1 DEF t, h
<1>3. ToSet(l) = {h} \cup ToSet(t)
  <2>1. ToSet(l) \subseteq {h} \cup ToSet(t)
    BY <1>2 DEF ToSet
  <2>2. {h} \cup ToSet(t) \subseteq ToSet(l)
    BY <1>2 DEF ToSet
  <2>3. QED
    BY <2>1, <2>2
<1>4. ASSUME Once(l)
      PROVE  Once(t) /\ h \notin ToSet(t)
  BY <1>2, <1>4 DEF Once, ToSet
<1>5. \A n : Apart(l, n) => Apart(t, n) /\ h \notin ToSet(n)
  BY <1>2 DEF Apart, ToSet
<1>6. QED
  BY <1>1, <1>3, <1>4, <1>5 DEF t, h

\* lookup_callback finds the first entry with the func and handle, if there is one.
LEMMA LookupFacts ==
  ASSUME NEW a \in Addrs, cbs[a] \in Seq(Slots), NEW k
  PROVE  LET c == lookup_callback(a, k)
         IN  \/ c = Nil /\ \A i \in DOMAIN cbs[a] : key[cbs[a][i]] # k
             \/ /\ c \in Slots /\ c # Nil
                /\ \E m \in DOMAIN cbs[a] :
                     /\ cbs[a][m] = c /\ key[c] = k
                     /\ \A i \in DOMAIN cbs[a] : key[cbs[a][i]] = k => m <= i
<1> DEFINE found == {i \in DOMAIN cbs[a] : key[cbs[a][i]] = k}
           c == lookup_callback(a, k)
<1>1. c = IF found = {} THEN Nil ELSE cbs[a][Min(found)]
  BY DEF lookup_callback
<1>2. CASE found = {}
  BY <1>1, <1>2
<1>3. CASE found # {}
  <2>1. found \subseteq Nat
    OBVIOUS
  <2>2. PICK m \in found : \A i \in found : m <= i
    BY <1>3, <2>1, LeastElement
  <2>3. Min(found) \in found /\ \A i \in found : Min(found) <= i
    BY <2>2 DEF Min
  <2>4. c = cbs[a][Min(found)] /\ c \in Slots /\ c # Nil
    <3>1. c = cbs[a][Min(found)] /\ Min(found) \in DOMAIN cbs[a]
      BY <1>1, <1>3, <2>3
    <3> HIDE DEF c
    <3>2. c \in Slots
      <4>1. \A n \in DOMAIN cbs[a] : cbs[a][n] \in Slots
        OBVIOUS
      <4> HIDE DEF found
      <4>2. QED
        BY <3>1, <4>1
    <3>3. \A d \in Slots : d # Nil
      BY EventAssumption DEF Slots, Nil
    <3>4. QED
      BY <3>1, <3>2, <3>3
  <2>5. QED
    BY <2>3, <2>4
<1>4. QED
  BY <1>2, <1>3

\* A new entry, taken off the free list and linked before the others of its target.
LEMMA LinkKept ==
  ASSUME Pool, NEW a \in Addrs, NEW k \in Keys, ~Registered(a, k), free # <<>>,
         free' = Tail(free), key' = [key EXCEPT ![Head(free)] = k],
         deleted' = [deleted EXCEPT ![Head(free)] = FALSE], Link(a, Head(free))
  PROVE  Pool'
<1> DEFINE c == Head(free)
           t == Tail(free)
           l == <<c>> \o cbs[a]
<1>1. /\ cbs \in [Addrs -> Seq(Slots)] /\ free \in Seq(Slots)
      /\ key \in [Slots -> Keys \cup {NoKey}] /\ deleted \in [Slots -> BOOLEAN]
  BY DEF Pool
<1>2. /\ Once(free)
      /\ \A b \in Addrs : Once(cbs[b]) /\ Apart(free, cbs[b])
      /\ \A b, d \in Addrs : b # d => Apart(cbs[b], cbs[d])
      /\ \A e \in Slots : e \in ToSet(free) \/ \E b \in Addrs : e \in ToSet(cbs[b])
  BY OnePlaceParts DEF Pool
<1>3. /\ c \in Slots /\ t \in Seq(Slots) /\ ToSet(free) = {c} \cup ToSet(t)
      /\ Once(t) /\ c \notin ToSet(t)
      /\ \A b \in Addrs : Apart(t, cbs[b]) /\ c \notin ToSet(cbs[b])
  BY <1>1, <1>2, HeadOff
<1>4. /\ cbs' = [cbs EXCEPT ![a] = l] /\ free' = t
      /\ key' = [key EXCEPT ![c] = k] /\ deleted' = [deleted EXCEPT ![c] = FALSE]
  BY DEF Link
<1> HIDE DEF c, t
<1>5. <<c>> \in Seq(Slots) /\ Once(<<c>>) /\ ToSet(<<c>>) = {c}
      /\ \A n : Apart(<<c>>, n) <=> c \notin ToSet(n)
  BY <1>3 DEF Once, Apart, ToSet
<1>6. /\ l \in Seq(Slots) /\ ToSet(l) = {c} \cup ToSet(cbs[a]) /\ Once(l)
      /\ \A n : c \notin ToSet(n) /\ Apart(cbs[a], n) => Apart(l, n)
  BY <1>1, <1>2, <1>3, <1>5, ConcatOnce
<1>7. /\ Len(l) = Len(cbs[a]) + 1 /\ l[1] = c
      /\ \A i \in DOMAIN l : i # 1 => /\ i - 1 \in DOMAIN cbs[a] /\ l[i] = cbs[a][i - 1]
                                      /\ i \in Int /\ i > 1
  BY <1>1, <1>3
<1> HIDE DEF l
<1>8. cbs'[a] = l /\ \A b \in Addrs : b # a => cbs'[b] = cbs[b]
  BY <1>1, <1>4
<1>9. OnePlace'
  <2>1. \A m, n : Apart(m, n) => Apart(n, m)
    BY DEF Apart
  <2>2. \A b \in Addrs : Once(cbs'[b]) /\ Apart(free', cbs'[b])
    <3>1. \A n : Apart(n, t) => Apart(t, n)
      BY <2>1
    <3>2. Apart(l, t)
      BY <1>3, <1>6, <2>1
    <3>3. QED
      BY <1>2, <1>3, <1>4, <1>6, <1>8, <2>1, <3>2
  <2>3. \A b, d \in Addrs : b # d => Apart(cbs'[b], cbs'[d])
    <3>1. \A d \in Addrs : d # a => Apart(l, cbs[d])
      BY <1>2, <1>3, <1>6
    <3>2. QED
      BY <1>2, <1>8, <2>1, <3>1
  <2>4. \A e \in Slots : e \in ToSet(free') \/ \E b \in Addrs : e \in ToSet(cbs'[b])
    <3>1. \A b \in Addrs : ToSet(cbs[b]) \subseteq ToSet(cbs'[b])
      BY <1>6, <1>8
    <3>2. c \in ToSet(cbs'[a])
      BY <1>6, <1>8
    <3>3. QED
      <4>1. TAKE e \in Slots
      <4>2. CASE e = c
        BY <3>2, <4>2
      <4>3. CASE e # c
        BY <1>2, <1>3, <1>4, <3>1, <4>3
      <4>4. QED
        BY <4>2, <4>3
  <2>5. QED
    BY <1>3, <1>4, <2>2, <2>3, <2>4, OnePlacePartsNext
<1>10. \A e \in Slots : e # c => key'[e] = key[e] /\ deleted'[e] = deleted[e]
  BY <1>1, <1>4
<1>11. key'[c] = k
  BY <1>1, <1>3, <1>4
<1>12. \A b \in Addrs : \A i \in DOMAIN cbs[b] :
         cbs[b][i] \in Slots /\ cbs[b][i] # c
  BY <1>1, <1>3 DEF ToSet
<1>13. \A b \in Addrs : \A i, j \in DOMAIN cbs[b] :
         i < j /\ key[cbs[b][i]] = key[cbs[b][j]] => deleted[cbs[b][j]]
  BY DEF Pool, LiveFirst
<1>14. ASSUME NEW j \in DOMAIN cbs[a], key[cbs[a][j]] = k
       PROVE  deleted[cbs[a][j]]
  <2>1. cbs[a] \in Seq(Slots)
    BY <1>1
  <2>2. PICK m \in DOMAIN cbs[a] :
          /\ cbs[a][m] = lookup_callback(a, k) /\ key[cbs[a][m]] = k
          /\ lookup_callback(a, k) # Nil
          /\ \A i \in DOMAIN cbs[a] : key[cbs[a][i]] = k => m <= i
    BY <1>14, <2>1, LookupFacts
  <2>3. deleted[cbs[a][m]]
    BY <2>2 DEF Registered
  <2>4. m <= j /\ m \in Int /\ j \in Int
    BY <1>14, <2>1, <2>2
  <2>5. CASE m = j
    BY <2>3, <2>5
  <2>6. CASE m < j
    BY <1>13, <1>14, <2>2, <2>6
  <2>7. QED
    BY <2>4, <2>5, <2>6
<1>15. LiveFirst'
  <2>1. SUFFICES ASSUME NEW b \in Addrs, NEW i \in DOMAIN cbs'[b], NEW j \in DOMAIN cbs'[b],
                        i < j, key'[cbs'[b][i]] = key'[cbs'[b][j]]
                 PROVE  deleted'[cbs'[b][j]]
    BY DEF LiveFirst
  <2>2. CASE b # a
    <3>1. cbs'[b] = cbs[b]
      BY <1>8, <2>2
    <3>2. i \in DOMAIN cbs[b] /\ j \in DOMAIN cbs[b]
      BY <2>1, <3>1
    <3>3. /\ key'[cbs[b][i]] = key[cbs[b][i]] /\ key'[cbs[b][j]] = key[cbs[b][j]]
          /\ deleted'[cbs[b][j]] = deleted[cbs[b][j]]
      BY <1>10, <1>12, <3>2
    <3>4. deleted[cbs[b][j]]
      BY <1>13, <2>1, <3>1, <3>2, <3>3
    <3>5. QED
      BY <3>1, <3>3, <3>4
  <2>3. CASE b = a
    <3>1. i \in DOMAIN l /\ j \in DOMAIN l /\ cbs'[b] = l /\ j # 1 /\ i \in Int
      <4>1. i \in DOMAIN l /\ j \in DOMAIN l /\ cbs'[b] = l
        BY <1>8, <2>1, <2>3
      <4>2. DOMAIN l = 1 .. Len(l)
        BY <1>6
      <4>3. QED
        BY <2>1, <4>1, <4>2
    <3>2. j - 1 \in DOMAIN cbs[a] /\ l[j] = cbs[a][j - 1] /\ j \in Int
      BY <1>7, <3>1
    <3>3. key'[l[j]] = key[cbs[a][j - 1]] /\ deleted'[l[j]] = deleted[cbs[a][j - 1]]
      BY <1>10, <1>12, <3>2
    <3>4. CASE i = 1
      <4>1. key'[l[i]] = k
        BY <1>7, <1>11, <3>4
      <4>2. key[cbs[a][j - 1]] = k
        BY <2>1, <3>1, <3>3, <4>1
      <4>3. QED
        BY <1>14, <3>1, <3>2, <3>3, <4>2
    <3>5. CASE i # 1
      <4>1. i - 1 \in DOMAIN cbs[a] /\ l[i] = cbs[a][i - 1]
        BY <1>7, <3>1, <3>5
      <4>2. key'[l[i]] = key[cbs[a][i - 1]]
        BY <1>10, <1>12, <4>1
      <4>3. i - 1 < j - 1
        BY <2>1, <3>1, <3>2
      <4>4. QED
        BY <1>13, <2>1, <3>1, <3>2, <3>3, <4>1, <4>2, <4>3
    <3>6. QED
      BY <3>4, <3>5
  <2>4. QED
    BY <2>2, <2>3
<1>16. /\ cbs' \in [Addrs -> Seq(Slots)] /\ free' \in Seq(Slots)
       /\ key' \in [Slots -> Keys \cup {NoKey}] /\ deleted' \in [Slots -> BOOLEAN]
  BY <1>1, <1>3, <1>4, <1>6
<1>17. QED
  BY <1>9, <1>15, <1>16 DEF Pool

\* Marking an entry for deletion unlinks nothing.
LEMMA MarkKept ==
  ASSUME Pool, NEW c \in Slots, Delete(c)
  PROVE  Pool'
<1>1. /\ UNCHANGED <<cbs, free, key>> /\ deleted \in [Slots -> BOOLEAN]
      /\ deleted' = [deleted EXCEPT ![c] = TRUE]
  BY DEF Delete, Pool
<1>2. deleted' \in [Slots -> BOOLEAN] /\ \A d \in Slots : deleted[d] => deleted'[d]
  BY <1>1
<1>3. OnePlace'
  BY <1>1 DEF Pool, OnePlace
<1>4. \A a \in Addrs : \A j \in DOMAIN cbs[a] : cbs[a][j] \in Slots
  BY DEF Pool
<1>5. LiveFirst'
  BY <1>1, <1>2, <1>4 DEF Pool, LiveFirst
<1>6. QED
  BY <1>1, <1>2, <1>3, <1>5 DEF Pool

\* What the sweep leaves of a list: its live entries, in their order.
LEMMA SweptList ==
  ASSUME Pool, NEW a \in Addrs
  PROVE  LET r == Dropping(cbs[a], Deleted)
         IN  /\ r \in Seq(Slots)
             /\ ToSet(r) = {c \in ToSet(cbs[a]) : ~deleted[c]}
             /\ Once(r)
             /\ \A i, j \in DOMAIN r : i < j => \E m, n \in DOMAIN cbs[a] :
                  m < n /\ r[i] = cbs[a][m] /\ r[j] = cbs[a][n]
<1> DEFINE l == cbs[a]
           r == Dropping(l, Deleted)
<1>1. l \in Seq(Slots) /\ Once(l)
  BY OnePlaceParts DEF Pool
<1>2. PICK at : Selects(Slots, l, Deleted, r, Len(l), at)
  BY <1>1, DroppingProps
<1>3. \A c \in Slots : c \in Deleted <=> deleted[c]
  BY DEF Deleted
<1> HIDE DEF r, l
<1>4. /\ r \in Seq(Slots)
      /\ DOMAIN r = 1 .. Len(r) /\ DOMAIN l = 1 .. Len(l)
  BY <1>1, <1>2 DEF Selects
<1>5. /\ \A i \in DOMAIN r : /\ at[i] \in DOMAIN l /\ at[i] \in Int
                             /\ r[i] = l[at[i]] /\ l[at[i]] \notin Deleted
      /\ \A i, j \in DOMAIN r : i < j => at[i] < at[j]
      /\ \A k \in DOMAIN l : l[k] \notin Deleted => \E i \in DOMAIN r : at[i] = k
  <2>1. at \in [1 .. Len(r) -> 1 .. Len(l)]
    BY <1>2 DEF Selects
  <2>2. \A i \in DOMAIN r : at[i] \in DOMAIN l /\ at[i] \in Int
    BY <1>1, <1>4, <2>1
  <2>3. /\ \A i \in 1 .. Len(r) : r[i] = l[at[i]] /\ l[at[i]] \notin Deleted
        /\ \A i, j \in 1 .. Len(r) : i < j => at[i] < at[j]
        /\ \A k \in 1 .. Len(l) : l[k] \notin Deleted => \E i \in 1 .. Len(r) : at[i] = k
    BY <1>2 DEF Selects
  <2>4. QED
    BY <1>4, <2>2, <2>3
<1>6. \A k \in DOMAIN l : l[k] \in Slots
  BY <1>1
<1>7. ToSet(r) = {c \in ToSet(l) : ~deleted[c]}
  <2>1. \A i \in DOMAIN r : r[i] \in ToSet(l) /\ ~deleted[r[i]]
    BY <1>3, <1>5, <1>6 DEF ToSet
  <2>2. ASSUME NEW k \in DOMAIN l, ~deleted[l[k]]
        PROVE  \E i \in DOMAIN r : r[i] = l[k]
    BY <1>3, <1>5, <1>6, <2>2
  <2>3. QED
    BY <2>1, <2>2 DEF ToSet
<1>8. Once(r)
  <2>1. SUFFICES ASSUME NEW i \in DOMAIN r, NEW j \in DOMAIN r, r[i] = r[j], i # j
                 PROVE  FALSE
    BY DEF Once
  <2>2. at[i] = at[j] /\ at[i] \in Int
    BY <1>1, <1>5, <2>1 DEF Once
  <2>3. i < j \/ j < i
    BY <1>4, <2>1
  <2>4. QED
    BY <1>5, <2>1, <2>2, <2>3
<1>9. ASSUME NEW i \in DOMAIN r, NEW j \in DOMAIN r, i < j
      PROVE  \E m, n \in DOMAIN l : m < n /\ r[i] = l[m] /\ r[j] = l[n]
  BY <1>5, <1>9
<1>10. QED
  BY <1>4, <1>7, <1>8, <1>9 DEF r, l

\* The swept entries, each once.
LEMMA SweptFacts ==
  ASSUME NEW X \in SUBSET Slots, NEW swept \in SetToSeqs(X)
  PROVE  swept \in Seq(Slots) /\ Once(swept) /\ ToSet(swept) = X
<1> DEFINE n == Cardinality(X)
<1>1. IsFiniteSet(Slots)
  BY EventAssumption, FS_Interval DEF Slots
<1>2. IsFiniteSet(X) /\ n \in Nat
  BY <1>1, FS_Subset, FS_CardinalityType
<1>3. swept \in [1 .. n -> X] /\ \A i, j \in 1 .. n : i # j => swept[i] # swept[j]
  BY DEF SetToSeqs
<1>4. IsFiniteSet(1 .. n) /\ Cardinality(1 .. n) = n
  <2>1. /\ IsFiniteSet(1 .. n)
        /\ Cardinality(1 .. n) = IF 1 > n THEN 0 ELSE n - 1 + 1
    BY <1>2, FS_Interval
  <2>2. QED
    BY <1>2, <2>1
<1>5. swept \in Injection(1 .. n, X)
  BY <1>3 DEF Injection, IsInjective
<1>6. swept \in Surjection(1 .. n, X)
  BY <1>2, <1>4, <1>5, FS_Injection
<1> HIDE DEF n
<1>7. ToSet(swept) = X
  BY <1>3, <1>6 DEF Surjection, ToSet
<1>8. swept \in Seq(Slots)
  BY <1>2, <1>3
<1>9. QED
  BY <1>3, <1>7, <1>8 DEF Once

\* A sweep moves every entry marked for deletion to the free list, once.
LEMMA SweepKept ==
  ASSUME Pool, remove_deleted_callbacks, UNCHANGED <<key, deleted>>
  PROVE  Pool'
<1> DEFINE Linked == UNION {ToSet(cbs[a]) : a \in Addrs}
           X == Deleted \cap Linked
<1>1. /\ cbs \in [Addrs -> Seq(Slots)] /\ free \in Seq(Slots)
      /\ key \in [Slots -> Keys \cup {NoKey}] /\ deleted \in [Slots -> BOOLEAN]
  BY DEF Pool
<1>2. /\ Once(free)
      /\ \A b \in Addrs : Once(cbs[b]) /\ Apart(free, cbs[b])
      /\ \A b, d \in Addrs : b # d => Apart(cbs[b], cbs[d])
      /\ \A e \in Slots : e \in ToSet(free) \/ \E b \in Addrs : e \in ToSet(cbs[b])
  BY OnePlaceParts DEF Pool
<1>3. cbs' = [a \in Addrs |-> Dropping(cbs[a], Deleted)]
  BY DEF remove_deleted_callbacks
<1>4. PICK swept \in SetToSeqs(X) : free' = swept \o free
  BY DEF remove_deleted_callbacks
<1>5. swept \in Seq(Slots) /\ Once(swept) /\ ToSet(swept) = X
  <2>1. X \in SUBSET Slots
    BY DEF Deleted
  <2> HIDE DEF X
  <2>2. QED
    BY <1>4, <2>1, SweptFacts
<1>6. \A a \in Addrs :
        /\ cbs'[a] \in Seq(Slots)
        /\ ToSet(cbs'[a]) = {c \in ToSet(cbs[a]) : ~deleted[c]}
        /\ Once(cbs'[a])
        /\ \A i, j \in DOMAIN cbs'[a] : i < j => \E m, n \in DOMAIN cbs[a] :
             m < n /\ cbs'[a][i] = cbs[a][m] /\ cbs'[a][j] = cbs[a][n]
  BY <1>3, SweptList
<1>7. \A l, m : Apart(l, m) <=> ToSet(l) \cap ToSet(m) = {}
  BY DEF Apart, ToSet
<1>8. \A c \in Slots : c \in X <=> deleted[c] /\ \E a \in Addrs : c \in ToSet(cbs[a])
  BY DEF Deleted
<1>9. \A a \in Addrs : ToSet(cbs[a]) \subseteq Slots
  BY <1>1 DEF ToSet
<1> HIDE DEF X, Linked
<1>10. Apart(swept, free)
  <2>1. X \subseteq Slots
    BY <1>5 DEF ToSet
  <2>2. X \cap ToSet(free) = {}
    BY <1>2, <1>7, <1>8, <2>1
  <2>3. QED
    BY <1>5, <1>7, <2>2
<1>11. free' \in Seq(Slots) /\ Once(free') /\ ToSet(free') = X \cup ToSet(free)
  BY <1>1, <1>2, <1>4, <1>5, <1>10, ConcatOnce
<1>12. OnePlace'
  <2>1. \A a \in Addrs : Apart(free', cbs'[a])
    <3>1. TAKE a \in Addrs
    <3>2. ToSet(free) \cap ToSet(cbs[a]) = {}
      BY <1>2, <1>7
    <3>3. \A c \in ToSet(cbs'[a]) : c \in ToSet(cbs[a]) /\ c \notin X
      BY <1>6, <1>8, <1>9
    <3>4. ToSet(free') \cap ToSet(cbs'[a]) = {}
      BY <1>11, <3>2, <3>3
    <3>5. QED
      BY <1>7, <3>4
  <2>2. \A b, d \in Addrs : b # d => Apart(cbs'[b], cbs'[d])
    <3>1. TAKE b, d \in Addrs
    <3>2. HAVE b # d
    <3>3. ToSet(cbs[b]) \cap ToSet(cbs[d]) = {}
      BY <1>2, <1>7, <3>2
    <3>4. ToSet(cbs'[b]) \subseteq ToSet(cbs[b]) /\ ToSet(cbs'[d]) \subseteq ToSet(cbs[d])
      BY <1>6
    <3>5. QED
      BY <1>7, <3>3, <3>4
  <2>3. \A e \in Slots : e \in ToSet(free') \/ \E b \in Addrs : e \in ToSet(cbs'[b])
    BY <1>2, <1>6, <1>8, <1>11
  <2>4. QED
    BY <1>6, <1>11, <2>1, <2>2, <2>3, OnePlacePartsNext
<1>13. LiveFirst'
  <2>1. SUFFICES ASSUME NEW a \in Addrs, NEW i \in DOMAIN cbs'[a], NEW j \in DOMAIN cbs'[a],
                        i < j, key'[cbs'[a][i]] = key'[cbs'[a][j]]
                 PROVE  deleted'[cbs'[a][j]]
    BY DEF LiveFirst
  <2>2. PICK m \in DOMAIN cbs[a], n \in DOMAIN cbs[a] :
          m < n /\ cbs'[a][i] = cbs[a][m] /\ cbs'[a][j] = cbs[a][n]
    BY <1>6, <2>1
  <2>3. QED
    BY <2>1, <2>2 DEF Pool, LiveFirst
<1>14. cbs' \in [Addrs -> Seq(Slots)]
  BY <1>3, <1>6
<1>15. QED
  BY <1>1, <1>11, <1>12, <1>13, <1>14 DEF Pool

LEMMA PoolUnchanged ==
  ASSUME Pool, UNCHANGED poolVars
  PROVE  Pool'
BY DEF Pool, poolVars, OnePlace, LiveFirst

LEMMA PoolKept ==
  ASSUME Pool, [Next]_vars
  PROVE  Pool'
<1>1. ASSUME NEW a \in Addrs, NEW k \in Keys, setCallback(a, k)
      PROVE  Pool'
  <2>1. CASE UNCHANGED poolVars
    BY <2>1, PoolUnchanged
  <2>2. CASE ~(UNCHANGED poolVars)
    <3>1. /\ ~Registered(a, k) /\ free # <<>> /\ free' = Tail(free)
          /\ key' = [key EXCEPT ![Head(free)] = k]
          /\ deleted' = [deleted EXCEPT ![Head(free)] = FALSE]
          /\ Link(a, Head(free))
      BY <1>1, <2>2 DEF setCallback
    <3>2. QED
      BY <3>1, LinkKept
  <2>3. QED
    BY <2>1, <2>2
<1>2. ASSUME NEW a \in Addrs, NEW k \in Keys, stopCallback(a, k)
      PROVE  Pool'
  <2> DEFINE c == lookup_callback(a, k)
  <2>1. CASE c = Nil
    BY <1>2, <2>1, PoolUnchanged DEF stopCallback
  <2>2. CASE c # Nil
    <3>1. cbs[a] \in Seq(Slots)
      BY DEF Pool
    <3>2. c \in Slots
      BY <2>2, <3>1, LookupFacts
    <3>3. Delete(c)
      BY <1>2, <2>2 DEF stopCallback
    <3>4. QED
      BY <3>2, <3>3, MarkKept
  <2>3. QED
    BY <2>1, <2>2
<1>3. CASE Served
  <2>1. UNCHANGED <<key, deleted>>
    BY <1>3 DEF Served
  <2>2. CASE remove_deleted_callbacks
    BY <2>1, <2>2, SweepKept
  <2>3. CASE UNCHANGED <<cbs, free>>
    BY <2>1, <2>3, PoolUnchanged DEF poolVars
  <2>4. QED
    BY <1>3, <2>2, <2>3 DEF Served
<1>4. ASSUME NEW a \in Addrs, notifyCallbacks(a) \/ notifyCallbacksAndWait(a)
      PROVE  Pool'
  BY <1>4, PoolUnchanged DEF notifyCallbacks, notifyCallbacksAndWait
<1>5. CASE stopAllTimers \/ callbackTimer \/ Skip \/ Call \/ Return
  BY <1>5, PoolUnchanged DEF stopAllTimers, callbackTimer, Skip, Call, Return
<1>6. CASE UNCHANGED vars
  BY <1>6, PoolUnchanged DEF vars
<1>7. QED
  BY <1>1, <1>2, <1>3, <1>4, <1>5, <1>6 DEF Next

-----------------------------------------------------------------------------
(* The invariant                                                           *)

LEMMA Halves == IInv <=> Pool /\ Stack
<1>1. SomethingToServe <=> (timer_set => scheduled # <<>>) /\ Serving(frames)
  BY DEF SomethingToServe, Serving, RunsEntry
<1>2. Entries = EntriesOf(frames)
  BY DEF Entries, EntriesOf
<1>3. QED
  BY <1>1, <1>2 DEF IInv, TypeOK, Pool, Stack, ActiveInUse

LEMMA HalvesNext == Pool' /\ Stack' => IInv'
<1>1. SomethingToServe' <=> (timer_set' => scheduled' # <<>>) /\ Serving(frames')
  BY DEF SomethingToServe, Serving, RunsEntry
<1>2. Entries' = EntriesOf(frames')
  BY DEF Entries, EntriesOf
<1>3. QED
  BY <1>1, <1>2 DEF IInv, TypeOK, Pool, Stack, ActiveInUse

LEMMA InitHolds == Init => IInv
<1> SUFFICES ASSUME Init PROVE IInv
  OBVIOUS
<1>1. Pool
  <2>1. /\ cbs \in [Addrs -> Seq(Slots)] /\ key \in [Slots -> Keys \cup {NoKey}]
        /\ deleted \in [Slots -> BOOLEAN]
        /\ \A a \in Addrs : cbs[a] = <<>>
    BY DEF Init
  <2>2. free \in Seq(Slots) /\ DOMAIN free = Slots /\ \A i \in Slots : free[i] = i
    BY EventAssumption DEF Init, Slots
  <2>3. Once(free) /\ \A c \in Slots : c \in ToSet(free)
    BY <2>2 DEF Once, ToSet
  <2>4. \A a \in Addrs : DOMAIN cbs[a] = {}
    BY <2>1
  <2>5. OnePlace /\ LiveFirst
    BY <2>3, <2>4 DEF OnePlace, LiveFirst, Once
  <2>6. QED
    BY <2>1, <2>2, <2>5 DEF Pool
<1>2. Stack
  <2>1. frames = <<>> /\ scheduled = <<>> /\ callback_deleted = FALSE /\ timer_set = FALSE
    BY DEF Init
  <2>2. EntriesOf(frames) = {} /\ Serving(frames)
    BY <2>1 DEF EntriesOf, Serving
  <2>3. Len(scheduled) + 0 <= MaxActive
    BY <2>1, EventAssumption
  <2>4. QED
    <3>1. IsFiniteSet(EntriesOf(frames)) /\ Cardinality(EntriesOf(frames)) = 0
      BY <2>2, FS_EmptySet
    <3>2. scheduled \in Seq(Addrs) /\ frames \in Seq(Frame)
      BY <2>1
    <3>3. callback_deleted \in BOOLEAN /\ timer_set \in BOOLEAN /\ ~timer_set
      BY <2>1
    <3>4. Len(scheduled) + Cardinality(EntriesOf(frames)) <= MaxActive
      BY <2>3, <3>1
    <3>5. QED
      BY <2>2, <3>1, <3>2, <3>3, <3>4 DEF Stack
<1>3. QED
  BY <1>1, <1>2, Halves

LEMMA StepKept == IInv /\ [Next]_vars => IInv'
<1> SUFFICES ASSUME IInv, [Next]_vars PROVE IInv'
  OBVIOUS
<1>1. Pool /\ Stack
  BY Halves
<1>2. Pool'
  BY <1>1, PoolKept
<1>3. cbs' \in [Addrs -> Seq(Slots)]
  BY <1>2 DEF Pool
<1>4. QED
  BY <1>1, <1>2, <1>3, StackKept, HalvesNext

-----------------------------------------------------------------------------
(* Without nesting                                                         *)

Stands(f, lists) == f.cb # Nil => f.cb \in ToSet(lists[Last(f.active)])

\* At most one dispatch is in progress.
OneDispatch == Len(frames) <= 1

LEMMA FirstStands ==
  ASSUME NEW list \in Seq(Addrs), list # <<>>, NEW lists \in [Addrs -> Seq(Slots)],
         NEW f, f.active = list, f.cb = First(lists[Last(list)])
  PROVE  Stands(f, lists)
<1>1. Last(list) \in Addrs
  BY FrontFacts
<1>2. QED
  BY <1>1, FirstFacts DEF Stands

LEMMA FlatStep ==
  ASSUME MaxDepth <= 1, Pool, Stack, Pool', [Next]_vars, OneDispatch, StandsOnLinked
  PROVE  OneDispatch' /\ StandsOnLinked'
<1>1. /\ frames \in Seq(Frame) /\ scheduled \in Seq(Addrs) /\ (timer_set => scheduled # <<>>)
      /\ Serving(frames) /\ Len(frames) \in Nat
      /\ cbs \in [Addrs -> Seq(Slots)] /\ cbs' \in [Addrs -> Seq(Slots)]
  BY DEF Stack, Pool
<1>2. frames = <<>> \/ (Len(frames) = 1 /\ frames # <<>>)
  <2>1. frames \in Seq(Frame) /\ Len(frames) <= 1
    BY <1>1 DEF OneDispatch
  <2>2. Len(frames) = 0 \/ Len(frames) = 1
    BY <2>1
  <2>3. QED
    BY <2>1, <2>2
<1>3. ASSUME frames' = <<>>
      PROVE  OneDispatch' /\ StandsOnLinked'
  BY <1>3 DEF OneDispatch, StandsOnLinked
<1>4. ASSUME NEW f \in Frame, frames' = <<f>>, Stands(f, cbs')
      PROVE  OneDispatch' /\ StandsOnLinked'
  <2>1. Len(frames') = 1 /\ DOMAIN frames' = {1} /\ frames'[1] = f
    BY <1>4
  <2>2. QED
    BY <1>4, <2>1 DEF OneDispatch, StandsOnLinked, Stands
<1>5. ASSUME frames # <<>>
      PROVE  /\ Top \in Frame /\ Top = frames[1] /\ frames = <<Top>>
             /\ Top.active \in Seq(Addrs) /\ Top.active # <<>> /\ Last(Top.active) \in Addrs
             /\ Top.cb \in Slots \cup {Nil} /\ RunsEntry(Top)
             /\ Stands(Top, cbs)
             /\ \A f : [frames EXCEPT ![Len(frames)] = f] = <<f>>
  <2>1. Len(frames) = 1 /\ 1 \in DOMAIN frames
    BY <1>1, <1>2, <1>5
  <2>2. Top = frames[1] /\ Top \in Frame /\ frames = <<Top>>
    <3>1. Top = frames[1] /\ Top \in Frame
      <4>1. Top \in Frame
        BY <1>1, <1>5, StandsType
      <4>2. Top = frames[1]
        BY <2>1 DEF Top, Last
      <4>3. QED
        BY <4>1, <4>2
    <3>2. frames = <<Top>>
      BY <1>1, <2>1, <3>1
    <3>3. QED
      BY <3>1, <3>2
  <2>3. Top.active \in Seq(Addrs) /\ Top.active # <<>> /\ RunsEntry(Top)
        /\ Top.cb \in Slots \cup {Nil}
    BY <1>1, <2>1, <2>2, FrameFields DEF Serving
  <2>4. Last(Top.active) \in Addrs
    BY <2>3, FrontFacts
  <2>5. Stands(Top, cbs)
    BY <2>1, <2>2 DEF StandsOnLinked, Stands
  <2>6. \A f : [frames EXCEPT ![Len(frames)] = f] = <<f>>
    BY <2>1, <2>2
  <2>7. QED
    BY <2>2, <2>3, <2>4, <2>5, <2>6
<1>6. ASSUME UserCode, frames' = Called,
             \A a \in Addrs : ToSet(cbs[a]) \subseteq ToSet(cbs'[a])
      PROVE  OneDispatch' /\ StandsOnLinked'
  <2>1. CASE frames = <<>>
    BY <1>3, <1>6, <2>1 DEF Called
  <2>2. CASE frames # <<>>
    <3> DEFINE f == [Top EXCEPT !.left = @ - 1]
    <3>1. Top.left \in 0 .. MaxCalls /\ Top.left > 0
      BY <1>5, <1>6, <2>2, FrameFields DEF UserCode
    <3>2. Top.left - 1 \in 0 .. MaxCalls
      BY <3>1, EventAssumption
    <3>3. f \in Frame /\ f.active = Top.active /\ f.cb = Top.cb
      BY <1>5, <2>2, <3>2 DEF Frame
    <3>4. Called = [frames EXCEPT ![Len(frames)] = f]
      BY <1>2, <1>5, <2>2 DEF Called
    <3> HIDE DEF f
    <3>5. frames' = <<f>>
      BY <1>5, <1>6, <2>2, <3>4
    <3>6. Stands(f, cbs')
      BY <1>5, <1>6, <2>2, <3>3 DEF Stands
    <3>7. QED
      BY <1>4, <3>3, <3>5, <3>6
  <2>3. QED
    BY <2>1, <2>2
<1>7. ASSUME NEW list \in Seq(Addrs), list # <<>>, NEW batch \in BOOLEAN,
             frames = <<>>, checkCallbacks(list, batch), UNCHANGED cbs
      PROVE  OneDispatch' /\ StandsOnLinked'
  <2> DEFINE f == [active |-> list, cb |-> First(cbs[Last(list)]),
                   running |-> FALSE, left |-> 0, batch |-> batch]
  <2>1. Last(list) \in Addrs /\ 0 \in 0 .. MaxCalls
    BY <1>7, FrontFacts, EventAssumption
  <2>2. First(cbs[Last(list)]) \in Slots \cup {Nil}
    BY <1>1, <2>1, FirstFacts
  <2>3. f \in Frame
    BY <2>1, <2>2, NewFrame
  <2>4. frames' = Append(Called, f)
    BY <1>7 DEF checkCallbacks
  <2>5. f.active = list /\ f.cb = First(cbs[Last(list)])
    OBVIOUS
  <2> HIDE DEF f
  <2>6. frames' = <<f>>
    BY <1>7, <2>4 DEF Called
  <2>7. Stands(f, cbs')
    BY <1>1, <1>7, <2>5, FirstStands
  <2>8. QED
    BY <1>4, <2>3, <2>6, <2>7
<1>8. ASSUME NEW f, frames # <<>>, Update(f), UNCHANGED cbs,
             f \in Frame, f.active = Top.active,
             f.cb = Top.cb \/ (Top.cb # Nil /\ f.cb = Succ(Top.cb))
      PROVE  OneDispatch' /\ StandsOnLinked'
  <2>1. frames' = <<f>>
    BY <1>5, <1>8 DEF Update
  <2>2. Stands(f, cbs')
    <3>1. CASE f.cb = Top.cb
      BY <1>5, <1>8, <3>1 DEF Stands
    <3>2. CASE Top.cb # Nil /\ f.cb = Succ(Top.cb)
      <4>1. Top.cb \in Slots /\ Top.cb \in ToSet(cbs[Last(Top.active)])
        BY <1>5, <1>8, <3>2 DEF Stands
      <4>2. f.cb # Nil => f.cb \in ToSet(cbs[Last(Top.active)])
        BY <1>5, <1>8, <3>2, <4>1, SuccFacts
      <4>3. QED
        BY <1>8, <4>2 DEF Stands
    <3>3. QED
      BY <1>8, <3>1, <3>2
  <2>3. QED
    BY <1>4, <1>8, <2>1, <2>2
<1>9. ASSUME NEW a \in Addrs, NEW k \in Keys, setCallback(a, k)
      PROVE  OneDispatch' /\ StandsOnLinked'
  <2>1. UserCode /\ frames' = Called
    BY <1>9 DEF setCallback
  <2>2. ASSUME NEW b \in Addrs
        PROVE  ToSet(cbs[b]) \subseteq ToSet(cbs'[b])
    <3>1. CASE UNCHANGED poolVars
      BY <3>1 DEF poolVars
    <3>2. CASE ~(UNCHANGED poolVars)
      <4>1. free # <<>> /\ cbs' = [cbs EXCEPT ![a] = <<Head(free)>> \o @]
        BY <1>9, <3>2 DEF setCallback, Link
      <4>2. <<Head(free)>> \in Seq(Slots) /\ cbs[a] \in Seq(Slots)
        BY <1>1, <4>1 DEF Pool
      <4>3. ToSet(cbs[a]) \subseteq ToSet(<<Head(free)>> \o cbs[a])
        <5> DEFINE h == <<Head(free)>>
        <5> HIDE DEF h
        <5>1. ToSet(h \o cbs[a]) = ToSet(h) \cup ToSet(cbs[a])
          BY <4>2, ConcatOnce DEF h
        <5>2. QED
          BY <5>1 DEF h
      <4>4. QED
        BY <1>1, <4>1, <4>3
    <3>3. QED
      BY <3>1, <3>2
  <2>3. QED
    BY <1>6, <2>1, <2>2
<1>10. ASSUME NEW a \in Addrs, NEW k \in Keys, stopCallback(a, k)
       PROVE  OneDispatch' /\ StandsOnLinked'
  <2>1. UserCode /\ frames' = Called /\ UNCHANGED cbs
    BY <1>10 DEF stopCallback, Delete, poolVars
  <2>2. QED
    BY <1>6, <2>1
<1>11. ASSUME NEW a \in Addrs, notifyCallbacks(a)
       PROVE  OneDispatch' /\ StandsOnLinked'
  <2>1. UserCode /\ frames' = Called /\ UNCHANGED cbs
    BY <1>11 DEF notifyCallbacks, poolVars
  <2>2. QED
    BY <1>6, <2>1
<1>12. ASSUME NEW a \in Addrs, notifyCallbacksAndWait(a)
       PROVE  OneDispatch' /\ StandsOnLinked'
  <2>1. UserCode /\ UNCHANGED cbs
    BY <1>12 DEF notifyCallbacksAndWait, poolVars
  <2>2. CASE ~ActiveRoom
    BY <1>6, <1>12, <2>1, <2>2 DEF notifyCallbacksAndWait
  <2>3. CASE ActiveRoom
    <3>1. Len(frames) < MaxDepth /\ checkCallbacks(<<a>>, FALSE)
      BY <1>12, <2>3 DEF notifyCallbacksAndWait
    <3>2. frames = <<>>
      BY <1>1, <1>2, <3>1, EventAssumption
    <3>3. <<a>> \in Seq(Addrs) /\ <<a>> # <<>>
      OBVIOUS
    <3>4. QED
      BY <1>7, <2>1, <3>1, <3>2, <3>3
  <2>4. QED
    BY <2>2, <2>3
<1>13. CASE stopAllTimers
  <2>1. UserCode /\ frames' = Called /\ UNCHANGED cbs
    BY <1>13 DEF stopAllTimers, poolVars
  <2>2. QED
    BY <1>6, <2>1
<1>14. CASE callbackTimer
  <2>1. frames = <<>> /\ timer_set /\ checkCallbacks(scheduled, TRUE) /\ UNCHANGED cbs
    BY <1>14 DEF callbackTimer, poolVars
  <2>2. QED
    BY <1>1, <1>7, <2>1
<1>15. CASE Skip
  <2> DEFINE f == [Top EXCEPT !.cb = Succ(Top.cb)]
  <2>1. frames # <<>> /\ Top.cb # Nil /\ Update(f) /\ UNCHANGED cbs
    BY <1>15 DEF Skip, Standing, poolVars
  <2>2. Top \in Frame /\ Succ(Top.cb) \in Slots \cup {Nil}
    BY <1>1, <2>1, StandsType
  <2>3. f \in Frame /\ f.active = Top.active /\ f.cb = Succ(Top.cb)
    BY <2>2 DEF Frame
  <2> HIDE DEF f
  <2>4. QED
    BY <1>8, <2>1, <2>3
<1>16. CASE Call
  <2> DEFINE f == [Top EXCEPT !.running = TRUE, !.left = MaxCalls]
  <2>1. frames # <<>> /\ Update(f) /\ UNCHANGED cbs
    BY <1>16 DEF Call, Standing, poolVars
  <2>2. f \in Frame /\ f.active = Top.active /\ f.cb = Top.cb
    <3>1. Top \in Frame /\ MaxCalls \in 0 .. MaxCalls
      BY <1>5, <2>1, EventAssumption
    <3>2. QED
      BY <3>1 DEF Frame
  <2> HIDE DEF f
  <2>3. QED
    BY <1>8, <2>1, <2>2
<1>17. CASE Return
  <2> DEFINE f == [Top EXCEPT !.running = FALSE, !.left = 0, !.cb = After(Top)]
  <2>1. frames # <<>> /\ Top.running /\ Update(f) /\ UNCHANGED cbs
    BY <1>17 DEF Return, poolVars
  <2>2. After(Top) = Succ(Top.cb) /\ Top.cb # Nil
    BY <1>5, <2>1 DEF After, RunsEntry
  <2>3. Top \in Frame /\ Succ(Top.cb) \in Slots \cup {Nil} /\ 0 \in 0 .. MaxCalls
    BY <1>1, <2>1, <2>2, StandsType, EventAssumption
  <2>4. f \in Frame /\ f.active = Top.active /\ f.cb = Succ(Top.cb)
    BY <2>2, <2>3 DEF Frame
  <2> HIDE DEF f
  <2>5. QED
    BY <1>8, <2>1, <2>2, <2>4
<1>18. CASE Served
  <2> DEFINE rest == Front(Top.active)
             f == [Top EXCEPT !.active = rest, !.cb = First(cbs'[Last(rest)])]
  <2>1. /\ frames # <<>>
        /\ IF rest = <<>> THEN frames' = Front(frames) ELSE Update(f)
    BY <1>18 DEF Served
  <2>2. CASE rest = <<>>
    <3>1. Front(frames) \in Seq(Frame) /\ Len(Front(frames)) = Len(frames) - 1
      BY <1>1, <2>1, FrontFacts
    <3>2. frames' = <<>>
      <4>1. Len(Front(frames)) = 0
        BY <1>2, <2>1, <3>1
      <4>2. Front(frames) = <<>>
        BY <3>1, <4>1
      <4>3. QED
        BY <2>1, <2>2, <4>2
    <3>3. QED
      BY <1>3, <3>2
  <2>3. CASE rest # <<>>
    <3>1. rest \in Seq(Addrs)
      BY <1>5, <2>1, FrontFacts
    <3> HIDE DEF rest
    <3>2. Last(rest) \in Addrs
      BY <2>3, <3>1, FrontFacts
    <3>3. First(cbs'[Last(rest)]) \in Slots \cup {Nil}
      BY <1>1, <3>2, FirstFacts
    <3>4. f \in Frame /\ f.active = rest /\ f.cb = First(cbs'[Last(rest)])
      BY <1>5, <2>1, <3>1, <3>3 DEF Frame
    <3>5. Update(f)
      BY <2>1, <2>3
    <3> HIDE DEF f
    <3>6. frames' = <<f>>
      BY <1>5, <2>1, <3>5 DEF Update
    <3>7. Stands(f, cbs')
      BY <1>1, <2>3, <3>1, <3>4, FirstStands
    <3>8. QED
      BY <1>4, <3>4, <3>6, <3>7
  <2>4. QED
    BY <2>2, <2>3
<1>19. CASE UNCHANGED vars
  BY <1>19 DEF vars, poolVars, OneDispatch, StandsOnLinked
<1>20. QED
  BY <1>9, <1>10, <1>11, <1>12, <1>13, <1>14, <1>15, <1>16, <1>17, <1>18, <1>19 DEF Next

-----------------------------------------------------------------------------
(* Theorems                                                                *)

\* The inductive invariant of the callback tables and the dispatches holds in every
\* state, at any depth of nesting (lines 426-502 and 634-736 of event.c).
THEOREM Invariance == Spec => []IInv
<1>1. QED
  BY InitHolds, StepKept, PTL DEF Spec

\* Type correctness; the table of active targets is never overdrawn.
THEOREM TypeCorrect == Spec => []TypeOK
<1>1. IInv => TypeOK
  BY DEF IInv
<1>2. QED
  BY <1>1, Invariance, PTL

\* No Callback is lost or linked twice, through any nesting of dispatches and sweeps
\* (lines 456-474 and 663-714).
THEOREM EntriesInOneList == Spec => []OneListEach
<1>1. ASSUME IInv
      PROVE  OneListEach
  <2>1. Pool
    BY <1>1, Halves
  <2>2. SUFFICES ASSUME NEW c \in Slots
                 PROVE  Cardinality({i \in DOMAIN free : free[i] = c})
                          + Cardinality({p \in UNION {{a} \X DOMAIN cbs[a] : a \in Addrs} :
                                           cbs[p[1]][p[2]] = c}) = 1
    BY DEF OneListEach
  <2> DEFINE F == {i \in DOMAIN free : free[i] = c}
             L == {p \in UNION {{a} \X DOMAIN cbs[a] : a \in Addrs} : cbs[p[1]][p[2]] = c}
  <2>3. OnePlace
    BY <2>1 DEF Pool
  <2>4. CASE c \in ToSet(free)
    <3>1. PICK i \in DOMAIN free : free[i] = c
      BY <2>4 DEF ToSet
    <3>2. F = {i}
      BY <2>3, <3>1 DEF OnePlace
    <3>3. L = {}
      BY <2>3, <3>1 DEF OnePlace
    <3>4. Cardinality(F) = 1 /\ Cardinality(L) = 0
      BY <3>2, <3>3, FS_Singleton, FS_EmptySet
    <3>5. QED
      BY <3>4
  <2>5. CASE c \notin ToSet(free)
    <3>1. F = {}
      BY <2>5 DEF ToSet
    <3>2. PICK a \in Addrs : c \in ToSet(cbs[a])
      BY <2>3, <2>5 DEF OnePlace
    <3>3. PICK j \in DOMAIN cbs[a] : cbs[a][j] = c
      BY <3>2 DEF ToSet
    <3>4. L = {<<a, j>>}
      <4>1. <<a, j>> \in L
        BY <3>3
      <4>2. ASSUME NEW p \in L
            PROVE  p = <<a, j>>
        <5>1. PICK b \in Addrs : \E m \in DOMAIN cbs[b] : p = <<b, m>> /\ cbs[b][m] = c
          BY <4>2
        <5>2. PICK m \in DOMAIN cbs[b] : p = <<b, m>> /\ cbs[b][m] = c
          BY <5>1
        <5>3. b = a /\ m = j
          BY <2>3, <3>3, <5>2 DEF OnePlace
        <5>4. QED
          BY <5>2, <5>3
      <4>3. QED
        BY <4>1, <4>2
    <3>5. Cardinality(F) = 0 /\ Cardinality(L) = 1
      BY <3>1, <3>4, FS_Singleton, FS_EmptySet
    <3>6. QED
      BY <3>5
  <2>6. QED
    BY <2>4, <2>5
<1>2. QED
  BY <1>1, Invariance, PTL

\* After stopCallback no entry of the target with that func and handle is live, although
\* those that were stopped and registered anew are in the list several times (lines
\* 634-660).
THEOREM StopEffective == Spec => StopIsEffective
<1>1. ASSUME IInv, NEW a \in Addrs, NEW k \in Keys, stopCallback(a, k),
             NEW c \in ToSet(cbs'[a]), key'[c] = k
      PROVE  deleted'[c]
  <2>1. Pool
    BY <1>1, Halves
  <2>2. cbs' = cbs /\ key' = key
    BY <1>1 DEF stopCallback, Delete, poolVars
  <2>3. PICK j \in DOMAIN cbs[a] : cbs[a][j] = c
    BY <1>1, <2>2 DEF ToSet
  <2>4. cbs[a] \in Seq(Slots)
    BY <2>1 DEF Pool
  <2> DEFINE d == lookup_callback(a, k)
  <2>5. /\ d \in Slots /\ d # Nil
        /\ \E m \in DOMAIN cbs[a] :
             /\ cbs[a][m] = d /\ key[d] = k
             /\ \A i \in DOMAIN cbs[a] : key[cbs[a][i]] = k => m <= i
    BY <1>1, <2>2, <2>3, <2>4, LookupFacts
  <2>6. PICK m \in DOMAIN cbs[a] :
          /\ cbs[a][m] = d /\ key[d] = k
          /\ \A i \in DOMAIN cbs[a] : key[cbs[a][i]] = k => m <= i
    BY <2>5
  <2>7. Delete(d)
    BY <1>1, <2>5 DEF stopCallback
  <2>8. c \in Slots /\ deleted' = [deleted EXCEPT ![d] = TRUE] /\ deleted \in [Slots -> BOOLEAN]
    BY <2>1, <2>3, <2>4, <2>7 DEF Delete, Pool
  <2>9. m <= j /\ m \in Int /\ j \in Int
    BY <1>1, <2>2, <2>3, <2>4, <2>6
  <2> HIDE DEF d
  <2>10. CASE m = j
    BY <2>3, <2>6, <2>8, <2>10
  <2>11. CASE m < j
    <3>1. deleted[c]
      BY <1>1, <2>1, <2>2, <2>3, <2>6, <2>11 DEF Pool, LiveFirst
    <3>2. QED
      BY <2>8, <3>1
  <2>12. QED
    BY <2>9, <2>10, <2>11
<1>2. IInv /\ [Next]_vars =>
        [\A a \in Addrs, k \in Keys : stopCallback(a, k) =>
           \A c \in ToSet(cbs'[a]) : key'[c] = k => deleted'[c]]_vars
  BY <1>1
<1>3. QED
  BY <1>2, Invariance, PTL DEF Spec, StopIsEffective

\* Notifications are served in the order of the calls, each once, whatever callbacks
\* notify and dispatch meanwhile (lines 477-502 and 717-736): the stack of dispatches
\* implements NotifyQueue.
THEOREM ServedInOrder == Spec => InOrderSpec
<1>1. Init => InOrder!Init
  BY DEF Init, InOrder!Init, Waiting, Reverse
<1>2. IInv /\ [Next]_vars => [InOrder!Next]_Waiting
  <2> SUFFICES ASSUME IInv, [Next]_vars PROVE [InOrder!Next]_Waiting
    OBVIOUS
  <2>1. Pool /\ Stack /\ Pool'
    BY Halves, PoolKept
  <2>2. cbs' \in [Addrs -> Seq(Slots)]
    BY <2>1 DEF Pool
  <2>3. \/ \E a \in Addrs : Waiting' = Append(Waiting, a)
        \/ Waiting # <<>> /\ Waiting' = Tail(Waiting)
        \/ Waiting' = Waiting
    BY <2>1, <2>2, QueueSteps
  <2>4. QED
    BY <2>3 DEF InOrder!Next, InOrder!Notify, InOrder!Serve
<1>3. QED
  BY <1>1, <1>2, Invariance, PTL DEF Spec, InOrderSpec, InOrder!Spec

\* In a program whose callbacks never call notifyCallbacksAndWait, the dispatcher only
\* stands on entries of its target's list, never on one that was freed (lines 426-492).
THEOREM StandsWhenFlat ==
  ASSUME MaxDepth <= 1
  PROVE  Spec => []StandsOnLinked
<1>1. Init => OneDispatch /\ StandsOnLinked
  <2> SUFFICES ASSUME Init PROVE OneDispatch /\ StandsOnLinked
    OBVIOUS
  <2>1. frames = <<>>
    BY DEF Init
  <2>2. QED
    BY <2>1 DEF OneDispatch, StandsOnLinked
<1>2. IInv /\ OneDispatch /\ StandsOnLinked /\ [Next]_vars => (OneDispatch /\ StandsOnLinked)'
  <2> SUFFICES ASSUME IInv, OneDispatch, StandsOnLinked, [Next]_vars
               PROVE  OneDispatch' /\ StandsOnLinked'
    OBVIOUS
  <2>1. Pool /\ Stack
    BY Halves
  <2>2. Pool'
    BY <2>1, PoolKept
  <2>3. QED
    BY <2>1, <2>2, FlatStep
<1>3. QED
  BY <1>1, <1>2, Invariance, PTL DEF Spec
=============================================================================
