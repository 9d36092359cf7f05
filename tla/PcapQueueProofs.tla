--------------------------- MODULE PcapQueueProofs ---------------------------
(***************************************************************************)
(* Proofs about PcapQueue, for any number of nodes and queues, and any     *)
(* movers of which no two take from one queue.                             *)
(***************************************************************************)
EXTENDS PcapQueue, SequenceFacts, TLAPS

LEMMA InitInv == Init => IInv
<1> SUFFICES ASSUME Init PROVE IInv
  OBVIOUS
<1>1. TypeOK
  BY PcapAssumption DEF Init, TypeOK
<1>2. Linked /\ OnePlace /\ RemoveFindsFirst
  BY DEF Init, Linked, OnePlace, RemoveFindsFirst
<1>3. QED
  BY <1>1, <1>2 DEF IInv

\* Indices of the table are neither the nil index nor the mark of no node.
LEMMA NodeFacts ==
  /\ Nil \notin Nodes
  /\ \A n \in Nodes : n \in Nat /\ n < MaxNodes
  BY PcapAssumption DEF Nil, Nodes

\* A node that is nowhere yet is appended to one list and disturbs no other.
LEMMA AddLinked ==
  ASSUME TypeOK, Linked, OnePlace, NEW q \in Queues, NEW n \in Nodes, NodeAdd(q, n),
         \A r \in Queues : \A i \in DOMAIN content[r] : content[r][i] # n
  PROVE  /\ next' \in [Nodes -> Nodes \cup {Nil}]
         /\ first' \in [Queues -> Nodes \cup {Nil}]
         /\ end' \in [Queues -> Nodes \cup {Nil}]
         /\ count' \in [Queues -> Nat]
         /\ content' \in [Queues -> Seq(Nodes)]
         /\ Linked'
         /\ content'[q] = Append(content[q], n)
         /\ \A r \in Queues : r # q => content'[r] = content[r]
         /\ \A r \in Queues : first[r] # Nil => first'[r] = first[r]
<1> DEFINE c == content[q]
<1>1. /\ c \in Seq(Nodes) /\ Len(c) \in Nat /\ DOMAIN c = 1 .. Len(c)
      /\ \A r \in Queues : content[r] \in Seq(Nodes)
  BY DEF TypeOK
<1>2. /\ first' = IF first[q] = Nil THEN [first EXCEPT ![q] = n] ELSE first
      /\ end' = [end EXCEPT ![q] = n]
      /\ count' = [count EXCEPT ![q] = @ + 1]
      /\ content' = [content EXCEPT ![q] = Append(c, n)]
      /\ next' = [(IF end[q] # Nil THEN [next EXCEPT ![end[q]] = n] ELSE next) EXCEPT ![n] = Nil]
  BY DEF NodeAdd, Thread
<1>3. /\ first' \in [Queues -> Nodes \cup {Nil}]
      /\ end' \in [Queues -> Nodes \cup {Nil}]
      /\ count' \in [Queues -> Nat]
      /\ next' \in [Nodes -> Nodes \cup {Nil}]
  <2>1. first' \in [Queues -> Nodes \cup {Nil}]
    BY <1>2 DEF TypeOK
  <2>2. end' \in [Queues -> Nodes \cup {Nil}]
    BY <1>2 DEF TypeOK
  <2>3. count' \in [Queues -> Nat]
    BY <1>2 DEF TypeOK
  <2>4. next' \in [Nodes -> Nodes \cup {Nil}]
    BY <1>2 DEF TypeOK
  <2>5. QED
    BY <2>1, <2>2, <2>3, <2>4
<1>4. /\ content'[q] = Append(c, n)
      /\ content' \in [Queues -> Seq(Nodes)]
      /\ \A r \in Queues : r # q => content'[r] = content[r]
  BY <1>1, <1>2 DEF TypeOK
<1>5. /\ Append(c, n) \in Seq(Nodes) /\ Len(Append(c, n)) = Len(c) + 1
      /\ DOMAIN Append(c, n) = 1 .. Len(c) + 1
      /\ \A i \in 1 .. Len(c) : Append(c, n)[i] = c[i]
      /\ Append(c, n)[Len(c) + 1] = n
  BY <1>1
<1>6. ASSUME NEW x \in Nodes, x # n, x # end[q] \/ end[q] = Nil
      PROVE  next'[x] = next[x]
  BY <1>2, <1>6, NodeFacts DEF TypeOK
<1>7. next'[n] = Nil
  BY <1>2 DEF TypeOK
<1>8. ASSUME NEW r \in Queues
      PROVE  LET d == content'[r]
             IN  /\ count'[r] = Len(d)
                 /\ first'[r] = IF d = <<>> THEN Nil ELSE d[1]
                 /\ end'[r] = IF d = <<>> THEN Nil ELSE d[Len(d)]
                 /\ \A i \in DOMAIN d : next'[d[i]] = IF i < Len(d) THEN d[i + 1] ELSE Nil
  <2>1. CASE r # q
    <3>1. content'[r] = content[r] /\ first'[r] = first[r] /\ end'[r] = end[r] /\ count'[r] = count[r]
      BY <1>2, <1>4, <2>1 DEF TypeOK
    <3>2. ASSUME NEW i \in DOMAIN content[r]
          PROVE  next'[content[r][i]] = next[content[r][i]]
      <4>1. content[r][i] \in Nodes /\ content[r][i] # n
        BY <1>1
      <4>2. end[q] # Nil => c # <<>> /\ end[q] = c[Len(c)] /\ Len(c) \in DOMAIN c
        BY <1>1 DEF Linked
      <4>3. content[r][i] # end[q] \/ end[q] = Nil
        BY <2>1, <4>2 DEF OnePlace
      <4>4. QED
        BY <1>6, <4>1, <4>3
    <3>3. QED
      BY <3>1, <3>2 DEF Linked
  <2>2. CASE r = q /\ c = <<>>
    <3>1. first[q] = Nil /\ count[q] = 0 /\ Len(c) = 0
      BY <2>2 DEF Linked
    <3>2. first'[q] = n /\ end'[q] = n /\ count'[q] = 1
      BY <1>2, <3>1 DEF TypeOK
    <3>3. content'[q] # <<>> /\ content'[q][1] = n /\ Len(content'[q]) = 1 /\ DOMAIN content'[q] = 1 .. 1
      BY <1>4, <1>5, <3>1
    <3>4. QED
      BY <1>7, <2>2, <3>2, <3>3
  <2>3. CASE r = q /\ c # <<>>
    <3>1. /\ first[q] = c[1] /\ end[q] = c[Len(c)] /\ count[q] = Len(c)
          /\ Len(c) \in Nat \ {0} /\ 1 \in DOMAIN c /\ Len(c) \in DOMAIN c
          /\ \A i \in DOMAIN c : next[c[i]] = IF i < Len(c) THEN c[i + 1] ELSE Nil
      BY <1>1, <2>3 DEF Linked
    <3>2. \A i \in DOMAIN c : c[i] \in Nodes /\ c[i] # n /\ c[i] # Nil
      BY <1>1, NodeFacts
    <3>3. first'[q] = c[1] /\ end'[q] = n /\ count'[q] = Len(c) + 1
      BY <1>2, <3>1, <3>2 DEF TypeOK
    <3>4. next'[c[Len(c)]] = n
      BY <1>2, <3>1, <3>2 DEF TypeOK
    <3>5. ASSUME NEW i \in DOMAIN c, i < Len(c)
          PROVE  next'[c[i]] = c[i + 1]
      <4>1. c[i] # c[Len(c)]
        BY <3>1, <3>5 DEF OnePlace
      <4>2. next'[c[i]] = next[c[i]]
        BY <1>6, <3>1, <3>2, <4>1
      <4>3. QED
        BY <3>1, <3>5, <4>2
    <3>6. /\ content'[q] # <<>> /\ content'[q][1] = c[1] /\ Len(content'[q]) = Len(c) + 1
          /\ content'[q][Len(c) + 1] = n
      BY <1>4, <1>5, <3>1, SMTT(60)
    <3>7. ASSUME NEW i \in 1 .. Len(c) + 1
          PROVE  next'[content'[q][i]] =
                   IF i < Len(c) + 1 THEN content'[q][i + 1] ELSE Nil
      <4>1. CASE i = Len(c) + 1
        BY <1>7, <3>6, <4>1, <1>1
      <4>2. CASE i = Len(c)
        <5>1. content'[q][i] = c[Len(c)] /\ content'[q][i+1] = n
          BY <1>1, <1>4, <1>5, <3>1, <4>2
        <5>2. QED
          BY <1>1, <3>4, <4>2, <5>1
      <4>3. CASE i < Len(c)
        <5>1. i \in DOMAIN c /\ i + 1 \in 1 .. Len(c)
          BY <1>1, <4>3
        <5>2. content'[q][i] = c[i] /\ content'[q][i+1] = c[i+1]
          BY <1>1, <1>4, <1>5, <5>1
        <5>3. QED
          BY <1>1, <3>5, <4>3, <5>1, <5>2
      <4>4. QED
        BY <1>1, <4>1, <4>2, <4>3
    <3>8. QED
      BY <1>4, <1>5, <2>3, <3>3, <3>6, <3>7
  <2>4. QED
    BY <2>1, <2>2, <2>3
<1>9. Linked'
  BY <1>8 DEF Linked
<1>10. \A r \in Queues : first[r] # Nil => first'[r] = first[r]
  BY <1>2 DEF TypeOK
<1>11. QED
  BY <1>3, <1>4, <1>9, <1>10

\* The first node is taken off one list, which disturbs no other.
LEMMA RemoveLinked ==
  ASSUME TypeOK, Linked, OnePlace, NEW q \in Queues, NEW n \in Nodes,
         first[q] = n, NodeRemove(q, n), UNCHANGED next
  PROVE  /\ first' \in [Queues -> Nodes \cup {Nil}]
         /\ end' \in [Queues -> Nodes \cup {Nil}]
         /\ count' \in [Queues -> Nat]
         /\ content' \in [Queues -> Seq(Nodes)]
         /\ Linked'
         /\ content[q] # <<>> /\ content[q][1] = n
         /\ Len(content'[q]) = Len(content[q]) - 1
         /\ \A i \in DOMAIN content'[q] :
              i + 1 \in DOMAIN content[q] /\ content'[q][i] = content[q][i + 1]
         /\ \A r \in Queues : r # q => content'[r] = content[r] /\ first'[r] = first[r]
<1> DEFINE c == content[q]
           t == Tail(c)
<1>1. /\ c \in Seq(Nodes) /\ Len(c) \in Nat /\ DOMAIN c = 1 .. Len(c)
      /\ \A i \in DOMAIN c : c[i] \in Nodes
  BY DEF TypeOK
<1>2. /\ c # <<>> /\ c[1] = n /\ Len(c) > 0 /\ 1 \in DOMAIN c /\ Len(c) \in DOMAIN c
      /\ first[q] = c[1] /\ end[q] = c[Len(c)] /\ count[q] = Len(c)
      /\ \A i \in DOMAIN c : next[c[i]] = IF i < Len(c) THEN c[i + 1] ELSE Nil
  <2>1. c # <<>>
    BY NodeFacts DEF Linked
  <2>2. Len(c) > 0
    BY <1>1, <2>1
  <2>3. QED
    BY <1>1, <2>1, <2>2 DEF Linked
<1>3. /\ first' = [first EXCEPT ![q] = next[n]]
      /\ end' = IF end[q] = n THEN [end EXCEPT ![q] = Nil] ELSE end
      /\ count' = [count EXCEPT ![q] = @ - 1]
      /\ content' = [content EXCEPT ![q] = t]
  BY DEF NodeRemove, Unend
<1>4. /\ t \in Seq(Nodes) /\ Len(t) = Len(c) - 1 /\ DOMAIN t = 1 .. Len(c) - 1
      /\ \A i \in 1 .. Len(c) - 1 : t[i] = c[i + 1]
  BY <1>1, <1>2
<1>5. /\ content' \in [Queues -> Seq(Nodes)] /\ content'[q] = t
      /\ \A r \in Queues : r # q => content'[r] = content[r]
  BY <1>3, <1>4 DEF TypeOK
<1>6. /\ first' \in [Queues -> Nodes \cup {Nil}]
      /\ end' \in [Queues -> Nodes \cup {Nil}]
      /\ count' \in [Queues -> Nat]
  <2>1. first' \in [Queues -> Nodes \cup {Nil}]
    BY <1>3 DEF TypeOK
  <2>2. end' \in [Queues -> Nodes \cup {Nil}]
    BY <1>3 DEF TypeOK
  <2>3. count' \in [Queues -> Nat]
    BY <1>2, <1>3 DEF TypeOK
  <2>4. QED
    BY <2>1, <2>2, <2>3
<1>7. first'[q] = next[n] /\ count'[q] = Len(c) - 1
      /\ end'[q] = IF end[q] = n THEN Nil ELSE end[q]
  BY <1>2, <1>3 DEF TypeOK
<1>8. \A r \in Queues : r # q =>
        content'[r] = content[r] /\ first'[r] = first[r] /\ end'[r] = end[r] /\ count'[r] = count[r]
  BY <1>3, <1>5 DEF TypeOK
<1> HIDE DEF c, t
<1>9. ASSUME NEW r \in Queues
      PROVE  LET d == content'[r]
             IN  /\ count'[r] = Len(d)
                 /\ first'[r] = IF d = <<>> THEN Nil ELSE d[1]
                 /\ end'[r] = IF d = <<>> THEN Nil ELSE d[Len(d)]
                 /\ \A i \in DOMAIN d : next'[d[i]] = IF i < Len(d) THEN d[i + 1] ELSE Nil
  <2>1. CASE r # q
    BY <1>8, <2>1 DEF Linked
  <2>2. CASE r = q /\ Len(c) = 1
    <3>1. t = <<>> /\ DOMAIN t = {} /\ Len(t) = 0
      <4>1. Len(t) = 0 /\ DOMAIN t = {}
        BY <1>4, <2>2
      <4>2. t = <<>>
        BY <1>4, <4>1, EmptySeq
      <4>3. QED
        BY <4>1, <4>2
    <3>2. next[n] = Nil /\ end[q] = n
      BY <1>2, <2>2
    <3>3. QED
      BY <1>5, <1>7, <2>2, <3>1, <3>2
  <2>3. CASE r = q /\ Len(c) # 1
    <3>1. Len(c) > 1 /\ t # <<>> /\ next[n] = c[2] /\ t[1] = c[2] /\ t[Len(t)] = c[Len(c)]
      <4>1. Len(c) > 1
        <5>1. Len(c) \in Nat /\ Len(c) > 0
          BY <1>1, <1>2
        <5>2. Len(c) # 1
          BY <2>3
        <5>3. \A k \in Nat : k > 0 /\ k # 1 => k > 1
          OBVIOUS
        <5>4. QED
          BY ONLY <5>1, <5>2, <5>3
      <4>2. next[n] = c[2]
        BY <1>1, <1>2, <4>1
      <4>3. t[1] = c[2] /\ t[Len(c) - 1] = c[Len(c)]
        <5>1. 1 \in 1 .. Len(c) - 1 /\ Len(c) - 1 \in 1 .. Len(c) - 1
          BY <1>1, <4>1
        <5>2. 1 + 1 = 2 /\ (Len(c) - 1) + 1 = Len(c)
          BY <1>1
        <5>3. QED
          BY <1>4, <5>1, <5>2
      <4>4. t # <<>>
        BY <1>1, <1>4, <4>1, EmptySeq
      <4>5. QED
        BY <1>4, <4>1, <4>2, <4>3, <4>4
    <3>2. end[q] # n
      BY <1>1, <1>2, <3>1 DEF OnePlace, c
    <3>3. \A i \in DOMAIN t : next'[t[i]] = IF i < Len(t) THEN t[i + 1] ELSE Nil
      <4> SUFFICES ASSUME NEW i \in 1 .. Len(c) - 1
                   PROVE  next[c[i + 1]] = IF i < Len(c) - 1 THEN c[i + 2] ELSE Nil
        BY <1>1, <1>4
      <4>1. i + 1 \in DOMAIN c
        BY <1>1
      <4>2. next[c[i + 1]] = IF i + 1 < Len(c) THEN c[(i + 1) + 1] ELSE Nil
        BY <1>2, <4>1
      <4>3. QED
        BY <1>1, <4>2
    <3>4. QED
      BY <1>2, <1>4, <1>5, <1>7, <2>3, <3>1, <3>2, <3>3
  <2>4. QED
    BY <2>1, <2>2, <2>3
<1>10. Linked'
  BY <1>9 DEF Linked
<1>11. \A i \in DOMAIN content'[q] : i + 1 \in DOMAIN c /\ content'[q][i] = c[i + 1]
  BY <1>1, <1>4, <1>5
<1>12. Len(content'[q]) = Len(c) - 1
  BY <1>4, <1>5
<1>13. QED
  BY <1>2, <1>5, <1>6, <1>8, <1>10, <1>11, <1>12 DEF c

\* Appended nowhere but to q, the node keeps every node in one place.
LEMMA AddPlaces ==
  ASSUME TypeOK, OnePlace, NEW q \in Queues, NEW n \in Nodes,
         \A r \in Queues : \A i \in DOMAIN content[r] : content[r][i] # n,
         content'[q] = Append(content[q], n),
         \A r \in Queues : r # q => content'[r] = content[r]
  PROVE  /\ \A r, s \in Queues : \A i \in DOMAIN content'[r], j \in DOMAIN content'[s] :
              content'[r][i] = content'[s][j] => r = s /\ i = j
         /\ \A r \in Queues : \A i \in DOMAIN content'[r] :
              content'[r][i] = n \/ \E j \in DOMAIN content[r] : content'[r][i] = content[r][j]
<1>1. \A r \in Queues : /\ content[r] \in Seq(Nodes) /\ Len(content[r]) \in Nat
                        /\ DOMAIN content[r] = 1 .. Len(content[r])
  BY DEF TypeOK
<1>2. /\ DOMAIN content'[q] = 1 .. Len(content[q]) + 1
      /\ \A i \in 1 .. Len(content[q]) : content'[q][i] = content[q][i]
      /\ content'[q][Len(content[q]) + 1] = n
  BY <1>1
<1>3. ASSUME NEW r \in Queues, NEW i \in DOMAIN content'[r]
      PROVE  \/ i \in DOMAIN content[r] /\ content'[r][i] = content[r][i]
             \/ r = q /\ i = Len(content[q]) + 1 /\ content'[r][i] = n
  <2>1. CASE r = q
    BY <1>1, <1>2, <1>3, <2>1
  <2>2. CASE r # q
    BY <1>3, <2>2
  <2>3. QED
    BY <2>1, <2>2
<1>4. ASSUME NEW r \in Queues, NEW s \in Queues,
             NEW i \in DOMAIN content'[r], NEW j \in DOMAIN content'[s],
             content'[r][i] = content'[s][j]
      PROVE  r = s /\ i = j
  <2>1. \/ i \in DOMAIN content[r] /\ content'[r][i] = content[r][i]
        \/ r = q /\ i = Len(content[q]) + 1 /\ content'[r][i] = n
    BY <1>3
  <2>2. \/ j \in DOMAIN content[s] /\ content'[s][j] = content[s][j]
        \/ s = q /\ j = Len(content[q]) + 1 /\ content'[s][j] = n
    BY <1>3
  <2>3. QED
    BY <1>4, <2>1, <2>2 DEF OnePlace
<1>5. QED
  BY <1>3, <1>4

\* writer2 adds a node that no queue has seen.
LEMMA FillStep == ASSUME IInv, Fill PROVE IInv'
<1> DEFINE n == filled
<1>1. TypeOK /\ Linked /\ OnePlace /\ RemoveFindsFirst
  BY DEF IInv
<1>2. /\ filled \in Nat /\ filled < MaxNodes /\ n \in Nodes /\ Free \in Queues
      /\ NodeAdd(Free, n) /\ filled' = n + 1 /\ pc' = pc /\ got' = got
  BY <1>1, PcapAssumption DEF Fill, TypeOK, Nodes
<1>3. \A q \in Queues : \A i \in DOMAIN content[q] :
        content[q][i] \in Nat /\ content[q][i] < n /\ content[q][i] # n
  <2>1. \A q \in Queues : \A i \in DOMAIN content[q] : content[q][i] \in Nat
    BY <1>1, NodeFacts DEF TypeOK
  <2>2. \A q \in Queues : \A i \in DOMAIN content[q] : content[q][i] < n
    BY <1>1 DEF OnePlace
  <2>3. QED
    BY <1>2, <2>1, <2>2
<1> HIDE DEF n
<1>4. /\ next' \in [Nodes -> Nodes \cup {Nil}]
      /\ first' \in [Queues -> Nodes \cup {Nil}]
      /\ end' \in [Queues -> Nodes \cup {Nil}]
      /\ count' \in [Queues -> Nat]
      /\ content' \in [Queues -> Seq(Nodes)]
      /\ Linked'
      /\ content'[Free] = Append(content[Free], n)
      /\ \A r \in Queues : r # Free => content'[r] = content[r]
      /\ \A r \in Queues : first[r] # Nil => first'[r] = first[r]
  BY <1>1, <1>2, <1>3, AddLinked
<1>5. /\ \A r, s \in Queues : \A i \in DOMAIN content'[r], j \in DOMAIN content'[s] :
           content'[r][i] = content'[s][j] => r = s /\ i = j
      /\ \A r \in Queues : \A i \in DOMAIN content'[r] :
           content'[r][i] = n \/ \E j \in DOMAIN content[r] : content'[r][i] = content[r][j]
  <2>1. \A r \in Queues : \A i \in DOMAIN content[r] : content[r][i] # n
    BY <1>3
  <2>2. Free \in Queues /\ n \in Nodes
    BY <1>2
  <2>3. QED
    BY <1>1, <1>4, <2>1, <2>2, AddPlaces
<1>6. filled' \in 0 .. MaxNodes /\ filled' > n /\ n = filled
  BY <1>2, PcapAssumption DEF n
<1>7. TypeOK'
  BY <1>1, <1>2, <1>4, <1>6 DEF TypeOK
<1>8. OnePlace'
  <2>1. \A m \in Movers : pc'[m] = "add" => got'[m] \in Nat /\ got'[m] < n /\ got'[m] # n
    <3> SUFFICES ASSUME NEW m \in Movers, pc[m] = "add"
                 PROVE  got[m] \in Nat /\ got[m] < n /\ got[m] # n
      BY <1>2
    <3>1. got[m] \in Nat /\ got[m] < n
      BY <1>1, <1>6, NodeFacts DEF TypeOK, OnePlace
    <3>2. QED
      BY <1>2, <1>6, <3>1
  <2>2. \A q \in Queues : \A i \in DOMAIN content'[q] : content'[q][i] < filled'
    BY <1>2, <1>3, <1>5, <1>6
  <2>3. ASSUME NEW m \in Movers, pc'[m] = "add"
        PROVE  /\ \A q \in Queues : \A i \in DOMAIN content'[q] : content'[q][i] # got'[m]
               /\ \A k \in Movers : pc'[k] = "add" /\ got'[k] = got'[m] => m = k
               /\ got'[m] < filled'
    <3>1. \A q \in Queues : \A i \in DOMAIN content'[q] : content'[q][i] # got'[m]
      BY <1>1, <1>2, <1>5, <2>1, <2>3 DEF OnePlace
    <3>2. \A k \in Movers : pc'[k] = "add" /\ got'[k] = got'[m] => m = k
      BY <1>1, <1>2, <2>3 DEF OnePlace
    <3>3. got'[m] < filled'
      BY <1>2, <1>6, <2>1, <2>3
    <3>4. QED
      BY <3>1, <3>2, <3>3
  <2>4. QED
    BY <1>5, <2>2, <2>3 DEF OnePlace
<1>9. RemoveFindsFirst'
  BY <1>1, <1>2, <1>4, NodeFacts, PcapAssumption DEF RemoveFindsFirst, TypeOK
<1>10. QED
  BY <1>4, <1>7, <1>8, <1>9 DEF IInv

\* The node offered is the first, and a queue offers it to one mover only.
LEMMA GetStep == ASSUME IInv, NEW m \in Movers, GetNode(m) PROVE IInv'
<1>1. TypeOK /\ Linked /\ OnePlace /\ RemoveFindsFirst
  BY DEF IInv
<1>2. /\ From[m] \in Queues /\ first[From[m]] \in Nodes
      /\ got' = [got EXCEPT ![m] = first[From[m]]]
      /\ pc' = [pc EXCEPT ![m] = "remove"]
      /\ UNCHANGED <<next, first, end, count, filled, content>>
  BY <1>1, PcapAssumption DEF GetNode, Available, Offered, header, TypeOK
<1>3. TypeOK'
  BY <1>1, <1>2 DEF TypeOK
<1>4. Linked'
  BY <1>1, <1>2 DEF Linked
<1>5. \A k \in Movers : pc'[k] = "add" => k # m /\ pc[k] = "add" /\ got'[k] = got[k]
  BY <1>1, <1>2 DEF TypeOK
<1>6. OnePlace'
  BY <1>1, <1>2, <1>5 DEF OnePlace
<1>7. RemoveFindsFirst'
  BY <1>1, <1>2 DEF RemoveFindsFirst, TypeOK
<1>8. QED
  BY <1>3, <1>4, <1>6, <1>7 DEF IInv

\* The node leaves its queue for the hands of the mover.
LEMMA RemoveStep == ASSUME IInv, NEW m \in Movers, RemoveNode(m) PROVE IInv'
<1> DEFINE q == From[m]
           n == got[m]
<1>1. TypeOK /\ Linked /\ OnePlace /\ RemoveFindsFirst
  BY DEF IInv
<1>2. /\ q \in Queues /\ n \in Nodes /\ first[q] = n /\ NodeRemove(q, n)
      /\ \A k \in Movers : k # m => From[k] # q
  BY <1>1, PcapAssumption DEF RemoveNode, RemoveFindsFirst, TypeOK
<1>3. /\ UNCHANGED <<next, filled, got>>
      /\ \A k \in Movers : k # m => pc'[k] = pc[k]
      /\ pc'[m] \in {"get", "add"}
      /\ pc' \in [Movers -> {"get", "remove", "add"}]
  BY <1>1 DEF RemoveNode, TypeOK
<1>4. /\ first' \in [Queues -> Nodes \cup {Nil}]
      /\ end' \in [Queues -> Nodes \cup {Nil}]
      /\ count' \in [Queues -> Nat]
      /\ content' \in [Queues -> Seq(Nodes)]
      /\ Linked'
      /\ content[q] # <<>> /\ content[q][1] = n
      /\ \A i \in DOMAIN content'[q] :
           i + 1 \in DOMAIN content[q] /\ content'[q][i] = content[q][i + 1]
      /\ \A r \in Queues : r # q => content'[r] = content[r] /\ first'[r] = first[r]
  BY <1>1, <1>2, <1>3, RemoveLinked
<1>5. 1 \in DOMAIN content[q] /\ n < filled
  <2>1. content[q] \in Seq(Nodes) /\ Len(content[q]) \in Nat \ {0}
    BY <1>2, <1>1, <1>4, EmptySeq DEF TypeOK
  <2>2. 1 \in DOMAIN content[q]
    BY <2>1
  <2>3. QED
    BY <1>1, <1>2, <1>4, <2>2 DEF OnePlace
<1> HIDE DEF q, n
<1>6. TypeOK'
  <2>1. \A k \in Movers : pc'[k] # "get" => got'[k] \in Nodes
    BY <1>1, <1>2, <1>3 DEF TypeOK, n
  <2>2. QED
    BY <1>1, <1>3, <1>4, <2>1 DEF TypeOK
<1>7. ASSUME NEW r \in Queues, NEW i \in DOMAIN content'[r]
      PROVE  /\ content'[r][i] # n
             /\ \E j \in DOMAIN content[r] :
                  content'[r][i] = content[r][j] /\ j = (IF r = q THEN i + 1 ELSE i)
  <2>1. CASE r = q
    <3>1. i \in Nat \ {0} /\ i + 1 \in DOMAIN content[q] /\ content'[q][i] = content[q][i + 1]
      BY <1>2, <1>4, <1>7, <2>1
    <3>2. i + 1 # 1
      BY <3>1
    <3>3. content[q][i + 1] # content[q][1]
      BY <1>1, <1>2, <1>5, <3>1, <3>2 DEF OnePlace
    <3>4. QED
      BY <1>4, <2>1, <3>1, <3>3
  <2>2. CASE r # q
    <3>1. content'[r] = content[r]
      BY <1>4, <2>2
    <3>2. content[r][i] # content[q][1]
      BY <1>1, <1>2, <1>5, <1>7, <2>2, <3>1 DEF OnePlace
    <3>3. QED
      BY <1>4, <1>7, <2>2, <3>1, <3>2
  <2>3. QED
    BY <2>1, <2>2
<1>8. OnePlace'
  <2>1. ASSUME NEW r \in Queues, NEW s \in Queues,
               NEW i \in DOMAIN content'[r], NEW j \in DOMAIN content'[s],
               content'[r][i] = content'[s][j]
        PROVE  r = s /\ i = j
    <3>1. PICK a \in DOMAIN content[r] :
            content'[r][i] = content[r][a] /\ a = (IF r = q THEN i + 1 ELSE i)
      BY <1>7
    <3>2. PICK b \in DOMAIN content[s] :
            content'[s][j] = content[s][b] /\ b = (IF s = q THEN j + 1 ELSE j)
      BY <1>7
    <3>3. r = s /\ a = b
      <4>1. content[r][a] = content[s][b]
        BY <2>1, <3>1, <3>2
      <4>2. \A x, y \in Queues : \A f \in DOMAIN content[x], g \in DOMAIN content[y] :
              content[x][f] = content[y][g] => x = y /\ f = g
        BY <1>1 DEF OnePlace
      <4>3. a \in DOMAIN content[r] /\ b \in DOMAIN content[s]
        BY <3>1, <3>2
      <4>4. QED
        BY <4>1, <4>2, <4>3
    <3>4. i \in Nat /\ j \in Nat
      BY <1>4
    <3>5. QED
      BY <3>1, <3>2, <3>3, <3>4
  <2>2. ASSUME NEW k \in Movers, pc'[k] = "add"
        PROVE  /\ got'[k] < filled'
               /\ \A r \in Queues : \A i \in DOMAIN content'[r] : content'[r][i] # got'[k]
    <3>1. CASE k = m
      BY <1>3, <1>5, <1>7, <3>1 DEF n
    <3>2. CASE k # m
      BY <1>1, <1>3, <1>7, <2>2, <3>2 DEF OnePlace
    <3>3. QED
      BY <3>1, <3>2
  <2>3. ASSUME NEW k \in Movers, pc'[k] = "add", NEW l \in Movers, pc'[l] = "add",
               got'[l] = got'[k]
        PROVE  k = l
    <3>1. \A x \in Movers : x # m /\ pc[x] = "add" => got[x] # got[m]
      BY <1>1, <1>2, <1>4, <1>5 DEF OnePlace, n
    <3>2. QED
      BY <1>1, <1>3, <2>3, <3>1 DEF OnePlace
  <2>4. \A r \in Queues : \A i \in DOMAIN content'[r] : content'[r][i] < filled'
    BY <1>1, <1>3, <1>7 DEF OnePlace
  <2>5. QED
    BY <2>1, <2>2, <2>3, <2>4 DEF OnePlace
<1>9. RemoveFindsFirst'
  <2> SUFFICES ASSUME NEW k \in Movers, pc'[k] = "remove"
               PROVE  first'[From[k]] = got'[k]
    BY DEF RemoveFindsFirst
  <2>1. k # m /\ pc[k] = "remove" /\ From[k] # q /\ From[k] \in Queues
    BY <1>2, <1>3, PcapAssumption
  <2>2. QED
    BY <1>1, <1>3, <1>4, <2>1 DEF RemoveFindsFirst
<1>10. QED
  BY <1>4, <1>6, <1>8, <1>9 DEF IInv

\* The node goes from the hands of the mover to the end of a queue.
LEMMA AddStep == ASSUME IInv, NEW m \in Movers, AddNode(m) PROVE IInv'
<1> DEFINE q == To[m]
           n == got[m]
<1>1. TypeOK /\ Linked /\ OnePlace /\ RemoveFindsFirst
  BY DEF IInv
<1>2. /\ q \in Queues /\ n \in Nodes /\ NodeAdd(q, n) /\ pc[m] = "add" /\ n < filled
      /\ \A r \in Queues : \A i \in DOMAIN content[r] : content[r][i] # n
  BY <1>1, PcapAssumption DEF AddNode, OnePlace, TypeOK
<1>3. /\ filled' = filled
      /\ \A k \in Movers : k # m => pc'[k] = pc[k] /\ got'[k] = got[k]
      /\ pc'[m] = "get"
      /\ pc' \in [Movers -> {"get", "remove", "add"}]
      /\ got' \in [Movers -> Nodes \cup {None}]
  BY <1>1 DEF AddNode, TypeOK
<1>4. \A k \in Movers : k # m /\ pc[k] = "add" => got[k] # n
  BY <1>1, <1>2 DEF OnePlace
<1> HIDE DEF q, n
<1>5. /\ next' \in [Nodes -> Nodes \cup {Nil}]
      /\ first' \in [Queues -> Nodes \cup {Nil}]
      /\ end' \in [Queues -> Nodes \cup {Nil}]
      /\ count' \in [Queues -> Nat]
      /\ content' \in [Queues -> Seq(Nodes)]
      /\ Linked'
      /\ content'[q] = Append(content[q], n)
      /\ \A r \in Queues : r # q => content'[r] = content[r]
      /\ \A r \in Queues : first[r] # Nil => first'[r] = first[r]
  BY <1>1, <1>2, AddLinked
<1>6. /\ \A r, s \in Queues : \A i \in DOMAIN content'[r], j \in DOMAIN content'[s] :
           content'[r][i] = content'[s][j] => r = s /\ i = j
      /\ \A r \in Queues : \A i \in DOMAIN content'[r] :
           content'[r][i] = n \/ \E j \in DOMAIN content[r] : content'[r][i] = content[r][j]
  BY <1>1, <1>2, <1>5, AddPlaces, ZenonT(40)
<1>7. TypeOK'
  <2>1. \A k \in Movers : pc'[k] # "get" => got'[k] \in Nodes
    BY <1>1, <1>3 DEF TypeOK
  <2>2. QED
    BY <1>1, <1>3, <1>5, <2>1 DEF TypeOK
<1>8. OnePlace'
  <2>1. ASSUME NEW k \in Movers, pc'[k] = "add"
        PROVE  /\ \A r \in Queues : \A i \in DOMAIN content'[r] : content'[r][i] # got'[k]
               /\ \A l \in Movers : pc'[l] = "add" /\ got'[l] = got'[k] => k = l
               /\ got'[k] < filled'
    <3>1. k # m /\ pc[k] = "add" /\ got'[k] = got[k] /\ got[k] # n
      BY <1>3, <1>4, <2>1
    <3>2. \A r \in Queues : \A i \in DOMAIN content'[r] : content'[r][i] # got'[k]
      BY <1>1, <1>6, <3>1 DEF OnePlace
    <3>3. \A l \in Movers : pc'[l] = "add" /\ got'[l] = got'[k] => k = l
      BY <1>1, <1>3, <3>1 DEF OnePlace
    <3>4. QED
      BY <1>1, <1>3, <3>1, <3>2, <3>3 DEF OnePlace
  <2>2. \A r \in Queues : \A i \in DOMAIN content'[r] : content'[r][i] < filled'
    BY <1>1, <1>2, <1>3, <1>6 DEF OnePlace
  <2>3. QED
    BY <1>6, <2>1, <2>2 DEF OnePlace
<1>9. RemoveFindsFirst'
  <2> SUFFICES ASSUME NEW k \in Movers, pc'[k] = "remove"
               PROVE  first'[From[k]] = got'[k]
    BY DEF RemoveFindsFirst
  <2>1. k # m /\ pc[k] = "remove" /\ got'[k] = got[k] /\ From[k] \in Queues
    BY <1>3, PcapAssumption
  <2>2. first[From[k]] = got[k] /\ got[k] \in Nodes
    BY <1>1, <2>1 DEF RemoveFindsFirst, TypeOK
  <2>3. QED
    BY <1>5, <2>1, <2>2, NodeFacts
<1>10. QED
  BY <1>5, <1>7, <1>8, <1>9 DEF IInv

\* The inductive invariant holds in every state, however many nodes the table has
\* and whichever queues the movers work on, as long as no two take from one queue.
THEOREM Invariance == Spec => []IInv
<1>1. ASSUME IInv, [Next]_vars PROVE IInv'
  <2>1. CASE Fill
    BY <1>1, <2>1, FillStep
  <2>2. ASSUME NEW m \in Movers, GetNode(m) PROVE IInv'
    BY <1>1, <2>2, GetStep
  <2>3. ASSUME NEW m \in Movers, RemoveNode(m) PROVE IInv'
    BY <1>1, <2>3, RemoveStep
  <2>4. ASSUME NEW m \in Movers, AddNode(m) PROVE IInv'
    BY <1>1, <2>4, AddStep
  <2>5. CASE UNCHANGED vars
    BY <1>1, <2>5 DEF vars, header, IInv, TypeOK, Linked, OnePlace, RemoveFindsFirst
  <2>6. QED
    BY <1>1, <2>1, <2>2, <2>3, <2>4, <2>5 DEF Next
<1>2. QED
  BY InitInv, <1>1, PTL DEF Spec

\* The headers and the next indices of the table always describe the lists of
\* the nodes added and not yet removed (the functions of writer2_common.c).
THEOREM ListsStayWhole == Spec => []Linked
<1>1. IInv => Linked
  BY DEF IInv
<1>2. QED
  BY Invariance, <1>1, PTL

\* No node is in two queues, or in a queue and in the hands of a mover.
THEOREM NodesInOnePlace == Spec => []OnePlace
<1>1. IInv => OnePlace
  BY DEF IInv
<1>2. QED
  BY Invariance, <1>1, PTL

\* Where a queue has one mover, *NodeRemove always finds its node first, and so
\* never reports SUCCESS for a node it left in place.
THEOREM RemoveNeverMisses == Spec => []RemoveFindsFirst
<1>1. IInv => RemoveFindsFirst
  BY DEF IInv
<1>2. QED
  BY Invariance, <1>1, PTL

\* Headers and indices stay within the table, and a mover holds a node.
THEOREM TypeCorrect == Spec => []TypeOK
<1>1. IInv => TypeOK
  BY DEF IInv
<1>2. QED
  BY Invariance, <1>1, PTL

-----------------------------------------------------------------------------
\* A node that is added stays in, and joins, the nodes of the queues.
LEMMA AddedIn ==
  ASSUME TypeOK, NEW q \in Queues, NEW n \in Nodes, NodeAdd(q, n)
  PROVE  /\ \A r \in Queues, x \in Nodes : x \in ToSet(content[r]) => x \in ToSet(content'[r])
         /\ n \in ToSet(content'[q])
<1>1. /\ content[q] \in Seq(Nodes) /\ content'[q] = Append(content[q], n)
      /\ \A r \in Queues : r # q => content'[r] = content[r]
  BY DEF TypeOK, NodeAdd
<1>2. LET c == content[q] IN
        /\ DOMAIN Append(c, n) = 1 .. Len(c) + 1 /\ DOMAIN c = 1 .. Len(c) /\ Len(c) \in Nat
        /\ Append(c, n)[Len(c) + 1] = n
        /\ \A i \in DOMAIN c : Append(c, n)[i] = c[i]
  BY <1>1
<1>3. n \in ToSet(content'[q])
  BY <1>1, <1>2 DEF ToSet
<1>4. \A x \in Nodes : x \in ToSet(content[q]) => x \in ToSet(content'[q])
  BY <1>1, <1>2 DEF ToSet
<1>5. QED
  BY <1>1, <1>3, <1>4

\* A node leaves its queue only in the hands of the mover that removes it.
LEMMA NothingLostStep ==
  ASSUME IInv, NothingLost, [Next]_vars
  PROVE  NothingLost'
<1>1. CASE Fill
  <2>1. filled \in Nodes /\ filled' = filled + 1 /\ NodeAdd(Free, filled) /\ UNCHANGED <<pc, got>>
    BY <1>1, PcapAssumption DEF Fill, IInv, TypeOK, Nodes
  <2>2. /\ \A r \in Queues, x \in Nodes : x \in ToSet(content[r]) => x \in ToSet(content'[r])
        /\ filled \in ToSet(content'[Free])
    BY <2>1, AddedIn, PcapAssumption DEF IInv
  <2>3. ASSUME NEW n \in 0 .. filled' - 1
        PROVE  \/ \E q \in Queues : n \in ToSet(content'[q])
               \/ \E m \in Movers : pc'[m] = "add" /\ got'[m] = n
    <3>1. n \in Nodes /\ (n = filled \/ n \in 0 .. filled - 1)
      BY <2>1, PcapAssumption DEF Nodes
    <3>2. QED
      BY <2>1, <2>2, <3>1, PcapAssumption DEF NothingLost
  <2>4. QED
    BY <2>3 DEF NothingLost
<1>2. ASSUME NEW m \in Movers, GetNode(m)
      PROVE  NothingLost'
  <2>1. /\ UNCHANGED <<content, filled>> /\ pc[m] = "get"
        /\ \A k \in Movers : k # m => pc'[k] = pc[k] /\ got'[k] = got[k]
    BY <1>2 DEF GetNode, IInv, TypeOK
  <2>2. QED
    BY <2>1 DEF NothingLost
<1>3. ASSUME NEW m \in Movers, RemoveNode(m)
      PROVE  NothingLost'
  <2> DEFINE q == From[m]
             c == content[q]
  <2>1. /\ pc[m] = "remove" /\ first[q] = got[m] /\ got[m] \in Nodes /\ q \in Queues
        /\ UNCHANGED <<got, filled>> /\ NodeRemove(q, got[m])
        /\ pc' = [pc EXCEPT ![m] = IF end[q] = Nil THEN "get" ELSE "add"]
    BY <1>3, PcapAssumption DEF RemoveNode, IInv, RemoveFindsFirst, TypeOK
  <2>2. c \in Seq(Nodes) /\ c # <<>> /\ c[1] = got[m] /\ end[q] # Nil
    <3>1. c \in Seq(Nodes)
      BY <2>1 DEF IInv, TypeOK
    <3>2. /\ first[q] = IF c = <<>> THEN Nil ELSE c[1]
          /\ end[q] = IF c = <<>> THEN Nil ELSE c[Len(c)]
      BY <2>1 DEF IInv, Linked
    <3>3. c # <<>> /\ c[1] = got[m]
      BY <2>1, <3>2, NodeFacts
    <3>4. Len(c) \in DOMAIN c /\ c[Len(c)] \in Nodes
      BY <3>1, <3>3
    <3>5. QED
      BY <3>1, <3>2, <3>3, <3>4, NodeFacts
  <2>3. content'[q] = Tail(c) /\ \A r \in Queues : r # q => content'[r] = content[r]
    BY <2>1 DEF NodeRemove, IInv, TypeOK
  <2>4. pc'[m] = "add" /\ \A k \in Movers : k # m => pc'[k] = pc[k]
    BY <2>1, <2>2 DEF IInv, TypeOK
  <2>5. ASSUME NEW x \in ToSet(c), x # got[m]
        PROVE  x \in ToSet(Tail(c))
    <3>1. PICK i \in DOMAIN c : c[i] = x
      BY DEF ToSet
    <3>2. i \in 2 .. Len(c) /\ Len(c) \in Nat
      BY <2>2, <2>5, <3>1
    <3>3. i - 1 \in DOMAIN Tail(c) /\ Tail(c)[i - 1] = x
      BY <2>2, <3>1, <3>2
    <3>4. QED
      BY <3>3 DEF ToSet
  <2> HIDE DEF c, q
  <2>6. ASSUME NEW n \in 0 .. filled' - 1
        PROVE  \/ \E r \in Queues : n \in ToSet(content'[r])
               \/ \E k \in Movers : pc'[k] = "add" /\ got'[k] = n
    <3>1. CASE n = got[m]
      BY <2>1, <2>4, <3>1
    <3>2. CASE n # got[m] /\ \E r \in Queues : n \in ToSet(content[r])
      BY <2>1, <2>3, <2>5, <3>2 DEF c
    <3>3. CASE \E k \in Movers : pc[k] = "add" /\ got[k] = n
      BY <2>1, <2>4, <3>3
    <3>4. QED
      BY <2>1, <3>1, <3>2, <3>3 DEF NothingLost
  <2>7. QED
    BY <2>6 DEF NothingLost
<1>4. ASSUME NEW m \in Movers, AddNode(m)
      PROVE  NothingLost'
  <2>1. /\ pc[m] = "add" /\ got[m] \in Nodes /\ To[m] \in Queues
        /\ NodeAdd(To[m], got[m]) /\ UNCHANGED filled
        /\ \A k \in Movers : k # m => pc'[k] = pc[k] /\ got'[k] = got[k]
    BY <1>4, PcapAssumption DEF AddNode, IInv, TypeOK
  <2>2. /\ \A r \in Queues, x \in Nodes : x \in ToSet(content[r]) => x \in ToSet(content'[r])
        /\ got[m] \in ToSet(content'[To[m]])
    BY <2>1, AddedIn DEF IInv
  <2>3. ASSUME NEW n \in 0 .. filled' - 1
        PROVE  \/ \E r \in Queues : n \in ToSet(content'[r])
               \/ \E k \in Movers : pc'[k] = "add" /\ got'[k] = n
    <3>1. n \in Nodes /\ n \in 0 .. filled - 1
      BY <2>1, PcapAssumption DEF Nodes, IInv, TypeOK
    <3>2. CASE \E r \in Queues : n \in ToSet(content[r])
      BY <2>2, <3>1, <3>2
    <3>3. CASE \E k \in Movers : pc[k] = "add" /\ got[k] = n
      BY <2>1, <2>2, <3>3
    <3>4. QED
      BY <3>1, <3>2, <3>3 DEF NothingLost
  <2>4. QED
    BY <2>3 DEF NothingLost
<1>5. CASE UNCHANGED vars
  BY <1>5 DEF vars, header, NothingLost
<1>6. QED
  BY <1>1, <1>2, <1>3, <1>4, <1>5 DEF Next

\* What writer2 has put in is in a queue or on its way, for ever, if no two movers take
\* from one queue: with two, the *NodeRemove of the slower one may remove nothing, and the
\* node it adds is linked twice (PcapAssumption excludes it).
THEOREM NodesKept == Spec => []NothingLost
<1>1. Init => NothingLost
  BY DEF Init, NothingLost
<1>2. IInv /\ NothingLost /\ [Next]_vars => NothingLost'
  BY NothingLostStep
<1>3. QED
  BY <1>1, <1>2, Invariance, PTL DEF Spec
=============================================================================
