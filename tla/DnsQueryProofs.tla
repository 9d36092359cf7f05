--------------------------- MODULE DnsQueryProofs ---------------------------
(***************************************************************************)
(* Proofs about DnsQuery, for any name servers, any resolv.conf, any plan  *)
(* of calls and any number of attempts: first who is asked, for which the  *)
(* messages are what they are, then how names and records are written and  *)
(* read, and that what is asked for and reported is right.                 *)
(***************************************************************************)
EXTENDS DnsQuery, SequenceFacts, TLAPS

LEMMA ConstantTypes ==
  /\ Loopback \in Servers /\ None \notin Servers /\ Attempts \in Nat /\ Attempts > 0
BY QueryAssumption

\* The addresses among the words of resolv.conf are addresses.
LEMMA ValidServers ==
  ASSUME NEW c \in Confs, c # None
  PROVE  Dropping(c, ToSet(c) \ Servers) \in Seq(Servers)
<1> DEFINE T == ToSet(c)
           S == T \ Servers
           r == Dropping(c, S)
<1>1. c \in Seq(T)
  BY QueryAssumption
<1>2. \A i \in DOMAIN c : c[i] \in T
  BY DEF ToSet
<1>3. PICK at : Selects(T, c, S, r, Len(c), at)
  BY <1>1, DroppingProps
<1> HIDE DEF T, r
<1>4. r \in Seq(T) /\ \A i \in 1 .. Len(r) : r[i] = c[at[i]] /\ c[at[i]] \notin S /\ at[i] \in 1 .. Len(c)
  BY <1>3 DEF Selects
<1>5. \A i \in 1 .. Len(r) : r[i] \in Servers
  <2>1. \A i \in 1 .. Len(r) : at[i] \in DOMAIN c
    BY <1>1, <1>4
  <2>2. QED
    BY <1>2, <1>4, <2>1
<1>6. Len(r) \in Nat /\ DOMAIN r = 1 .. Len(r) /\ r = [i \in 1 .. Len(r) |-> r[i]]
  BY <1>4
<1>7. r \in Seq(Servers)
  BY <1>5, <1>6
<1>8. QED
  BY <1>7 DEF r, T

\* __open_nameservers always finds one, and only the user's if there is one.
LEMMA OpenFinds ==
  ASSUME user \in Servers \cup {None}, conf \in Confs
  PROVE  /\ open_nameservers \in Seq(Servers) /\ open_nameservers # <<>>
         /\ user # None => open_nameservers = <<user>>
<1>1. CASE user # None
  BY <1>1 DEF open_nameservers
<1>2. CASE user = None /\ conf = None
  BY <1>2, ConstantTypes DEF open_nameservers
<1>3. CASE user = None /\ conf # None
  <2>1. Dropping(conf, ToSet(conf) \ Servers) \in Seq(Servers)
    BY <1>3, ValidServers
  <2>2. QED
    BY <1>3, <2>1, ConstantTypes DEF open_nameservers
<1>4. QED
  BY <1>1, <1>2, <1>3

\* One more attempt is counted with those over the same protocol.
LEMMA TriedAppend ==
  ASSUME NEW a \in Attempt, tried \in Seq(Attempt), tried' = Append(tried, a),
         NEW p \in {"udp", "tcp"}
  PROVE  Tried(p)' = IF a.proto = p THEN Append(Tried(p), a) ELSE Tried(p)
<1> DEFINE S == [proto : {"udp", "tcp"} \ {p}, to : Servers, idx : Nat]
<1>1. a \in S <=> a.proto # p
  BY DEF Attempt
<1> HIDE DEF S
<1>2. Dropping(Append(tried, a), S) = IF a \in S THEN Dropping(tried, S) ELSE Append(Dropping(tried, S), a)
  BY DroppingAppend
<1>3. Tried(p) = Dropping(tried, S) /\ Tried(p)' = Dropping(tried', S)
  BY DEF Tried, S
<1>4. QED
  BY <1>1, <1>2, <1>3

LEMMA TriedType ==
  ASSUME tried \in Seq(Attempt), NEW p \in {"udp", "tcp"}
  PROVE  Tried(p) \in Seq(Attempt)
BY DroppingProps DEF Tried, Selects

LEMMA InitIInv == Init => IInv
<1> SUFFICES ASSUME Init PROVE IInv
  OBVIOUS
<1>1. TypeOK
  BY ConstantTypes DEF Init, TypeOK, IsAddress
<1>2. Counted
  <2>1. \A p \in {"udp", "tcp"} : Tried(p) = <<>>
    BY DroppingEmpty DEF Init, Tried
  <2>2. QED
    BY <2>1 DEF Init, Counted, UnderWay
<1>3. OnlyUser /\ LengthKept
  BY DEF Init, OnlyUser, LengthKept
<1>4. QED
  BY <1>1, <1>2, <1>3 DEF Init, IInv

-----------------------------------------------------------------------------
LEMMA BeginKeeps ==
  ASSUME IInv, Begin
  PROVE  IInv'
<1>1. /\ pc = "idle" /\ calls # <<>> /\ pc' = "try" /\ proto' = "udp" /\ idx' = 0
      /\ retry' = Attempts /\ tried' = <<>>
      /\ servers' \in {open_nameservers, servers} /\ (servers = <<>> => servers' = open_nameservers)
      /\ UNCHANGED <<conf, given, user, calls, packet, len, fd, closed>>
  BY DEF Begin, input
<1>2. /\ user \in Servers \cup {None} /\ conf \in Confs /\ servers \in Seq(Servers)
      /\ ~fd /\ packet = <<>>
  BY <1>1 DEF IInv, TypeOK
<1>3. servers' \in Seq(Servers) /\ servers' # <<>>
  BY <1>1, <1>2, OpenFinds
<1>4. TypeOK'
  BY <1>1, <1>2, <1>3, ConstantTypes DEF TypeOK
<1>5. Counted'
  <2>1. \A p \in {"udp", "tcp"} : Tried(p)' = <<>>
    BY <1>1, DroppingEmpty DEF Tried
  <2>2. tried' \in Seq(Attempt) /\ Len(servers') \in Nat /\ Len(<<>>) = 0
    BY <1>1, <1>3
  <2>3. /\ \A p \in {"udp", "tcp"} : \A i \in DOMAIN Tried(p)' : Tried(p)'[i].idx = i - 1
        /\ Len(Tried(proto)') = 0
    BY <1>1, <2>1, <2>2
  <2>4. QED
    BY <1>1, <2>1, <2>2, ConstantTypes DEF Counted
<1>6. OnlyUser'
  <2>1. IsAddress(given) => given # None
    BY ConstantTypes DEF IsAddress
  <2>2. QED
    BY <1>1, <1>2, <2>1, OpenFinds DEF IInv, OnlyUser, IsAddress
<1>7. LengthKept'
  BY <1>1 DEF LengthKept
<1>8. QED
  BY <1>1, <1>2, <1>4, <1>5, <1>6, <1>7 DEF IInv

\* The end of a lookup, however it goes.
LEMMA DoneKeeps ==
  ASSUME IInv, pc' = "done", packet' = <<>>, fd' = FALSE, UNCHANGED <<conf, given, tried>>,
         idx' = idx \/ (UnderWay /\ idx' \in 0 .. Attempts),
         retry' = retry \/ (UnderWay /\ retry' \in 0 .. Attempts),
         proto' \in {"udp", "tcp"},
         close_nameservers \/ UNCHANGED <<servers, user, closed>>
  PROVE  IInv'
<1>1. user' \in Servers \cup {None} /\ servers' \in Seq(Servers)
  <2>1. user \in Servers \cup {None} /\ servers \in Seq(Servers) /\ <<>> \in Seq(Servers)
    BY DEF IInv, TypeOK
  <2>2. CASE servers' = <<>> /\ user' = None
    BY <2>1, <2>2
  <2>3. CASE UNCHANGED <<servers, user>>
    BY <2>1, <2>3
  <2>4. QED
    BY <2>2, <2>3 DEF close_nameservers
<1>2. TypeOK'
  BY <1>1 DEF IInv, TypeOK
<1>3. Counted'
  BY DEF IInv, Counted, UnderWay, Tried
<1>4. OnlyUser'
  BY DEF IInv, OnlyUser, close_nameservers, IsAddress
<1>5. LengthKept'
  BY DEF LengthKept, UnderWay
<1>6. QED
  BY <1>2, <1>3, <1>4, <1>5 DEF IInv

LEMMA FailsKeeps ==
  ASSUME IInv, NEW error, Fails(error), UNCHANGED <<input, proto, idx, retry, tried>>
  PROVE  IInv'
<1>1. /\ pc' = "done" /\ packet' = <<>> /\ fd' = FALSE
      /\ close_nameservers \/ UNCHANGED <<servers, user, closed>>
  BY DEF Fails
<1>2. UNCHANGED <<conf, given, tried>> /\ proto' \in {"udp", "tcp"}
  BY DEF input, IInv, TypeOK
<1>3. QED
  BY <1>1, <1>2, DoneKeeps

LEMMA AnsweredKeeps ==
  ASSUME IInv, NEW m, Answered(m), UNCHANGED <<input, proto, idx, retry, tried>>
  PROVE  IInv'
<1>1. /\ pc' = "done" /\ packet' = <<>> /\ fd' = FALSE /\ close_nameservers
  BY DEF Answered
<1>2. UNCHANGED <<conf, given, tried>> /\ proto' \in {"udp", "tcp"}
  BY DEF input, IInv, TypeOK
<1>3. QED
  BY <1>1, <1>2, DoneKeeps

\* On to the next server, from an attempt under way.
LEMMA NextServerKeeps ==
  ASSUME IInv, pc \in {"send", "poll", "body"}, NextServer,
         UNCHANGED <<input, user, servers, calls, proto, packet, tried, closed>>,
         ~reread' => UNCHANGED <<len, reread>>
  PROVE  IInv'
<1>1. /\ pc' = "try" /\ fd' = FALSE /\ idx' = idx + 1 /\ retry' = retry - 1
      /\ UNCHANGED <<conf, given>>
  BY DEF NextServer, input
<1>2. /\ idx \in Nat /\ retry = Attempts - idx /\ idx < Len(servers) /\ retry > 0
      /\ Len(Tried(proto)) = idx + 1 /\ Attempts \in Nat /\ Len(servers) \in Nat
      /\ idx \in 0 .. Attempts
  BY ConstantTypes DEF IInv, TypeOK, Counted, UnderWay
<1>3. idx' \in 0 .. Attempts /\ retry' \in 0 .. Attempts /\ retry' = Attempts - idx'
      /\ idx' <= Len(servers)
  BY <1>1, <1>2
<1>4. TypeOK'
  BY <1>1, <1>3 DEF IInv, TypeOK
<1>5. Counted'
  BY <1>1, <1>2, <1>3 DEF IInv, Counted, UnderWay, Tried
<1>6. OnlyUser'
  BY <1>1 DEF IInv, OnlyUser, IsAddress
<1>7. LengthKept'
  BY <1>1 DEF IInv, LengthKept, UnderWay
<1>8. QED
  BY <1>1, <1>4, <1>5, <1>6, <1>7 DEF IInv

\* An attempt is counted when its socket is asked for.
LEMMA TryFacts ==
  ASSUME IInv, pc = "try", ~Exhausted, Try, UNCHANGED <<proto, servers>>
  PROVE  /\ servers[idx + 1] \in Servers /\ idx \in Nat /\ idx < Len(servers) /\ retry > 0
         /\ idx < Attempts /\ retry = Attempts - idx /\ Len(servers) \in Nat
         /\ tried' \in Seq(Attempt)
         /\ \A p \in {"udp", "tcp"} : \A i \in DOMAIN Tried(p)' : Tried(p)'[i].idx = i - 1
         /\ Len(Tried(proto)') = idx + 1
         /\ proto = "udp" => Tried("tcp")' = <<>>
         /\ \A i \in DOMAIN tried' : \/ i \in DOMAIN tried /\ tried'[i] = tried[i]
                                     \/ tried'[i].to = servers[idx + 1]
<1> DEFINE a == [proto |-> proto, to |-> servers[idx + 1], idx |-> idx]
<1>1. /\ idx \in Nat /\ retry = Attempts - idx /\ idx <= Len(servers) /\ Len(servers) \in Nat
      /\ ~(idx >= Len(servers) \/ retry <= 0)
      /\ Len(Tried(proto)) = idx /\ proto \in {"udp", "tcp"} /\ servers \in Seq(Servers)
      /\ (proto = "udp" => Tried("tcp") = <<>>)
  BY DEF IInv, TypeOK, Counted, UnderWay, Exhausted
<1>2. idx < Len(servers) /\ retry > 0 /\ idx < Attempts
  BY <1>1, ConstantTypes
<1>3. servers[idx + 1] \in Servers
  BY <1>1, <1>2
<1>4. a \in Attempt /\ a.proto = proto /\ a.idx = idx /\ a.to = servers[idx + 1]
  BY <1>1, <1>3 DEF Attempt
<1>5. tried' = Append(tried, a) /\ tried \in Seq(Attempt)
  BY DEF Try, IInv, Counted
<1> HIDE DEF a
<1>6. tried' \in Seq(Attempt)
  BY <1>4, <1>5
<1>7. \A p \in {"udp", "tcp"} :
        /\ Tried(p) \in Seq(Attempt)
        /\ Tried(p)' = IF proto = p THEN Append(Tried(p), a) ELSE Tried(p)
  BY <1>4, <1>5, TriedAppend, TriedType
<1>8. \A p \in {"udp", "tcp"} : \A i \in DOMAIN Tried(p) : Tried(p)[i].idx = i - 1
  BY DEF IInv, Counted
<1>9. ASSUME NEW p \in {"udp", "tcp"}, NEW i \in DOMAIN Tried(p)'
      PROVE  Tried(p)'[i].idx = i - 1
  <2> DEFINE t == Tried(p)
  <2>1. t \in Seq(Attempt) /\ \A j \in DOMAIN t : t[j].idx = j - 1
    BY <1>7, <1>8
  <2>2. CASE proto # p
    BY <1>7, <1>9, <2>1, <2>2
  <2>3. CASE proto = p
    <3>1. Tried(p)' = Append(t, a) /\ Len(t) = idx
      BY <1>1, <1>7, <2>3
    <3> HIDE DEF t
    <3>2. \A j \in DOMAIN Append(t, a) : Append(t, a)[j].idx = j - 1
      <4>1. ASSUME NEW j \in DOMAIN Append(t, a)
            PROVE  Append(t, a)[j].idx = j - 1
        <5>1. j \in 1 .. idx + 1 /\ DOMAIN t = 1 .. idx
          BY <2>1, <3>1, <1>1
        <5>2. CASE j = idx + 1
          BY <1>1, <1>4, <2>1, <3>1, <5>2
        <5>3. CASE j # idx + 1
          <6>1. j \in DOMAIN t
            BY <1>1, <5>1, <5>3
          <6>2. Append(t, a)[j] = t[j]
            BY <2>1, <6>1
          <6>3. QED
            BY <2>1, <6>1, <6>2
        <5>4. QED
          BY <5>2, <5>3
      <4>2. QED
        BY <4>1
    <3>3. QED
      BY <1>9, <3>1, <3>2
  <2>4. QED
    BY <2>2, <2>3
<1>10. Len(Tried(proto)') = idx + 1
  BY <1>1, <1>7
<1>11. \A i \in DOMAIN tried' : (i \in DOMAIN tried /\ tried'[i] = tried[i]) \/ tried'[i].to = servers[idx + 1]
  BY <1>4, <1>5
<1>12. proto = "udp" => Tried("tcp")' = <<>>
  BY <1>1, <1>7
<1>13. QED
  BY <1>1, <1>2, <1>3, <1>6, <1>9, <1>10, <1>11, <1>12

\* The user's server is the only one that can be asked.
LEMMA TryUser ==
  ASSUME IInv, pc = "try", ~Exhausted, Try, UNCHANGED <<input, user, servers, closed, proto>>
  PROVE  OnlyUser'
<1>1. SUFFICES ASSUME IsAddress(given), ~closed
               PROVE  \A i \in DOMAIN tried' : tried'[i].to = given
  BY DEF IInv, OnlyUser, IsAddress, input
<1>2. servers \in {<<>>, <<given>>} /\ \A i \in DOMAIN tried : tried[i].to = given
  BY <1>1 DEF IInv, OnlyUser
<1>3. idx \in Nat /\ idx < Len(servers)
  BY TryFacts
<1>4. servers = <<given>> /\ idx = 0
  <2>1. CASE servers = <<>>
    BY <1>3, <2>1
  <2>2. CASE servers = <<given>>
    <3>1. Len(servers) = 1
      BY <2>2
    <3>2. QED
      BY <1>3, <2>2, <3>1
  <2>3. QED
    BY <1>2, <2>1, <2>2
<1>5. servers[idx + 1] = given
  BY <1>4
<1>6. QED
  BY <1>2, <1>5, TryFacts

LEMMA ConnectKeeps ==
  ASSUME IInv, Connect \/ CannotConnect
  PROVE  IInv'
<1>1. /\ pc = "try" /\ ~Exhausted /\ Try
      /\ UNCHANGED <<input, user, servers, calls, proto, packet, len, reread, closed>>
      /\ \/ pc' = "send" /\ fd' = TRUE /\ UNCHANGED <<idx, retry>>
         \/ pc' = "try" /\ fd' = FALSE /\ idx' = idx + 1 /\ retry' = retry - 1
  BY DEF Connect, CannotConnect, NextServer
<1>2. UNCHANGED <<conf, given>>
  BY <1>1 DEF input
<1>3. OnlyUser'
  BY <1>1, TryUser
<1>4. /\ idx \in Nat /\ idx < Len(servers) /\ retry > 0 /\ idx < Attempts
      /\ retry = Attempts - idx /\ Len(servers) \in Nat
      /\ tried' \in Seq(Attempt)
      /\ \A p \in {"udp", "tcp"} : \A i \in DOMAIN Tried(p)' : Tried(p)'[i].idx = i - 1
      /\ Len(Tried(proto)') = idx + 1
      /\ proto = "udp" => Tried("tcp")' = <<>>
  BY <1>1, TryFacts
<1>5. TypeOK'
  BY <1>1, <1>4, ConstantTypes DEF IInv, TypeOK
<1>6. Counted'
  <2>1. /\ idx' \in Nat /\ retry' = Attempts - idx' /\ idx' <= Len(servers)
        /\ pc' # "try" => idx' < Len(servers) /\ retry' > 0
        /\ idx + 1 = IF pc' = "try" THEN idx' ELSE idx' + 1
    BY <1>1, <1>4, ConstantTypes
  <2>2. QED
    BY <1>1, <1>4, <2>1 DEF Counted
<1>7. LengthKept'
  BY <1>1 DEF IInv, LengthKept, UnderWay
<1>8. QED
  BY <1>2, <1>3, <1>5, <1>6, <1>7 DEF IInv

LEMMA SendKeeps ==
  ASSUME IInv, Send
  PROVE  IInv'
<1>1. /\ pc = "send" /\ pc' = "poll" /\ packet' = Query
      /\ announced' = IF proto = "tcp" THEN len ELSE 0
      /\ UNCHANGED <<conf, given, user, servers, calls, proto, idx, retry, len, fd, tried, reread, closed>>
  BY DEF Send, input
<1>2. TypeOK'
  BY <1>1 DEF IInv, TypeOK
<1>3. Counted'
  BY <1>1 DEF IInv, Counted, UnderWay, Tried
<1>4. OnlyUser'
  BY <1>1 DEF IInv, OnlyUser, IsAddress
<1>5. LengthKept'
  <2>1. proto = "tcp" => packet' = packet
    BY <1>1 DEF Query
  <2>2. QED
    BY <1>1, <2>1 DEF IInv, LengthKept, UnderWay
<1>6. QED
  BY <1>1, <1>2, <1>3, <1>4, <1>5 DEF IInv

\* An answer over UDP that was cut is asked for over TCP, of the first server again.
LEMMA StartTcpKeeps ==
  ASSUME IInv, proto = "udp", pc = "poll", StartTcp, UNCHANGED <<input, calls, tried, reread>>
  PROVE  IInv'
<1>1. /\ proto' = "tcp" /\ pc' = "try" /\ idx' = 0 /\ retry' = Attempts /\ fd' = FALSE
      /\ len' = Len(packet') /\ UNCHANGED <<conf, given, servers, user, closed>>
  BY DEF StartTcp, input
<1>2. servers \in Seq(Servers) /\ servers # <<>> /\ calls # <<>>
  BY DEF IInv, TypeOK
<1>3. TypeOK'
  BY <1>1, <1>2, ConstantTypes DEF IInv, TypeOK
<1>4. Counted'
  <2>1. /\ \A p \in {"udp", "tcp"} : Tried(p)' = Tried(p)
        /\ Tried("tcp") = <<>> /\ tried \in Seq(Attempt)
    BY DEF IInv, Counted, UnderWay, Tried
  <2>2. Len(Tried("tcp")) = 0 /\ Len(servers) \in Nat
    BY <1>2, <2>1
  <2>3. (Len(Tried(proto)))' = 0
    BY <1>1, <2>1, <2>2
  <2>4. \A p \in {"udp", "tcp"} : \A i \in DOMAIN Tried(p)' : Tried(p)'[i].idx = i - 1
    BY <2>1 DEF IInv, Counted
  <2>5. QED
    BY <1>1, <2>1, <2>2, <2>3, <2>4, ConstantTypes DEF Counted
<1>5. OnlyUser'
  BY <1>1 DEF IInv, OnlyUser, IsAddress
<1>6. LengthKept'
  BY <1>1 DEF LengthKept
<1>7. QED
  BY <1>1, <1>3, <1>4, <1>5, <1>6 DEF IInv

LEMMA ReceiveUdpKeeps ==
  ASSUME IInv, ReceiveUdp
  PROVE  IInv'
<1>1. proto = "udp" /\ pc = "poll" /\ UNCHANGED <<input, calls, tried, reread>>
  BY DEF ReceiveUdp
<1>2. \/ NextServer /\ UNCHANGED <<user, servers, proto, packet, len, closed>>
      \/ StartTcp
      \/ (\E m : Answered(m)) /\ UNCHANGED <<proto, idx, retry, len>>
  BY DEF ReceiveUdp
<1>3. CASE NextServer /\ UNCHANGED <<user, servers, proto, packet, len, closed>>
  BY <1>1, <1>3, NextServerKeeps
<1>4. CASE StartTcp
  BY <1>1, <1>4, StartTcpKeeps
<1>5. CASE (\E m : Answered(m)) /\ UNCHANGED <<proto, idx, retry, len>>
  BY <1>1, <1>5, AnsweredKeeps
<1>6. QED
  BY <1>2, <1>3, <1>4, <1>5

LEMMA ReceiveLengthKeeps ==
  ASSUME IInv, ReceiveLength
  PROVE  IInv'
<1>1. /\ proto = "tcp" /\ pc = "poll" /\ reread' = TRUE
      /\ UNCHANGED <<input, calls, proto, idx, retry, tried, announced>>
      /\ \/ Fails("NO_RECOVERY")
         \/ pc' = "body" /\ UNCHANGED <<user, servers, packet, fd, closed>>
  BY DEF ReceiveLength
<1>2. CASE Fails("NO_RECOVERY")
  BY <1>1, <1>2, FailsKeeps
<1>3. CASE pc' = "body" /\ UNCHANGED <<user, servers, packet, fd, closed>>
  <2>1. UNCHANGED <<conf, given>>
    BY <1>1 DEF input
  <2>2. TypeOK'
    BY <1>1, <1>3 DEF IInv, TypeOK
  <2>3. Counted'
    BY <1>1, <1>3 DEF IInv, Counted, UnderWay, Tried
  <2>4. OnlyUser'
    BY <1>3, <1>1, <2>1 DEF IInv, OnlyUser, IsAddress
  <2>5. LengthKept'
    BY <1>1 DEF LengthKept
  <2>6. QED
    BY <2>1, <2>2, <2>3, <2>4, <2>5 DEF IInv
<1>4. QED
  BY <1>1, <1>2, <1>3

LEMMA ReceiveTcpKeeps ==
  ASSUME IInv, ReceiveTcp
  PROVE  IInv'
<1>1. pc = "body" /\ UNCHANGED <<input, calls, proto, len, tried, reread>>
  BY DEF ReceiveTcp
<1>2. \/ NextServer /\ UNCHANGED <<user, servers, packet, closed>>
      \/ (\E error : Fails(error)) /\ UNCHANGED <<idx, retry>>
      \/ (\E m : Answered(m)) /\ UNCHANGED <<idx, retry>>
  BY DEF ReceiveTcp
<1>3. CASE NextServer /\ UNCHANGED <<user, servers, packet, closed>>
  BY <1>1, <1>3, NextServerKeeps
<1>4. CASE (\E error : Fails(error)) /\ UNCHANGED <<idx, retry>>
  BY <1>1, <1>4, FailsKeeps
<1>5. CASE (\E m : Answered(m)) /\ UNCHANGED <<idx, retry>>
  BY <1>1, <1>5, AnsweredKeeps
<1>6. QED
  BY <1>2, <1>3, <1>4, <1>5

\* A step that changes nothing the invariant is about, or only goes on to the next call.
LEMMA ReturnKeeps ==
  ASSUME IInv, Return \/ UNCHANGED vars
  PROVE  IInv'
<1>1. CASE Return
  <2>1. /\ pc = "done" /\ pc' = "idle"
        /\ UNCHANGED <<conf, given, user, servers, proto, idx, retry, packet, len, fd, tried, closed>>
    BY <1>1 DEF Return, input, history
  <2>2. TypeOK'
    BY <2>1 DEF IInv, TypeOK
  <2>3. Counted' /\ LengthKept'
    BY <2>1 DEF IInv, Counted, LengthKept, UnderWay, Tried
  <2>4. OnlyUser'
    BY <2>1 DEF IInv, OnlyUser, IsAddress
  <2>5. QED
    BY <2>1, <2>2, <2>3, <2>4 DEF IInv
<1>2. CASE UNCHANGED vars
  BY <1>2 DEF IInv, TypeOK, Counted, OnlyUser, LengthKept, UnderWay, Tried, IsAddress, vars, input,
              history
<1>3. QED
  BY <1>1, <1>2

LEMMA NextIInv == IInv /\ [Next]_vars => IInv'
<1> SUFFICES ASSUME IInv, [Next]_vars PROVE IInv'
  OBVIOUS
<1>1. CASE GiveUp
  <2>1. \E error : Fails(error)
    BY <1>1 DEF GiveUp
  <2>2. UNCHANGED <<input, proto, idx, retry, tried>>
    BY <1>1 DEF GiveUp
  <2>3. QED
    BY <2>1, <2>2, FailsKeeps
<1>2. CASE CannotForm
  <2>1. \E error : Fails(error)
    BY <1>2 DEF CannotForm
  <2>2. UNCHANGED <<input, proto, idx, retry, tried>>
    BY <1>2 DEF CannotForm
  <2>3. QED
    BY <2>1, <2>2, FailsKeeps
<1>3. CASE NoAnswer
  <2>1. pc \in {"send", "poll", "body"} /\ NextServer
    BY <1>3 DEF NoAnswer
  <2>2. UNCHANGED <<input, user, servers, calls, proto, packet, len, tried, reread, closed>>
    BY <1>3 DEF NoAnswer, history
  <2>3. QED
    BY <2>1, <2>2, NextServerKeeps
<1>4. QED
  BY <1>1, <1>2, <1>3, BeginKeeps, ConnectKeeps, SendKeeps, ReceiveUdpKeeps, ReceiveLengthKeeps,
     ReceiveTcpKeeps, ReturnKeeps DEF Next

-----------------------------------------------------------------------------
\* The inductive invariant: attempts are counted by idx, and the user's server and the
\* length of the query are what they were while nothing has replaced them.
THEOREM Invariance == Spec => []IInv
<1>1. QED
  BY InitIInv, NextIInv, PTL DEF Spec

\* A socket is open exactly between socket and close, on all paths through a lookup,
\* and no packet is left allocated when it returns.
THEOREM TypeCorrect == Spec => []TypeOK
<1>1. IInv => TypeOK
  BY DEF IInv
<1>2. QED
  BY <1>1, Invariance, PTL

\* Lookups ask the user's server and no other as long as it is known, otherwise one
\* server after the other until the servers or the attempts are used up, and over TCP
\* with the length of the query before it, unless that of an answer has replaced it.
THEOREM AsksRight == Spec => []Asks
<1>1. IInv => UserFirst
  BY DEF IInv, OnlyUser, UserFirst
<1>2. IInv => LengthRight
  BY DEF IInv, LengthKept, LengthRight, UnderWay
<1>3. ASSUME IInv
      PROVE  InTurn
  <2>1. ASSUME NEW p \in {"udp", "tcp"}
        PROVE  \A i \in DOMAIN Tried(p) : Tried(p)[i].idx = i - 1
    BY <1>3 DEF IInv, Counted
  <2>2. ASSUME NEW p \in {"udp", "tcp"}, pc = "try", proto = p, Exhausted
        PROVE  Len(Tried(p)) = IF Len(servers) < Attempts THEN Len(servers) ELSE Attempts
    <3>1. /\ retry = Attempts - idx /\ idx <= Len(servers) /\ Len(Tried(p)) = idx
          /\ idx \in 0 .. Attempts /\ Len(servers) \in Nat
      BY <1>3, <2>2 DEF IInv, TypeOK, Counted, UnderWay
    <3>2. QED
      BY <2>2, <3>1, ConstantTypes DEF Exhausted
  <2>3. QED
    BY <2>1, <2>2 DEF InTurn
<1>4. IInv => Asks
  BY <1>1, <1>2, <1>3 DEF Asks
<1>5. QED
  BY <1>4, Invariance, PTL

-----------------------------------------------------------------------------
(* How names are written                                                   *)

\* encode_dotted, written out: what is left of the name after its first label and the dot
\* behind it, what has been written then, and the function.
After(rest) ==
  LET after == SubSeq(rest, Len(FirstLabel(rest)) + 1, Len(rest))
  IN  IF after # <<>> /\ Head(after) = Dot THEN Tail(after) ELSE after

Longer(rest, done) == done \o <<Len(FirstLabel(rest))>> \o FirstLabel(rest)

Encodes(maxlen, e) ==
  e = [at \in Seq(Octet) \X Seq(Octet) |->
        LET rest  == at[1]
            done  == at[2]
            label == FirstLabel(rest)
            n     == Len(label)
            after == SubSeq(rest, n + 1, Len(rest))
        IN  IF n = 0 THEN IF Len(done) + 1 > maxlen THEN Nothing ELSE Append(done, 0)
            ELSE IF Len(done) + n + 1 > maxlen THEN Nothing
            ELSE e[<<IF after # <<>> /\ Head(after) = Dot THEN Tail(after) ELSE after,
                     done \o <<n>> \o label>>]]

\* The first label ends at the end, at a dot or where it would be too long.
LEMMA FirstLabelIs ==
  ASSUME NEW rest \in Seq(Octet)
  PROVE  LET n == Len(FirstLabel(rest))
         IN  /\ n \in 0 .. Len(rest) /\ n <= LabelMax /\ FirstLabel(rest) = SubSeq(rest, 1, n)
             /\ \A i \in 1 .. n : rest[i] # Dot
             /\ n = Len(rest) \/ n = LabelMax \/ rest[n + 1] = Dot
<1> DEFINE N == Len(rest)
           Ends(k) == k = N \/ k = LabelMax \/ rest[k + 1] = Dot
           Label(k) == /\ k <= LabelMax /\ \A i \in 1 .. k : rest[i] # Dot
                       /\ k = N \/ k = LabelMax \/ rest[k + 1] = Dot
           E == {k \in 0 .. N : Ends(k)}
           c == CHOOSE k \in 0 .. N : Label(k)
<1>1. N \in Nat /\ LabelMax \in Nat /\ LabelMax \in 1 .. 63
  BY MessageAssumption
<1> HIDE DEF N
<1>2. N \in E /\ E \subseteq Nat
  BY <1>1
<1>3. PICK k \in E : \A j \in E : k <= j
  BY <1>2, LeastElement
<1>4. k \in 0 .. N /\ Ends(k)
  BY <1>3
<1>5. \A i \in 1 .. k : rest[i] # Dot
  <2>1. ASSUME NEW i \in 1 .. k
        PROVE  rest[i] # Dot
    <3>1. i - 1 \in 0 .. N /\ i - 1 + 1 = i /\ ~(k <= i - 1)
      BY <1>1, <1>4
    <3>2. i - 1 \notin E
      BY <1>3, <3>1, Zenon
    <3>3. QED
      BY <3>1, <3>2
  <2>2. QED
    BY <2>1
<1>6. k <= LabelMax
  <2>1. k > LabelMax => LabelMax \in E
    BY <1>1, <1>4
  <2>2. QED
    BY <1>1, <1>3, <1>4, <2>1
<1>7. Label(k)
  BY <1>4, <1>5, <1>6
<1>8. FirstLabel(rest) = SubSeq(rest, 1, c)
  BY DEF FirstLabel, N
<1> HIDE DEF Label, E, Ends
<1>9. c \in 0 .. N /\ Label(c)
  BY <1>4, <1>7
<1> HIDE DEF c
<1>10. Len(SubSeq(rest, 1, c)) = c
  BY <1>1, <1>9 DEF N
<1>11. QED
  BY <1>8, <1>9, <1>10 DEF Label, N

\* Pieces of sequences of octets are sequences of octets.
LEMMA Pieces ==
  ASSUME NEW s \in Seq(Octet), NEW a \in Nat \ {0}, NEW b \in Int, b <= Len(s)
  PROVE  /\ SubSeq(s, a, b) \in Seq(Octet)
         /\ Len(SubSeq(s, a, b)) = IF a <= b THEN b - a + 1 ELSE 0
         /\ \A i \in 1 .. Len(SubSeq(s, a, b)) : SubSeq(s, a, b)[i] = s[a + i - 1]
<1>1. Len(s) \in Nat /\ \A i \in 1 .. Len(s) : s[i] \in Octet
  OBVIOUS
<1>2. CASE a <= b
  BY <1>1, <1>2
<1>3. CASE a > b
  BY <1>1, <1>3
<1>4. QED
  BY <1>2, <1>3

\* A label is a sequence of octets.
LEMMA FirstLabelType ==
  ASSUME NEW rest \in Seq(Octet)
  PROVE  LET n == Len(FirstLabel(rest))
         IN  /\ FirstLabel(rest) \in Seq(Octet) /\ n \in 0 .. 63
             /\ \A i \in 1 .. n : FirstLabel(rest)[i] = rest[i]
<1> DEFINE n == Len(FirstLabel(rest))
<1>1. n \in 0 .. Len(rest) /\ n <= LabelMax /\ FirstLabel(rest) = SubSeq(rest, 1, n) /\ Len(rest) \in Nat
  BY FirstLabelIs
<1>2. LabelMax \in 1 .. 63
  BY MessageAssumption
<1> HIDE DEF n
<1>3. /\ SubSeq(rest, 1, n) \in Seq(Octet) /\ Len(SubSeq(rest, 1, n)) = n
      /\ \A i \in 1 .. Len(SubSeq(rest, 1, n)) : SubSeq(rest, 1, n)[i] = rest[1 + i - 1]
  BY <1>1, Pieces
<1>4. \A i \in 1 .. n : 1 + i - 1 = i
  BY <1>1
<1>5. FirstLabel(rest) \in Seq(Octet) /\ n \in 0 .. 63
  BY <1>1, <1>2, <1>3
<1>6. \A i \in 1 .. n : FirstLabel(rest)[i] = rest[i]
  BY <1>1, <1>3, <1>4
<1>7. QED
  BY <1>5, <1>6 DEF n

\* What is left of a name: less, and from behind the label and the dot.
LEMMA AfterIs ==
  ASSUME NEW rest \in Seq(Octet)
  PROVE  LET n == Len(FirstLabel(rest))
             N == Len(rest)
         IN  /\ After(rest) \in Seq(Octet)
             /\ After(rest) = IF n < N /\ rest[n + 1] = Dot
                                THEN SubSeq(rest, n + 2, N) ELSE SubSeq(rest, n + 1, N)
             /\ Len(After(rest)) <= N - n
<1> DEFINE n == Len(FirstLabel(rest))
           N == Len(rest)
           after == SubSeq(rest, n + 1, N)
<1>1. n \in 0 .. N /\ N \in Nat
  BY FirstLabelIs
<1>2. After(rest) = IF after # <<>> /\ Head(after) = Dot THEN Tail(after) ELSE after
  BY DEF After
<1> HIDE DEF n
<1>3. /\ after \in Seq(Octet) /\ Len(after) = N - n
      /\ \A i \in 1 .. Len(after) : after[i] = rest[n + 1 + i - 1]
  BY <1>1, Pieces
<1>4. CASE n < N
  <2>1. after # <<>> /\ Head(after) = rest[n + 1]
    <3>1. 1 \in 1 .. Len(after) /\ n + 1 + 1 - 1 = n + 1
      BY <1>1, <1>3, <1>4
    <3>2. after[1] = rest[n + 1]
      BY <1>3, <3>1
    <3> HIDE DEF after
    <3>3. after # <<>> /\ Head(after) = after[1]
      BY <1>3, <3>1
    <3>4. QED
      BY <3>2, <3>3
  <2>2. Tail(after) = SubSeq(rest, n + 2, N)
    BY <1>1, <1>4
  <2>3. Tail(after) \in Seq(Octet) /\ Len(Tail(after)) = N - n - 1
    BY <1>1, <1>3, <1>4, <2>1
  <2> HIDE DEF after, N
  <2>4. After(rest) = IF rest[n + 1] = Dot THEN SubSeq(rest, n + 2, N) ELSE after
    BY <1>2, <2>1, <2>2
  <2>5. After(rest) \in Seq(Octet) /\ Len(After(rest)) <= N - n
    <3>1. CASE rest[n + 1] = Dot
      <4>1. After(rest) = Tail(after)
        BY <2>2, <2>4, <3>1
      <4>2. QED
        BY <1>1, <2>3, <4>1
    <3>2. CASE rest[n + 1] # Dot
      <4>1. After(rest) = after
        BY <2>4, <3>2
      <4>2. QED
        BY <1>1, <1>3, <4>1 DEF N
    <3>3. QED
      BY <3>1, <3>2
  <2>6. After(rest) = IF n < N /\ rest[n + 1] = Dot
                        THEN SubSeq(rest, n + 2, N) ELSE SubSeq(rest, n + 1, N)
    BY <1>4, <2>4 DEF after
  <2>7. QED
    BY <2>5, <2>6 DEF n, N
<1>5. CASE n = N
  <2>1. after = <<>>
    BY <1>1, <1>3, <1>5
  <2> HIDE DEF after
  <2>2. QED
    BY <1>1, <1>2, <1>3, <1>5, <2>1 DEF n, after
<1>6. QED
  BY <1>1, <1>4, <1>5

\* What is written with one more label.
LEMMA LongerIs ==
  ASSUME NEW rest \in Seq(Octet), NEW done \in Seq(Octet)
  PROVE  LET n == Len(FirstLabel(rest))
             p == Len(done)
             w == Longer(rest, done)
         IN  /\ w \in Seq(Octet) /\ Len(w) = p + n + 1 /\ w[p + 1] = n
             /\ \A i \in 1 .. p : w[i] = done[i]
             /\ \A i \in 1 .. n : w[p + 1 + i] = rest[i]
<1> DEFINE label == FirstLabel(rest)
           n == Len(label)
<1>1. label \in Seq(Octet) /\ n \in 0 .. 63 /\ \A i \in 1 .. n : label[i] = rest[i]
  BY FirstLabelType
<1>2. Longer(rest, done) = done \o <<n>> \o label
  BY DEF Longer
<1> HIDE DEF label
<1>3. n \in Octet
  BY <1>1 DEF Octet
<1> DEFINE w == done \o <<n>> \o label
           p == Len(done)
<1>4. w \in Seq(Octet) /\ Len(w) = p + 1 + n /\ p \in Nat
  BY <1>1, <1>3
<1>5. w[p + 1] = n /\ \A i \in 1 .. p : w[i] = done[i]
  BY <1>1, <1>3
<1>6. \A i \in 1 .. n : w[p + 1 + i] = label[i]
  BY <1>1, <1>3
<1> HIDE DEF w
<1>7. QED
  BY <1>1, <1>2, <1>4, <1>5, <1>6 DEF w, label

\* encode_dotted exists as a function.
LEMMA EncodesExist ==
  ASSUME NEW maxlen \in Int
  PROVE  \E e : Encodes(maxlen, e)
<1> DEFINE S == Seq(Octet) \X Seq(Octet)
           n(at) == Len(FirstLabel(at[1]))
           stop == {at \in S : n(at) = 0 \/ Len(at[2]) + n(at) + 1 > maxlen}
           out == [at \in S |-> IF n(at) = 0 THEN IF Len(at[2]) + 1 > maxlen THEN Nothing ELSE Append(at[2], 0)
                                ELSE Nothing]
           next == [at \in S |-> <<After(at[1]), Longer(at[1], at[2])>>]
<1>1. \A at \in S \ stop : next[at] \in S
  <2>1. ASSUME NEW at \in S
        PROVE  next[at] \in S
    <3>1. at[1] \in Seq(Octet) /\ at[2] \in Seq(Octet)
      OBVIOUS
    <3>2. After(at[1]) \in Seq(Octet) /\ Longer(at[1], at[2]) \in Seq(Octet)
      BY <3>1, AfterIs, LongerIs
    <3>3. QED
      BY <3>2
  <2>2. QED
    BY <2>1
<1> HIDE DEF S, stop, out, next
<1>2. PICK e : Loops(S, stop, next, out, e)
  <2>1. stop \in SUBSET S
    BY DEF stop
  <2>2. QED
    BY <1>1, <2>1, LoopsExist
<1> DEFINE Body(at) ==
        LET rest  == at[1]
            done  == at[2]
            label == FirstLabel(rest)
            n0    == Len(label)
            after == SubSeq(rest, n0 + 1, Len(rest))
        IN  IF n0 = 0 THEN IF Len(done) + 1 > maxlen THEN Nothing ELSE Append(done, 0)
            ELSE IF Len(done) + n0 + 1 > maxlen THEN Nothing
            ELSE e[<<IF after # <<>> /\ Head(after) = Dot THEN Tail(after) ELSE after,
                     done \o <<n0>> \o label>>]
<1>3. ASSUME NEW at \in S
      PROVE  (IF at \in stop THEN out[at] ELSE e[next[at]]) = Body(at)
  <2> DEFINE rest == at[1]
             done == at[2]
             k == n(at)
             more == e[next[at]]
             full == Append(done, 0)
  <2>1. at \in stop <=> (k = 0 \/ Len(done) + k + 1 > maxlen)
    BY <1>3 DEF stop
  <2>2. out[at] = IF k = 0 THEN IF Len(done) + 1 > maxlen THEN Nothing ELSE full ELSE Nothing
    BY <1>3 DEF out
  <2>3. next[at] = <<After(rest), Longer(rest, done)>>
    BY <1>3 DEF next
  <2>4. Body(at) = IF k = 0 THEN IF Len(done) + 1 > maxlen THEN Nothing ELSE full
                   ELSE IF Len(done) + k + 1 > maxlen THEN Nothing ELSE e[<<After(rest), Longer(rest, done)>>]
    BY Zenon DEF After, Longer
  <2> HIDE DEF Body, more, full, k
  <2>5. Body(at) = IF k = 0 THEN IF Len(done) + 1 > maxlen THEN Nothing ELSE full
                   ELSE IF Len(done) + k + 1 > maxlen THEN Nothing ELSE more
    BY <2>3, <2>4, Zenon DEF more
  <2> HIDE DEF done
  <2>6. (IF at \in stop THEN out[at] ELSE more) = Body(at)
    BY <2>1, <2>2, <2>5, Zenon
  <2>7. QED
    BY <2>6 DEF more
<1>4. e = [at \in S |-> IF at \in stop THEN out[at] ELSE e[next[at]]]
  BY <1>2, Zenon DEF Loops
<1> HIDE DEF Body
<1>5. e = [at \in S |-> Body(at)]
  BY <1>3, <1>4, Zenon
<1>6. Encodes(maxlen, e)
  BY <1>5, Zenon DEF Encodes, Body, S
<1>7. QED
  BY <1>6

\* encode_dotted, one label at a time.
LEMMA EncodeTurn ==
  ASSUME NEW maxlen \in Int, NEW e, Encodes(maxlen, e),
         NEW rest \in Seq(Octet), NEW done \in Seq(Octet)
  PROVE  LET n == Len(FirstLabel(rest))
         IN  e[<<rest, done>>] =
               IF n = 0 THEN IF Len(done) + 1 > maxlen THEN Nothing ELSE Append(done, 0)
               ELSE IF Len(done) + n + 1 > maxlen THEN Nothing
               ELSE e[<<After(rest), Longer(rest, done)>>]
<1> DEFINE at == <<rest, done>>
<1>1. at \in Seq(Octet) \X Seq(Octet)
  OBVIOUS
<1>2. at[1] = rest /\ at[2] = done
  OBVIOUS
<1>3. e[at] =
        LET r     == at[1]
            d     == at[2]
            label == FirstLabel(r)
            n     == Len(label)
            after == SubSeq(r, n + 1, Len(r))
        IN  IF n = 0 THEN IF Len(d) + 1 > maxlen THEN Nothing ELSE Append(d, 0)
            ELSE IF Len(d) + n + 1 > maxlen THEN Nothing
            ELSE e[<<IF after # <<>> /\ Head(after) = Dot THEN Tail(after) ELSE after,
                     d \o <<n>> \o label>>]
  <2> HIDE DEF at
  <2>1. QED
    BY <1>1, Zenon DEF Encodes
<1> HIDE DEF at
<1>4. QED
  BY <1>2, <1>3, Zenon DEF After, Longer, at

\* Labels up to p: each begins at a mark, with its length, and the next mark is behind it.
Labelled(w, p, marks) ==
  /\ w \in Seq(Octet) /\ p \in 0 .. Len(w) /\ marks \subseteq 0 .. p /\ 0 \in marks /\ p \in marks
  /\ \A k \in marks \ {p} : w[k + 1] \in 1 .. 63 /\ k + 1 + w[k + 1] \in marks

\* They are those of the name, with marks where it has dots.
Spells(w, p, marks) ==
  \A k \in marks \ {p} :
    /\ k + w[k + 1] <= Len(name)
    /\ \A i \in 1 .. w[k + 1] : w[k + 1 + i] = name[k + i]
    /\ k + w[k + 1] = Len(name) \/ name[k + w[k + 1] + 1] = Dot

\* What encode_dotted makes of the name, if it fits, and what it has between two labels.
Coded(w, marks) ==
  LET p == Len(w) - 1
  IN  /\ w \in Seq(Octet) /\ w # <<>> /\ w[p + 1] = 0 /\ Labelled(w, p, marks)
      /\ GoodName => p = Len(name) + 1 /\ Spells(w, p, marks)

Coding(rest, done, marks) ==
  LET p == Len(done)
      N == Len(name)
  IN  /\ Labelled(done, p, marks)
      /\ GoodName => /\ p <= N + 1 /\ rest = SubSeq(name, p + 1, N)
                     /\ p = 0 \/ p = N + 1 \/ name[p] = Dot
                     /\ Spells(done, p, marks)

\* No label left: the name is at its end, if it has no empty label.
LEMMA CodedLast ==
  ASSUME name \in Seq(Octet), NEW rest \in Seq(Octet), NEW done \in Seq(Octet), NEW marks,
         Coding(rest, done, marks), Len(FirstLabel(rest)) = 0
  PROVE  Coded(Append(done, 0), marks)
<1> DEFINE p == Len(done)
           N == Len(name)
           w == Append(done, 0)
<1>1. 0 \in Octet /\ p \in Nat /\ N \in Nat /\ DOMAIN name = 1 .. N
  BY DEF Octet
<1>2. /\ w \in Seq(Octet) /\ w # <<>> /\ Len(w) = p + 1 /\ w[p + 1] = 0
      /\ \A i \in 1 .. p : w[i] = done[i]
  BY <1>1, SMTT(30)
<1>3. Labelled(done, p, marks)
  BY DEF Coding
<1> HIDE DEF w, p, N
<1>4. \A k \in marks \ {p} : k \in Nat /\ k + 1 \in 1 .. p /\ w[k + 1] = done[k + 1] /\ w[k + 1] \in 1 .. 63
                             /\ k + 1 + w[k + 1] <= p
  <2>1. ASSUME NEW k \in marks \ {p}
        PROVE  k \in Nat /\ k + 1 \in 1 .. p /\ w[k + 1] = done[k + 1] /\ w[k + 1] \in 1 .. 63
               /\ k + 1 + w[k + 1] <= p
    <3>1. k \in 0 .. p /\ k # p /\ done[k + 1] \in 1 .. 63 /\ k + 1 + done[k + 1] \in 0 .. p
      BY <1>3 DEF Labelled
    <3>2. k \in Nat /\ k + 1 \in 1 .. p
      BY <1>1, <3>1
    <3>3. w[k + 1] = done[k + 1]
      BY <1>2, <3>2
    <3>4. QED
      BY <3>1, <3>2, <3>3
  <2>2. QED
    BY <2>1
<1>5. Labelled(w, p, marks)
  <2>1. /\ marks \subseteq 0 .. p /\ 0 \in marks /\ p \in marks
        /\ \A k \in marks \ {p} : done[k + 1] \in 1 .. 63 /\ k + 1 + done[k + 1] \in marks
    BY <1>3 DEF Labelled
  <2>2. p \in 0 .. Len(w)
    BY <1>1, <1>2
  <2>3. \A k \in marks \ {p} : w[k + 1] \in 1 .. 63 /\ k + 1 + w[k + 1] \in marks
    BY <1>4, <2>1
  <2>4. QED
    BY <1>2, <2>1, <2>2, <2>3 DEF Labelled
<1>6. ASSUME GoodName
      PROVE  p = N + 1 /\ Spells(w, p, marks)
  <2>1. /\ p <= N + 1 /\ rest = SubSeq(name, p + 1, N) /\ Spells(done, p, marks)
        /\ p = 0 \/ p = N + 1 \/ name[p] = Dot
    BY <1>6 DEF Coding, p, N
  <2>2. /\ N # 0 /\ name[N] # Dot /\ name[1] # Dot
        /\ \A i \in 1 .. N - 1 : name[i] # Dot \/ name[i + 1] # Dot
    BY <1>1, <1>6 DEF GoodName, N
  <2>3. p <= N => Len(rest) = N - p /\ (Len(rest) # 0 => rest[1] = name[p + 1])
    <3> DEFINE piece == SubSeq(name, p + 1, N)
    <3>1. /\ Len(piece) = IF p + 1 <= N THEN N - (p + 1) + 1 ELSE 0
          /\ \A i \in 1 .. Len(piece) : piece[i] = name[p + 1 + i - 1]
      <4>1. p + 1 \in Nat \ {0} /\ N \in Int /\ N <= Len(name)
        BY <1>1 DEF N
      <4>2. QED
        BY <4>1, Pieces
    <3>2. piece = rest
      BY <2>1
    <3> HIDE DEF piece
    <3>3. p + 1 + 1 - 1 = p + 1 /\ (p <= N => Len(rest) = N - p)
      BY <1>1, <3>1, <3>2
    <3>4. p <= N /\ Len(rest) # 0 => 1 \in 1 .. Len(rest)
      BY <1>1, <3>3
    <3>5. QED
      BY <3>1, <3>2, <3>3, <3>4
  <2>4. Len(rest) = 0 \/ rest[1] = Dot
    <3>1. Len(rest) = 0 \/ LabelMax = 0 \/ rest[0 + 1] = Dot
      BY FirstLabelIs
    <3>2. LabelMax # 0
      BY MessageAssumption
    <3>3. QED
      BY <3>1, <3>2
  <2>5. p = N + 1
    <3>1. CASE p = N
      BY <1>1, <2>1, <2>2, <3>1
    <3>2. CASE p < N
      <4>1. name[p + 1] = Dot
        BY <1>1, <2>3, <2>4, <3>2
      <4>2. p # 0 /\ name[p] = Dot
        BY <1>1, <2>1, <2>2, <3>2, <4>1
      <4>3. p \in 1 .. N - 1
        BY <1>1, <3>2, <4>2
      <4>4. QED
        BY <2>2, <4>1, <4>2, <4>3
    <3>3. QED
      BY <1>1, <2>1, <3>1, <3>2
  <2>6. ASSUME NEW k \in marks \ {p}
        PROVE  /\ k + w[k + 1] <= N
               /\ \A i \in 1 .. w[k + 1] : w[k + 1 + i] = name[k + i]
               /\ k + w[k + 1] = N \/ name[k + w[k + 1] + 1] = Dot
    <3>1. k \in Nat /\ w[k + 1] = done[k + 1] /\ w[k + 1] \in 1 .. 63 /\ k + 1 + w[k + 1] <= p
      BY <1>4
    <3> DEFINE n == done[k + 1]
    <3>2. /\ k + n <= N /\ \A i \in 1 .. n : done[k + 1 + i] = name[k + i]
          /\ k + n = N \/ name[k + n + 1] = Dot
      BY <2>1 DEF Spells, N
    <3> HIDE DEF n
    <3>3. w[k + 1] = n /\ n \in 1 .. 63 /\ k + 1 + n <= p
      BY <3>1 DEF n
    <3>4. \A i \in 1 .. n : k + 1 + i \in 1 .. p
      BY <1>1, <3>1, <3>3
    <3>5. \A i \in 1 .. n : w[k + 1 + i] = done[k + 1 + i]
      BY <1>2, <3>4
    <3>6. QED
      BY <3>2, <3>3, <3>5
  <2>7. QED
    BY <2>5, <2>6 DEF Spells, N
<1>7. Len(w) - 1 = p
  BY <1>1, <1>2
<1>8. QED
  BY <1>1, <1>2, <1>5, <1>6, <1>7 DEF Coded, w, p, N

\* One label more: it is the next of the name, if it is not too long.
LEMMA CodingGoesOn ==
  ASSUME name \in Seq(Octet), NEW rest \in Seq(Octet), NEW done \in Seq(Octet), NEW marks,
         Coding(rest, done, marks), Len(FirstLabel(rest)) # 0
  PROVE  Coding(After(rest), Longer(rest, done), marks \cup {Len(Longer(rest, done))})
<1> DEFINE p == Len(done)
           N == Len(name)
           n == Len(FirstLabel(rest))
           w == Longer(rest, done)
           q == Len(w)
           more == marks \cup {q}
           R == Len(rest)
<1>1. p \in Nat /\ N \in Nat /\ DOMAIN name = 1 .. N /\ R \in Nat
  OBVIOUS
<1>2. /\ n \in 1 .. R /\ n <= LabelMax /\ LabelMax \in 1 .. 63
      /\ \A i \in 1 .. n : rest[i] # Dot
      /\ n = R \/ n = LabelMax \/ rest[n + 1] = Dot
  BY FirstLabelIs, MessageAssumption
<1>3. /\ w \in Seq(Octet) /\ q = p + n + 1 /\ w[p + 1] = n
      /\ \A i \in 1 .. p : w[i] = done[i]
      /\ \A i \in 1 .. n : w[p + 1 + i] = rest[i]
  BY LongerIs
<1>4. /\ marks \subseteq 0 .. p /\ 0 \in marks /\ p \in marks
      /\ \A k \in marks \ {p} : done[k + 1] \in 1 .. 63 /\ k + 1 + done[k + 1] \in marks
  BY DEF Coding, Labelled
<1>5. After(rest) = IF n < R /\ rest[n + 1] = Dot
                      THEN SubSeq(rest, n + 2, R) ELSE SubSeq(rest, n + 1, R)
  BY AfterIs
<1> HIDE DEF p, N, n, w, q, R
<1>6. \A k \in marks \ {p} : k \in Nat /\ k < p /\ w[k + 1] = done[k + 1] /\ w[k + 1] \in 1 .. 63
                             /\ k + 1 + w[k + 1] \in marks /\ k + 1 + w[k + 1] <= p
  <2>1. ASSUME NEW k \in marks \ {p}
        PROVE  k \in Nat /\ k < p /\ w[k + 1] = done[k + 1] /\ w[k + 1] \in 1 .. 63
               /\ k + 1 + w[k + 1] \in marks /\ k + 1 + w[k + 1] <= p
    <3>1. k \in 0 .. p /\ k # p /\ done[k + 1] \in 1 .. 63 /\ k + 1 + done[k + 1] \in 0 .. p
          /\ k + 1 + done[k + 1] \in marks
      BY <1>4
    <3>2. k \in Nat /\ k + 1 \in 1 .. p
      BY <1>1, <3>1
    <3>3. w[k + 1] = done[k + 1]
      BY <1>3, <3>2
    <3> DEFINE m == done[k + 1]
    <3>4. m \in 1 .. 63 /\ w[k + 1] = m /\ k + 1 + m \in 0 .. p /\ k + 1 + m \in marks
      BY <3>1, <3>3
    <3> HIDE DEF m
    <3>5. k < p /\ k + 1 + m <= p
      BY <1>1, <3>1, <3>4
    <3>6. w[k + 1] = done[k + 1]
      BY <3>3
    <3>7. QED
      BY <3>2, <3>4, <3>5, <3>6
  <2>2. QED
    BY <2>1
<1>7. \A k \in more \ {q} : k \in marks \ {p} \/ k = p
  OBVIOUS
<1>8. Labelled(w, q, more)
  <2>1. more \subseteq 0 .. q /\ 0 \in more /\ q \in more /\ q \in 0 .. Len(w)
    <3>1. q \in Nat /\ p <= q
      BY <1>1, <1>2, <1>3
    <3>2. q = Len(w)
      BY DEF q
    <3>3. \A k \in 0 .. p : k \in 0 .. q
      BY <1>1, <3>1
    <3>4. marks \subseteq 0 .. q /\ q \in 0 .. q
      BY <1>4, <3>1, <3>3
    <3>5. QED
      BY <1>4, <3>2, <3>4
  <2>2. ASSUME NEW k \in more \ {q}
        PROVE  w[k + 1] \in 1 .. 63 /\ k + 1 + w[k + 1] \in more
    <3>1. CASE k = p
      <4>1. w[k + 1] = n /\ n \in 1 .. 63 /\ k + 1 + n = q
        BY <1>1, <1>2, <1>3, <3>1
      <4>2. QED
        BY <4>1
    <3>2. CASE k \in marks \ {p}
      BY <1>6, <3>2
    <3>3. QED
      BY <1>7, <3>1, <3>2
  <2>3. QED
    BY <1>3, <2>1, <2>2 DEF Labelled
<1>9. ASSUME GoodName
      PROVE  /\ q <= N + 1 /\ After(rest) = SubSeq(name, q + 1, N)
             /\ q = 0 \/ q = N + 1 \/ name[q] = Dot
             /\ Spells(w, q, more)
  <2>1. /\ p <= N + 1 /\ rest = SubSeq(name, p + 1, N) /\ Spells(done, p, marks)
        /\ p = 0 \/ p = N + 1 \/ name[p] = Dot
    BY <1>9 DEF Coding, p, N
  <2>2. p < N /\ R = N - p /\ \A i \in 1 .. R : rest[i] = name[p + i]
    <3> DEFINE piece == SubSeq(name, p + 1, N)
    <3>1. /\ Len(piece) = IF p + 1 <= N THEN N - (p + 1) + 1 ELSE 0
          /\ \A i \in 1 .. Len(piece) : piece[i] = name[p + 1 + i - 1]
      <4>1. p + 1 \in Nat \ {0} /\ N \in Int /\ N <= Len(name)
        BY <1>1 DEF N
      <4>2. QED
        BY <4>1, Pieces
    <3>2. Len(piece) = R /\ piece = rest
      BY <2>1 DEF R
    <3> HIDE DEF piece
    <3>3. R # 0
      BY <1>1, <1>2
    <3>4. p < N /\ R = N - p /\ \A i \in 1 .. R : p + 1 + i - 1 = p + i
      BY <1>1, <3>1, <3>2, <3>3
    <3>5. QED
      BY <3>1, <3>2, <3>4
  <2>3. \A i, j \in 1 .. N : i <= j /\ j - i >= LabelMax => \E k \in i .. j : name[k] = Dot
    BY <1>1, <1>9 DEF GoodName
  <2>4. n = R \/ (n < R /\ rest[n + 1] = Dot)
    <3>1. SUFFICES ASSUME n < R, n = LabelMax PROVE rest[n + 1] = Dot
      BY <1>1, <1>2
    <3>2. p + 1 \in 1 .. N /\ p + 1 + n \in 1 .. N /\ p + 1 <= p + 1 + n
          /\ p + 1 + n - (p + 1) >= LabelMax
      BY <1>1, <1>2, <2>2, <3>1
    <3>3. PICK k \in p + 1 .. p + 1 + n : name[k] = Dot
      <4> DEFINE i == p + 1
                 j == p + 1 + n
      <4>1. i \in 1 .. N /\ j \in 1 .. N /\ i <= j /\ j - i >= LabelMax
        BY <1>1, <1>2, <2>2, <3>1
      <4> HIDE DEF i, j
      <4>2. \E k \in i .. j : name[k] = Dot
        BY <2>3, <4>1
      <4>3. QED
        BY <4>2 DEF i, j
    <3>4. k - p \in 1 .. R /\ p + (k - p) = k /\ k - p \in 1 .. n + 1
      BY <1>1, <1>2, <2>2, <3>1
    <3>5. rest[k - p] = Dot
      BY <2>2, <3>3, <3>4
    <3>6. k - p \notin 1 .. n
      BY <1>2, <3>5
    <3>7. k - p = n + 1
      BY <1>2, <3>4, <3>6
    <3>8. QED
      BY <3>5, <3>7
  <2>5. p + n <= N /\ (p + n = N \/ name[p + n + 1] = Dot) /\ \A i \in 1 .. n : rest[i] = name[p + i]
    <3>1. CASE n = R
      BY <1>1, <1>2, <2>2, <3>1, SMTT(60)
    <3>2. CASE n < R /\ rest[n + 1] = Dot
      <4>1. n + 1 \in 1 .. R /\ p + (n + 1) = p + n + 1 /\ p + n <= N
        BY <1>1, <1>2, <2>2, <3>2
      <4>2. name[p + n + 1] = Dot
        BY <2>2, <3>2, <4>1
      <4>3. \A i \in 1 .. n : i \in 1 .. R
        BY <1>1, <1>2
      <4>4. QED
        BY <2>2, <4>1, <4>2, <4>3
    <3>3. QED
      BY <2>4, <3>1, <3>2
  <2>6. q <= N + 1 /\ (q = N + 1 \/ name[q] = Dot)
    <3>1. q = p + n + 1 /\ (p + n = N => q = N + 1)
      BY <1>1, <1>2, <1>3
    <3>2. q <= N + 1
      BY <1>1, <1>2, <1>3, <2>5
    <3>3. QED
      BY <2>5, <3>1, <3>2
  <2>7. After(rest) = SubSeq(name, q + 1, N)
    <3> DEFINE a == After(rest)
               b == SubSeq(name, q + 1, N)
    <3>1. a \in Seq(Octet) /\ b \in Seq(Octet)
      <4>1. q + 1 \in Nat \ {0} /\ N \in Int /\ N <= Len(name)
        BY <1>1, <1>2, <1>3 DEF N
      <4>2. QED
        BY <4>1, AfterIs, Pieces
    <3>2. Len(b) = (IF q + 1 <= N THEN N - q ELSE 0) /\ \A i \in 1 .. Len(b) : b[i] = name[q + i]
      <4>1. q + 1 \in Nat \ {0} /\ N \in Int /\ N <= Len(name)
        BY <1>1, <1>2, <1>3 DEF N
      <4>2. /\ Len(b) = IF q + 1 <= N THEN N - (q + 1) + 1 ELSE 0
            /\ \A i \in 1 .. Len(b) : b[i] = name[q + 1 + i - 1]
        BY <4>1, Pieces
      <4> HIDE DEF b
      <4>3. \A i \in 1 .. Len(b) : q + 1 + i - 1 = q + i
        BY <1>1, <1>2, <1>3
      <4>4. QED
        BY <1>1, <1>2, <1>3, <4>2, <4>3
    <3>3. Len(a) = (IF q + 1 <= N THEN N - q ELSE 0) /\ \A i \in 1 .. Len(a) : a[i] = name[q + i]
      <4>1. CASE n = R
        <5>1. a = SubSeq(rest, n + 1, R)
          BY <1>1, <1>5, <4>1
        <5>2. Len(a) = 0
          <6>1. n + 1 \in Nat \ {0} /\ R \in Int /\ R <= Len(rest)
            BY <1>1, <1>2 DEF R
          <6>2. Len(SubSeq(rest, n + 1, R)) = IF n + 1 <= R THEN R - (n + 1) + 1 ELSE 0
            BY <6>1, Pieces
          <6>3. QED
            BY <1>1, <1>2, <4>1, <5>1, <6>2
        <5>3. ~(q + 1 <= N)
          BY <1>1, <1>2, <1>3, <2>2, <4>1
        <5> HIDE DEF a
        <5>4. QED
          BY <5>2, <5>3
      <4>2. CASE n < R /\ rest[n + 1] = Dot
        <5>1. a = SubSeq(rest, n + 2, R)
          BY <1>5, <4>2
        <5>2. n + 2 \in Nat \ {0} /\ R \in Int /\ R <= Len(rest)
          BY <1>1, <1>2 DEF R
        <5> DEFINE c == SubSeq(rest, n + 2, R)
        <5>3. /\ Len(c) = IF n + 2 <= R THEN R - (n + 2) + 1 ELSE 0
              /\ \A i \in 1 .. Len(c) : c[i] = rest[n + 2 + i - 1]
          BY <5>2, Pieces
        <5>4. a = c
          BY <5>1
        <5> HIDE DEF a, c
        <5>5. Len(a) = IF q + 1 <= N THEN N - q ELSE 0
          BY <1>1, <1>2, <1>3, <2>2, <4>2, <5>3, <5>4
        <5>6. ASSUME NEW i \in 1 .. Len(a)
              PROVE  a[i] = name[q + i]
          <6>1. n + 2 + i - 1 \in 1 .. R /\ p + (n + 2 + i - 1) = q + i
            BY <1>1, <1>2, <1>3, <2>2, <5>3, <5>4
          <6>2. a[i] = rest[n + 2 + i - 1]
            BY <5>3, <5>4
          <6>3. QED
            BY <2>2, <6>1, <6>2
        <5>7. QED
          BY <5>5, <5>6
      <4>3. QED
        BY <2>4, <4>1, <4>2
    <3> HIDE DEF a, b
    <3>4. a = b
      BY <3>1, <3>2, <3>3
    <3>5. QED
      BY <3>4 DEF a, b
  <2>8. ASSUME NEW k \in more \ {q}
        PROVE  /\ k + w[k + 1] <= N
               /\ \A i \in 1 .. w[k + 1] : w[k + 1 + i] = name[k + i]
               /\ k + w[k + 1] = N \/ name[k + w[k + 1] + 1] = Dot
    <3>1. CASE k = p
      BY <1>3, <2>5, <3>1
    <3>2. CASE k \in marks \ {p}
      <4>1. k \in Nat /\ w[k + 1] = done[k + 1] /\ w[k + 1] \in 1 .. 63 /\ k + 1 + w[k + 1] <= p
        BY <1>6, <3>2
      <4> DEFINE m == done[k + 1]
      <4>2. /\ k + m <= N /\ \A i \in 1 .. m : done[k + 1 + i] = name[k + i]
            /\ k + m = N \/ name[k + m + 1] = Dot
        BY <2>1, <3>2 DEF Spells, N
      <4> HIDE DEF m
      <4>3. w[k + 1] = m /\ m \in 1 .. 63 /\ k + 1 + m <= p
        BY <4>1 DEF m
      <4>4. \A i \in 1 .. m : k + 1 + i \in 1 .. p
        BY <1>1, <4>1, <4>3
      <4>5. \A i \in 1 .. m : w[k + 1 + i] = done[k + 1 + i]
        BY <1>3, <4>4
      <4>6. QED
        BY <4>2, <4>3, <4>5
    <3>3. QED
      BY <1>7, <3>1, <3>2
  <2>9. QED
    BY <2>6, <2>7, <2>8 DEF Spells, N
<1>10. QED
  BY <1>8, <1>9 DEF Coding, q, w, N

\* What encode_dotted makes of any name, if it fits: labels, and those of the name if
\* all of them are good.
LEMMA NameCoded ==
  ASSUME name \in Seq(Octet), NEW maxlen \in Int, encode_dotted(name, maxlen) # Nothing
  PROVE  LET w == encode_dotted(name, maxlen)
         IN  Len(w) <= maxlen /\ \E marks : Coded(w, marks)
<1> DEFINE e == CHOOSE f : Encodes(maxlen, f)
           Good(w) == w = Nothing \/ (Len(w) <= maxlen /\ \E marks : Coded(w, marks))
           G == {j \in Nat : \A rest, done \in Seq(Octet) : \A marks :
                   Len(rest) <= j /\ Coding(rest, done, marks) => Good(e[<<rest, done>>])}
<1>1. encode_dotted(name, maxlen) = e[<<name, <<>> >>]
  BY DEF encode_dotted, Encodes
<1>2. Encodes(maxlen, e)
  BY EncodesExist
<1> HIDE DEF e
<1>3. ASSUME NEW j \in Nat, NEW rest \in Seq(Octet), NEW done \in Seq(Octet), NEW marks,
             Len(rest) <= j, Coding(rest, done, marks), j # 0 => j - 1 \in G
      PROVE  Good(e[<<rest, done>>])
  <2> DEFINE n == Len(FirstLabel(rest))
             last == Append(done, 0)
             a == After(rest)
             w == Longer(rest, done)
  <2>1. e[<<rest, done>>] =
               IF n = 0 THEN IF Len(done) + 1 > maxlen THEN Nothing ELSE last
               ELSE IF Len(done) + n + 1 > maxlen THEN Nothing
               ELSE e[<<a, w>>]
    BY <1>2, EncodeTurn
  <2>2. n \in 0 .. Len(rest) /\ Len(rest) \in Nat
    BY FirstLabelIs
  <2>3. a \in Seq(Octet) /\ Len(a) <= Len(rest) - n /\ Len(a) \in Nat /\ w \in Seq(Octet)
    BY AfterIs, LongerIs, SMTT(60)
  <2>4. Len(last) = Len(done) + 1 /\ Len(done) \in Nat
    OBVIOUS
  <2>5. CASE n = 0 /\ ~(Len(done) + 1 > maxlen)
    <3>1. Coded(last, marks)
      BY <1>3, <2>5, CodedLast
    <3> HIDE DEF last, n
    <3>2. e[<<rest, done>>] = last /\ Len(last) <= maxlen
      BY <2>1, <2>4, <2>5
    <3>3. QED
      BY <3>1, <3>2
  <2>6. CASE n # 0
    <3>1. Coding(a, w, marks \cup {Len(w)})
      BY <1>3, <2>6, CodingGoesOn
    <3> HIDE DEF a, w, n, Good
    <3>2. j - 1 \in G /\ Len(a) <= j - 1
      BY <1>3, <2>2, <2>3, <2>6
    <3>3. Good(e[<<a, w>>])
      BY <2>3, <3>1, <3>2
    <3>4. Good(Nothing)
      BY DEF Good
    <3>5. QED
      BY <2>1, <2>6, <3>3, <3>4
  <2>7. CASE n = 0 /\ Len(done) + 1 > maxlen
    BY <2>1, <2>7
  <2>8. QED
    BY <2>5, <2>6, <2>7
<1> HIDE DEF Good
<1>4. 0 \in G
  <2>1. \A rest, done \in Seq(Octet) : \A marks :
          Len(rest) <= 0 /\ Coding(rest, done, marks) => Good(e[<<rest, done>>])
    BY <1>3
  <2>2. QED
    BY <2>1
<1>5. ASSUME NEW j \in 1 .. Len(name), j - 1 \in G
      PROVE  j \in G
  <2>1. j \in Nat
    OBVIOUS
  <2>2. \A rest, done \in Seq(Octet) : \A marks :
          Len(rest) <= j /\ Coding(rest, done, marks) => Good(e[<<rest, done>>])
    BY <1>3, <1>5, <2>1
  <2>3. QED
    BY <2>1, <2>2
<1>6. Len(name) \in G
  <2>1. Len(name) \in Nat
    OBVIOUS
  <2> HIDE DEF G
  <2>2. \A j \in 0 .. Len(name) : j \in G
    BY <1>4, <1>5, <2>1, UpTo
  <2>3. QED
    BY <2>1, <2>2
<1>7. Coding(name, <<>>, {0})
  <2>1. name = SubSeq(name, 0 + 1, Len(name)) /\ Len(name) \in Nat /\ Len(<<>>) = 0 /\ <<>> \in Seq(Octet)
    OBVIOUS
  <2>2. Labelled(<<>>, 0, {0}) /\ Spells(<<>>, 0, {0})
    BY <2>1 DEF Labelled, Spells
  <2>3. QED
    BY <2>1, <2>2 DEF Coding
<1>8. Good(e[<<name, <<>> >>])
  <2>1. <<>> \in Seq(Octet) /\ Len(name) <= Len(name)
    OBVIOUS
  <2>2. QED
    BY <1>6, <1>7, <2>1
<1>9. QED
  BY <1>1, <1>8, SMTT(60) DEF Good

\* What two pieces put together have in each place.
LEMMA Joined ==
  ASSUME NEW s \in Seq(Octet), NEW t \in Seq(Octet)
  PROVE  /\ s \o t \in Seq(Octet) /\ Len(s \o t) = Len(s) + Len(t)
         /\ \A i \in 1 .. Len(s) : (s \o t)[i] = s[i]
         /\ \A i \in 1 .. Len(t) : (s \o t)[Len(s) + i] = t[i]
OBVIOUS

-----------------------------------------------------------------------------
(* How names are read                                                      *)

\* decode_dotted, written out.
Points == Nat \X Nat \X BOOLEAN \X Seq(Octet)

Decodes(m, end, size, d) ==
  d = [at \in Nat \X Nat \X BOOLEAN \X Seq(Octet) |->
        LET o       == at[1]
            total   == at[2]
            measure == at[3]
            dest    == at[4]
            b       == At(m, o)
            one     == IF measure THEN 1 ELSE 0
        IN  IF o >= end THEN <<Fail, dest>>
            ELSE IF b = 0 THEN <<total + one, dest>>
            ELSE IF b >= 192
              THEN IF o + 1 >= end THEN <<Fail, dest>>
                   ELSE d[<<(b % 64) * 256 + At(m, o + 1), total + 2 * one, FALSE, dest>>]
            ELSE IF Len(dest) + b + 1 >= size \/ o + 1 + b >= end THEN <<Fail, dest>>
            ELSE d[<<o + 1 + b, total + one * (1 + b), measure,
                     Append(dest \o SubSeq(m, o + 2, o + 1 + b),
                            IF At(m, o + 1 + b) # 0 THEN Dot ELSE 0)>>]]

\* Where it goes on, from a pointer and from a label.
Pointed(m, o, total, measure, dest) ==
  <<(At(m, o) % 64) * 256 + At(m, o + 1), total + 2 * (IF measure THEN 1 ELSE 0), FALSE, dest>>
Behind(m, o, total, measure, dest) ==
  <<o + 1 + At(m, o), total + (IF measure THEN 1 ELSE 0) * (1 + At(m, o)), measure,
    Append(dest \o SubSeq(m, o + 2, o + 1 + At(m, o)), IF At(m, o + 1 + At(m, o)) # 0 THEN Dot ELSE 0)>>

\* What it makes of an octet.
Decoded(m, end, size, d, o, total, measure, dest) ==
  IF o >= end THEN <<Fail, dest>>
  ELSE IF At(m, o) = 0 THEN <<total + (IF measure THEN 1 ELSE 0), dest>>
  ELSE IF At(m, o) >= 192
    THEN IF o + 1 >= end THEN <<Fail, dest>> ELSE d[Pointed(m, o, total, measure, dest)]
  ELSE IF Len(dest) + At(m, o) + 1 >= size \/ o + 1 + At(m, o) >= end THEN <<Fail, dest>>
  ELSE d[Behind(m, o, total, measure, dest)]

\* Octets are numbers.
LEMMA OctetsAre ==
  ASSUME NEW m \in Seq(Octet)
  PROVE  \A i \in 1 .. Len(m) : m[i] \in 0 .. 255
<1>1. \A i \in 1 .. Len(m) : m[i] \in Octet
  OBVIOUS
<1>2. QED
  BY <1>1 DEF Octet

\* The parts of a point.
LEMMA PointIs ==
  ASSUME NEW o \in Nat, NEW total \in Nat, NEW measure \in BOOLEAN, NEW dest \in Seq(Octet)
  PROVE  <<o, total, measure, dest>> \in Points
BY DEF Points

\* A pointer leads to a point.
LEMMA PointedType ==
  ASSUME NEW m \in Seq(Octet), NEW o \in Nat, NEW total \in Nat, NEW measure \in BOOLEAN,
         NEW dest \in Seq(Octet), o + 1 < Len(m)
  PROVE  Pointed(m, o, total, measure, dest) \in Points
<1>1. At(m, o) \in 0 .. 255 /\ At(m, o + 1) \in 0 .. 255
  <2>1. \A i \in 1 .. Len(m) : m[i] \in 0 .. 255
    BY OctetsAre
  <2>2. o + 1 \in 1 .. Len(m) /\ o + 1 + 1 \in 1 .. Len(m)
    OBVIOUS
  <2>3. QED
    BY <2>1, <2>2 DEF At
<1> DEFINE a == At(m, o)
           b == At(m, o + 1)
           t == total + 2 * (IF measure THEN 1 ELSE 0)
<1>2. (a % 64) * 256 + b \in Nat
  <2> HIDE DEF a, b
  <2>1. a \in 0 .. 255 /\ b \in 0 .. 255
    BY <1>1 DEF a, b
  <2>2. a % 64 \in 0 .. 63
    BY <2>1
  <2>3. QED
    BY <2>1, <2>2
<1>3. t \in Nat
  <2>1. measure \/ ~measure
    OBVIOUS
  <2>2. QED
    BY <2>1
<1>4. Pointed(m, o, total, measure, dest) = <<(a % 64) * 256 + b, t, FALSE, dest>>
  BY Zenon DEF Pointed
<1> HIDE DEF a, b, t
<1> DEFINE c == (a % 64) * 256 + b
           no == FALSE
<1>5. no \in BOOLEAN
  OBVIOUS
<1> HIDE DEF c, no
<1>6. <<c, t, no, dest>> \in Points
  BY <1>2, <1>3, <1>5, PointIs DEF c
<1>7. QED
  BY <1>4, <1>6 DEF c, no

\* So does a label.
LEMMA BehindType ==
  ASSUME NEW m \in Seq(Octet), NEW o \in Nat, NEW total \in Nat, NEW measure \in BOOLEAN,
         NEW dest \in Seq(Octet), o + 1 + At(m, o) < Len(m), o < Len(m)
  PROVE  Behind(m, o, total, measure, dest) \in Points
<1>1. \A i \in 1 .. Len(m) : m[i] \in 0 .. 255
  BY OctetsAre
<1> DEFINE n == At(m, o)
<1>2. n \in 0 .. 255
  <2>1. o + 1 \in 1 .. Len(m)
    OBVIOUS
  <2>2. QED
    BY <1>1, <2>1 DEF At
<1>3. o + 1 + n < Len(m)
  OBVIOUS
<1> DEFINE p == SubSeq(m, o + 2, o + 1 + n)
           z == IF At(m, o + 1 + n) # 0 THEN Dot ELSE 0
           t == total + (IF measure THEN 1 ELSE 0) * (1 + n)
<1>4. Behind(m, o, total, measure, dest) = <<o + 1 + n, t, measure, Append(dest \o p, z)>>
  BY DEF Behind
<1> HIDE DEF n
<1>5. p \in Seq(Octet)
  <2>1. o + 2 \in Nat \ {0} /\ o + 1 + n \in Int /\ o + 1 + n <= Len(m)
    BY <1>2, <1>3
  <2>2. QED
    BY <2>1, Pieces
<1>6. z \in Octet
  BY DEF Dot, Octet
<1>7. t \in Nat /\ o + 1 + n \in Nat
  <2>1. CASE measure
    BY <1>2, <2>1
  <2>2. CASE ~measure
    <3>1. t = total + 0 * (1 + n)
      BY <2>2
    <3>2. 0 * (1 + n) = 0
      BY <1>2
    <3>3. QED
      BY <1>2, <3>1, <3>2
  <2>3. QED
    BY <2>1, <2>2
<1> HIDE DEF p, z, t
<1>8. Append(dest \o p, z) \in Seq(Octet)
  BY <1>5, <1>6
<1> DEFINE c == o + 1 + n
           s == Append(dest \o p, z)
<1> HIDE DEF c, s
<1>9. <<c, t, measure, s>> \in Points
  BY <1>7, <1>8, PointIs DEF c, s
<1>10. QED
  BY <1>4, <1>9, Zenon DEF c, s

\* decode_dotted exists as a function, whatever the message.
LEMMA DecodesExist ==
  ASSUME NEW m \in Seq(Octet), NEW size \in Nat
  PROVE  \E d : Decodes(m, Len(m), size, d)
<1> DEFINE S == Points
           end == Len(m)
           Past(o) == o >= end
           End(o) == At(m, o) = 0
           Ptr(o) == At(m, o) >= 192
           Cut(o) == o + 1 >= end
           Wide(o, dest) == Len(dest) + At(m, o) + 1 >= size \/ o + 1 + At(m, o) >= end
           stop == {at \in S : \/ Past(at[1])
                               \/ End(at[1])
                               \/ Ptr(at[1]) /\ Cut(at[1])
                               \/ ~Ptr(at[1]) /\ Wide(at[1], at[4])}
           Told(at) == <<at[2] + (IF at[3] THEN 1 ELSE 0), at[4]>>
           out == [at \in S |-> IF Past(at[1]) THEN <<Fail, at[4]>>
                                ELSE IF End(at[1]) THEN Told(at) ELSE <<Fail, at[4]>>]
           next == [at \in S |-> IF Ptr(at[1]) THEN Pointed(m, at[1], at[2], at[3], at[4])
                                 ELSE Behind(m, at[1], at[2], at[3], at[4])]
<1>1. ASSUME NEW at \in S \ stop
      PROVE  next[at] \in S
  <2>1. at[1] \in Nat /\ at[2] \in Nat /\ at[3] \in BOOLEAN /\ at[4] \in Seq(Octet)
    BY DEF Points
  <2> DEFINE o == at[1]
             n == At(m, o)
  <2>2. ~Past(o) /\ (Ptr(o) => ~Cut(o)) /\ (~Ptr(o) => ~Wide(o, at[4]))
    OBVIOUS
  <2>3. next[at] = IF Ptr(o) THEN Pointed(m, o, at[2], at[3], at[4]) ELSE Behind(m, o, at[2], at[3], at[4])
    OBVIOUS
  <2>4. end \in Nat /\ o < end
    BY <2>1, <2>2
  <2>5. CASE Ptr(o)
    <3>1. o + 1 < end
      BY <2>1, <2>2, <2>4, <2>5
    <3> HIDE DEF S, stop, next, Ptr
    <3>2. Pointed(m, o, at[2], at[3], at[4]) \in Points
      BY <2>1, <3>1, PointedType
    <3>3. QED
      BY <2>3, <2>5, <3>2 DEF S
  <2>6. CASE ~Ptr(o)
    <3>1. o + 1 + n < end
      <4>1. n \in Octet
        <5>1. o + 1 \in 1 .. Len(m)
          BY <2>1, <2>4
        <5>2. QED
          BY <5>1 DEF At
      <4>2. ~(o + 1 + n >= end)
        BY <2>2, <2>6
      <4> HIDE DEF o, n
      <4>3. n \in 0 .. 255 /\ o \in Nat /\ end \in Nat
        BY <2>1, <2>4, <4>1 DEF Octet, o
      <4>4. QED
        BY <4>2, <4>3
    <3> HIDE DEF S, stop, next, Ptr
    <3>2. Behind(m, o, at[2], at[3], at[4]) \in Points
      BY <2>1, <2>4, <3>1, BehindType
    <3>3. QED
      BY <2>3, <2>6, <3>2 DEF S
  <2>7. QED
    BY <2>5, <2>6
<1> HIDE DEF S, stop, out, next
<1>2. PICK d : Loops(S, stop, next, out, d)
  <2>1. stop \in SUBSET S
    BY DEF stop
  <2>2. QED
    BY <1>1, <2>1, LoopsExist
<1> DEFINE Body(at) ==
        LET o       == at[1]
            total   == at[2]
            measure == at[3]
            dest    == at[4]
            b       == At(m, o)
            one     == IF measure THEN 1 ELSE 0
        IN  IF o >= Len(m) THEN <<Fail, dest>>
            ELSE IF b = 0 THEN <<total + one, dest>>
            ELSE IF b >= 192
              THEN IF o + 1 >= Len(m) THEN <<Fail, dest>>
                   ELSE d[<<(b % 64) * 256 + At(m, o + 1), total + 2 * one, FALSE, dest>>]
            ELSE IF Len(dest) + b + 1 >= size \/ o + 1 + b >= Len(m) THEN <<Fail, dest>>
            ELSE d[<<o + 1 + b, total + one * (1 + b), measure,
                     Append(dest \o SubSeq(m, o + 2, o + 1 + b),
                            IF At(m, o + 1 + b) # 0 THEN Dot ELSE 0)>>]
<1>3. ASSUME NEW at \in S
      PROVE  (IF at \in stop THEN out[at] ELSE d[next[at]]) = Body(at)
  <2> DEFINE o == at[1]
             dest == at[4]
             bad == <<Fail, dest>>
             told == Told(at)
             ptr == d[Pointed(m, at[1], at[2], at[3], at[4])]
             lab == d[Behind(m, at[1], at[2], at[3], at[4])]
             more == d[next[at]]
  <2>1. at \in stop <=> Past(o) \/ End(o) \/ (Ptr(o) /\ Cut(o)) \/ (~Ptr(o) /\ Wide(o, dest))
    BY <1>3, Zenon DEF stop
  <2>2. out[at] = IF Past(o) THEN bad ELSE IF End(o) THEN told ELSE bad
    BY <1>3, Zenon DEF out
  <2>3. next[at] = IF Ptr(o) THEN Pointed(m, at[1], at[2], at[3], at[4])
                   ELSE Behind(m, at[1], at[2], at[3], at[4])
    BY <1>3, Zenon DEF next
  <2>4. Body(at) = IF Past(o) THEN bad ELSE IF End(o) THEN told
                   ELSE IF Ptr(o) THEN IF Cut(o) THEN bad ELSE ptr
                   ELSE IF Wide(o, dest) THEN bad ELSE lab
    BY Zenon DEF Pointed, Behind
  <2>5. (Ptr(o) => more = ptr) /\ (~Ptr(o) => more = lab)
    BY <2>3, Zenon
  <2> HIDE DEF Body, bad, told, ptr, lab, more, Past, End, Ptr, Cut, Wide, o, dest
  <2>6. (IF at \in stop THEN out[at] ELSE more) = Body(at)
    BY <2>1, <2>2, <2>4, <2>5
  <2>7. QED
    BY <2>6 DEF more
<1>4. d = [at \in S |-> IF at \in stop THEN out[at] ELSE d[next[at]]]
  BY <1>2, Zenon DEF Loops
<1> HIDE DEF Body
<1>5. d = [at \in S |-> Body(at)]
  BY <1>3, <1>4, Zenon
<1>6. Decodes(m, Len(m), size, d)
  BY <1>5, Zenon DEF Decodes, Body, S, Points
<1>7. QED
  BY <1>6

\* decode_dotted, one octet and what belongs to it at a time.
LEMMA DecodeTurn ==
  ASSUME NEW m, NEW end, NEW size, NEW d, Decodes(m, end, size, d),
         NEW o \in Nat, NEW total \in Nat, NEW measure \in BOOLEAN, NEW dest \in Seq(Octet)
  PROVE  d[<<o, total, measure, dest>>] = Decoded(m, end, size, d, o, total, measure, dest)
<1> DEFINE at == <<o, total, measure, dest>>
<1>1. at \in Nat \X Nat \X BOOLEAN \X Seq(Octet)
  OBVIOUS
<1>2. at[1] = o /\ at[2] = total /\ at[3] = measure /\ at[4] = dest
  OBVIOUS
<1> HIDE DEF at
<1>3. d[at] =
        LET o0      == at[1]
            total0  == at[2]
            measur0 == at[3]
            dest0   == at[4]
            b       == At(m, o0)
            one     == IF measur0 THEN 1 ELSE 0
        IN  IF o0 >= end THEN <<Fail, dest0>>
            ELSE IF b = 0 THEN <<total0 + one, dest0>>
            ELSE IF b >= 192
              THEN IF o0 + 1 >= end THEN <<Fail, dest0>>
                   ELSE d[<<(b % 64) * 256 + At(m, o0 + 1), total0 + 2 * one, FALSE, dest0>>]
            ELSE IF Len(dest0) + b + 1 >= size \/ o0 + 1 + b >= end THEN <<Fail, dest0>>
            ELSE d[<<o0 + 1 + b, total0 + one * (1 + b), measur0,
                     Append(dest0 \o SubSeq(m, o0 + 2, o0 + 1 + b),
                            IF At(m, o0 + 1 + b) # 0 THEN Dot ELSE 0)>>]
  BY <1>1, Zenon DEF Decodes
<1>4. QED
  BY <1>2, <1>3, ZenonT(40) DEF Decoded, Pointed, Behind, at

\* The octets of a coded name are behind the header.
Written(m, w) ==
  HFIXEDSZ + Len(w) <= Len(m) /\ \A i \in 1 .. Len(w) : m[HFIXEDSZ + i] = w[i]

\* What has been read at a mark.
ReadSoFar(k) == SubSeq(Append(name, 0), 1, k)

\* One label is read as it was written.
LEMMA LabelRead ==
  ASSUME name \in Seq(Octet), NEW m \in Seq(Octet), NEW w, NEW marks, Coded(w, marks), Written(m, w),
         NEW k \in marks, k # Len(w) - 1, NEW total \in Nat, NEW measure \in BOOLEAN,
         NEW dest \in Seq(Octet), Len(dest) = k
  PROVE  \E dest2 \in Seq(Octet) :
           LET n == w[k + 1]
               t == total + (IF measure THEN 1 ELSE 0) * (1 + n)
           IN  /\ n \in 1 .. 63 /\ k + 1 + n \in marks /\ k + 1 + n < Len(w) /\ k \in Nat
               /\ At(m, HFIXEDSZ + k) = n
               /\ Len(dest2) = k + 1 + n
               /\ Behind(m, HFIXEDSZ + k, total, measure, dest) = <<HFIXEDSZ + (k + 1 + n), t, measure, dest2>>
               /\ GoodName /\ dest = ReadSoFar(k) => dest2 = ReadSoFar(k + 1 + n)
<1> DEFINE p == Len(w) - 1
           N == Len(name)
           n == w[k + 1]
           q == k + 1 + n
           o == HFIXEDSZ + k
           part == SubSeq(m, o + 2, o + 1 + n)
           z == IF At(m, o + 1 + n) # 0 THEN Dot ELSE 0
           dest2 == Append(dest \o part, z)
           t == total + (IF measure THEN 1 ELSE 0) * (1 + n)
<1>1. /\ w \in Seq(Octet) /\ p \in Nat /\ Len(w) = p + 1 /\ w[p + 1] = 0 /\ N \in Nat
      /\ Len(m) \in Nat
  <2>1. w \in Seq(Octet) /\ w # <<>> /\ w[Len(w) - 1 + 1] = 0
    BY DEF Coded
  <2>2. Len(w) \in Nat /\ Len(w) # 0
    BY <2>1
  <2>3. QED
    BY <2>1, <2>2
<1>2. /\ marks \subseteq 0 .. p /\ \A j \in marks \ {p} : w[j + 1] \in 1 .. 63 /\ j + 1 + w[j + 1] \in marks
  BY DEF Coded, Labelled
<1>3. GoodName => p = N + 1 /\ \A j \in marks \ {p} :
        /\ j + w[j + 1] <= N
        /\ \A i \in 1 .. w[j + 1] : w[j + 1 + i] = name[j + i]
        /\ j + w[j + 1] = N \/ name[j + w[j + 1] + 1] = Dot
  BY DEF Coded, Spells
<1>4. n \in 1 .. 63 /\ q \in marks
  BY <1>2
<1>5. HFIXEDSZ + (p + 1) <= Len(m) /\ \A i \in 1 .. p + 1 : m[HFIXEDSZ + i] = w[i]
  BY <1>1 DEF Written
<1> HIDE DEF n
<1>6. HFIXEDSZ = 12 /\ o = 12 + k
  BY DEF HFIXEDSZ
<1> HIDE DEF p, o
<1>7. k \in 0 .. p /\ k # p /\ q \in 0 .. p
  BY <1>2, <1>4
<1>8. At(m, o) = n
  <2>1. k + 1 \in 1 .. p + 1 /\ HFIXEDSZ + (k + 1) = o + 1
    BY <1>1, <1>6, <1>7
  <2>2. At(m, o) = w[k + 1]
    BY <1>5, <2>1 DEF At
  <2>3. QED
    BY <2>2 DEF n
<1>9. Behind(m, o, total, measure, dest) = <<o + 1 + n, t, measure, dest2>>
  BY <1>8, Zenon DEF Behind
<1>10. o + 1 + n = HFIXEDSZ + q
  BY <1>4, <1>6, <1>7
<1>11. At(m, o + 1 + n) = w[q + 1]
  <2>1. q + 1 \in 1 .. p + 1 /\ HFIXEDSZ + (q + 1) = o + 1 + n + 1
    BY <1>1, <1>6, <1>7, <1>4
  <2>2. QED
    BY <1>5, <2>1 DEF At
<1> HIDE DEF N
<1>12. part \in Seq(Octet) /\ Len(part) = n /\ \A i \in 1 .. n : part[i] = w[k + 1 + i]
  <2>1. o + 2 \in Nat \ {0} /\ o + 1 + n \in Int /\ o + 1 + n <= Len(m)
    BY <1>1, <1>4, <1>5, <1>6, <1>7
  <2>2. /\ part \in Seq(Octet) /\ Len(part) = n
        /\ \A i \in 1 .. Len(part) : part[i] = m[o + 2 + i - 1]
    <3> DEFINE a == o + 2
               b == o + 1 + n
    <3>1. a \in Nat \ {0} /\ b \in Int /\ b <= Len(m) /\ part = SubSeq(m, a, b)
      BY <2>1
    <3> HIDE DEF a, b, part
    <3>2. /\ part \in Seq(Octet) /\ Len(part) = IF a <= b THEN b - a + 1 ELSE 0
          /\ \A i \in 1 .. Len(part) : part[i] = m[a + i - 1]
      BY <3>1, Pieces, SMTT(60)
    <3>3. a <= b /\ b - a + 1 = n
      BY <1>4, <1>6, <1>7 DEF a, b
    <3>4. \A i \in 1 .. Len(part) : part[i] = m[o + 2 + i - 1]
      BY <3>2 DEF a
    <3>5. QED
      BY <3>2, <3>3, <3>4
  <2>3. Len(part) = n
    BY <2>2
  <2>4. \A i \in 1 .. n : k + 1 + i \in 1 .. p + 1 /\ o + 2 + i - 1 = HFIXEDSZ + (k + 1 + i)
    BY <1>1, <1>4, <1>6, <1>7
  <2>5. QED
    BY <1>5, <2>2, <2>3, <2>4
<1>13. z \in Octet
  BY DEF Dot, Octet
<1> HIDE DEF part, z
<1> DEFINE both == dest \o part
<1>14. dest2 \in Seq(Octet) /\ Len(dest2) = q
  <2>1. both \in Seq(Octet) /\ Len(both) = k + n
    <3>1. dest \in Seq(Octet) /\ Len(dest) = k
      OBVIOUS
    <3>2. QED
      BY ONLY <1>12, <3>1, SMTT(60)
  <2>2. k + n + 1 = q
    BY <1>4, <1>7
  <2> HIDE DEF both
  <2>3. Append(both, z) \in Seq(Octet) /\ Len(Append(both, z)) = k + n + 1
    BY <1>13, <2>1
  <2>4. QED
    BY <2>2, <2>3 DEF both
<1>15. /\ \A i \in 1 .. k : dest2[i] = dest[i]
       /\ \A i \in 1 .. n : dest2[k + i] = part[i]
       /\ dest2[q] = z
  <2>1. /\ both \in Seq(Octet) /\ Len(both) = k + n
        /\ \A i \in 1 .. k : both[i] = dest[i]
        /\ \A i \in 1 .. n : both[k + i] = part[i]
    <3>1. dest \in Seq(Octet) /\ Len(dest) = k
      OBVIOUS
    <3>2. /\ both \in Seq(Octet) /\ Len(both) = Len(dest) + Len(part)
          /\ \A i \in 1 .. Len(dest) : both[i] = dest[i]
          /\ \A i \in 1 .. Len(part) : both[Len(dest) + i] = part[i]
      BY <1>12, <3>1, Joined
    <3> HIDE DEF both
    <3>3. QED
      BY ONLY <1>12, <3>1, <3>2
  <2>2. k + n + 1 = q
    BY <1>4, <1>7
  <2> HIDE DEF both
  <2>3. \A i \in 1 .. k + n : Append(both, z)[i] = both[i]
    BY <1>13, <2>1
  <2>4. Append(both, z)[k + n + 1] = z
    BY <1>13, <2>1
  <2>5. \A i \in 1 .. k : i \in 1 .. k + n
    BY <1>4, <1>7
  <2>6. \A i \in 1 .. n : k + i \in 1 .. k + n
    BY <1>4, <1>7
  <2>7. dest2 = Append(both, z)
    BY DEF both
  <2> HIDE DEF dest2, q
  <2>8. QED
    BY <2>1, <2>2, <2>3, <2>4, <2>5, <2>6, <2>7
<1>16. ASSUME GoodName, dest = ReadSoFar(k)
       PROVE  dest2 = ReadSoFar(q)
  <2> DEFINE A == Append(name, 0)
  <2>1. A \in Seq(Octet) /\ Len(A) = N + 1 /\ A[N + 1] = 0 /\ \A i \in 1 .. N : A[i] = name[i]
    BY DEF Octet, N
  <2>2. /\ p = N + 1 /\ k + n <= N /\ (k + n = N \/ name[k + n + 1] = Dot)
        /\ \A i \in 1 .. n : w[k + 1 + i] = name[k + i]
    BY <1>3, <1>7, <1>16 DEF n
  <2> HIDE DEF A
  <2>3. ReadSoFar(k) = SubSeq(A, 1, k) /\ ReadSoFar(q) = SubSeq(A, 1, q)
    BY DEF ReadSoFar, A
  <2>4. \A j \in 0 .. N + 1 : /\ SubSeq(A, 1, j) \in Seq(Octet) /\ Len(SubSeq(A, 1, j)) = j
                              /\ \A i \in 1 .. j : SubSeq(A, 1, j)[i] = A[i]
    <3>1. ASSUME NEW j \in 0 .. N + 1
          PROVE  /\ SubSeq(A, 1, j) \in Seq(Octet) /\ Len(SubSeq(A, 1, j)) = j
                 /\ \A i \in 1 .. j : SubSeq(A, 1, j)[i] = A[i]
      BY <1>1, <2>1
    <3>2. QED
      BY <3>1
  <2>5. k \in 0 .. N + 1 /\ q \in 0 .. N + 1
    BY <1>7, <2>2
  <2>6. ASSUME NEW i \in 1 .. q
        PROVE  dest2[i] = A[i]
    <3>1. CASE i <= k
      BY <1>7, <1>15, <1>16, <2>3, <2>4, <2>5, <3>1
    <3>2. CASE i > k /\ i < q
      <4>1. i - k \in 1 .. n /\ k + (i - k) = i /\ i \in 1 .. N
        BY <1>1, <1>4, <1>7, <2>2, <3>2
      <4>2. dest2[i] = part[i - k] /\ part[i - k] = w[k + 1 + (i - k)]
        BY <1>12, <1>15, <4>1
      <4>3. w[k + 1 + (i - k)] = name[i]
        BY <2>2, <4>1
      <4>4. QED
        BY <2>1, <4>1, <4>2, <4>3
    <3>3. CASE i = q
      <4>1. CASE q = p
        <5>1. z = 0
          BY <1>1, <1>11, <4>1 DEF z
        <5>2. QED
          BY <1>15, <2>1, <2>2, <3>3, <4>1, <5>1
      <4>2. CASE q # p
        <5>1. w[q + 1] # 0
          <6>1. q \in marks \ {p}
            BY <1>4, <4>2
          <6> HIDE DEF q
          <6> DEFINE next == w[q + 1]
          <6>2. next \in 1 .. 63
            BY <1>2, <6>1
          <6> HIDE DEF next
          <6>3. next # 0
            BY <6>2
          <6>4. QED
            BY <6>3 DEF next
        <5>2. z = Dot
          BY <1>11, <5>1 DEF z
        <5>3. q \in 1 .. N /\ q = k + n + 1 /\ k + n # N
          BY <1>1, <1>4, <1>7, <2>2, <4>2
        <5>4. QED
          BY <1>15, <2>1, <2>2, <3>3, <5>2, <5>3
      <4>3. QED
        BY <4>1, <4>2
    <3>4. i <= k \/ (i > k /\ i < q) \/ i = q
      BY <1>4, <1>7
    <3>5. QED
      BY <3>1, <3>2, <3>3, <3>4
  <2> HIDE DEF dest2
  <2>7. dest2 = SubSeq(A, 1, q)
    <3> DEFINE s == SubSeq(A, 1, q)
    <3>1. s \in Seq(Octet) /\ Len(s) = q /\ \A i \in 1 .. q : s[i] = dest2[i]
      BY <2>4, <2>5, <2>6
    <3> HIDE DEF s, q
    <3>2. s = dest2
      BY <1>14, <3>1
    <3>3. QED
      BY <3>2 DEF s
  <2>8. QED
    BY <2>3, <2>7
<1>17. q < Len(w)
  BY <1>1, <1>7
<1>18. k \in Nat
  BY <1>7
<1> HIDE DEF dest2, t, q, o
<1>19. /\ n \in 1 .. 63 /\ q \in marks /\ q < Len(w) /\ k \in Nat /\ At(m, o) = n /\ Len(dest2) = q
       /\ Behind(m, o, total, measure, dest) = <<HFIXEDSZ + q, t, measure, dest2>>
       /\ GoodName /\ dest = ReadSoFar(k) => dest2 = ReadSoFar(q)
  BY <1>4, <1>8, <1>9, <1>10, <1>14, <1>16, <1>17, <1>18
<1>20. QED
  BY <1>14, <1>19 DEF t, q, o, n

\* What the decoder makes of a coded name from a mark on: how many octets it takes, if
\* they are counted, and the name, if it is a good one.
ReadsOn(w, d, k, total, measure, dest) ==
  LET r == d[<<HFIXEDSZ + k, total, measure, dest>>]
  IN  /\ r[1] = total + (IF measure THEN Len(w) - k ELSE 0)
      /\ GoodName /\ dest = ReadSoFar(k) => r[2] = Append(name, 0)

LEMMA NameRead ==
  ASSUME name \in Seq(Octet), NEW m \in Seq(Octet), NEW w, NEW marks, Coded(w, marks), Written(m, w),
         NEW size \in Nat, Len(w) <= size, NEW d, Decodes(m, Len(m), size, d)
  PROVE  \A k \in marks : \A total \in Nat, measure \in BOOLEAN, dest \in Seq(Octet) :
           Len(dest) = k => ReadsOn(w, d, k, total, measure, dest)
<1> DEFINE p == Len(w) - 1
           one(measure) == IF measure THEN 1 ELSE 0
           Right(k) ==
             \A total \in Nat, measure \in BOOLEAN, dest \in Seq(Octet) : Len(dest) = k =>
                LET r == d[<<HFIXEDSZ + k, total, measure, dest>>]
                IN  /\ r[1] = total + (IF measure THEN Len(w) - k ELSE 0)
                    /\ GoodName /\ dest = ReadSoFar(k) => r[2] = Append(name, 0)
           G == {j \in Nat : \A k \in marks : p - k <= j => Right(k)}
<1>1. /\ w \in Seq(Octet) /\ p \in Nat /\ Len(w) = p + 1 /\ w[p + 1] = 0 /\ Len(name) \in Nat
      /\ Len(m) \in Nat
  <2>1. w \in Seq(Octet) /\ w # <<>> /\ w[Len(w) - 1 + 1] = 0
    BY DEF Coded
  <2>2. Len(w) \in Nat /\ Len(w) # 0
    BY <2>1
  <2>3. QED
    BY <2>1, <2>2
<1>2. marks \subseteq 0 .. p /\ (GoodName => p = Len(name) + 1)
  BY DEF Coded, Labelled
<1>3. HFIXEDSZ = 12 /\ HFIXEDSZ + Len(w) <= Len(m) /\ \A i \in 1 .. Len(w) : m[HFIXEDSZ + i] = w[i]
  BY DEF HFIXEDSZ, Written
<1>4. ASSUME NEW j \in Nat, NEW k \in marks, p - k <= j, j # 0 => j - 1 \in G
      PROVE  Right(k)
  <2>1. k \in 0 .. p
    BY <1>2
  <2>2. SUFFICES ASSUME NEW total \in Nat, NEW measure \in BOOLEAN, NEW dest \in Seq(Octet), Len(dest) = k
                 PROVE  LET r == d[<<HFIXEDSZ + k, total, measure, dest>>]
                        IN  /\ r[1] = total + (IF measure THEN Len(w) - k ELSE 0)
                            /\ GoodName /\ dest = ReadSoFar(k) => r[2] = Append(name, 0)
    OBVIOUS
  <2> DEFINE o == HFIXEDSZ + k
             r == d[<<o, total, measure, dest>>]
             told == <<total + (IF measure THEN 1 ELSE 0), dest>>
             ptr == d[Pointed(m, o, total, measure, dest)]
             lab == d[Behind(m, o, total, measure, dest)]
  <2>3. o \in Nat /\ o < Len(m)
    BY <1>1, <1>3, <2>1
  <2>4. r = IF o >= Len(m) THEN <<Fail, dest>>
            ELSE IF At(m, o) = 0 THEN told
            ELSE IF At(m, o) >= 192 THEN IF o + 1 >= Len(m) THEN <<Fail, dest>> ELSE ptr
            ELSE IF Len(dest) + At(m, o) + 1 >= size \/ o + 1 + At(m, o) >= Len(m) THEN <<Fail, dest>>
            ELSE lab
    <3>1. r = Decoded(m, Len(m), size, d, o, total, measure, dest)
      BY <2>3, DecodeTurn
    <3>2. QED
      BY <3>1, Zenon DEF Decoded
  <2>5. CASE k = p
    <3>1. At(m, o) = 0
      <4>1. p + 1 \in 1 .. Len(w) /\ HFIXEDSZ + (p + 1) = o + 1
        BY <1>1, <1>3, <2>5
      <4>2. QED
        BY <1>1, <1>3, <4>1 DEF At
    <3> HIDE DEF r, told, o
    <3>2. r = told
      BY <2>3, <2>4, <3>1
    <3>3. r[1] = total + (IF measure THEN 1 ELSE 0) /\ r[2] = dest
      BY <3>2 DEF told
    <3>4. Len(w) - k = 1
      BY <1>1, <2>5
    <3>5. ASSUME GoodName
          PROVE  ReadSoFar(k) = Append(name, 0)
      <4> DEFINE A == Append(name, 0)
      <4>1. A \in Seq(Octet) /\ Len(A) = k
        <5>1. Len(name) + 1 = k /\ 0 \in Octet
          BY <1>2, <2>5, <3>5 DEF Octet
        <5>2. QED
          BY <5>1
      <4>2. ReadSoFar(k) = SubSeq(A, 1, k)
        BY DEF ReadSoFar
      <4> HIDE DEF A
      <4>3. SubSeq(A, 1, k) = A
        BY <4>1
      <4>4. QED
        BY <4>2, <4>3 DEF A
    <3>6. QED
      BY <3>3, <3>4, <3>5 DEF r, o
  <2>6. CASE k # p
    <3>1. PICK dest2 \in Seq(Octet) :
           LET n == w[k + 1]
               t == total + (IF measure THEN 1 ELSE 0) * (1 + n)
           IN  /\ n \in 1 .. 63 /\ k + 1 + n \in marks /\ k + 1 + n < Len(w) /\ k \in Nat
               /\ At(m, HFIXEDSZ + k) = n
               /\ Len(dest2) = k + 1 + n
               /\ Behind(m, HFIXEDSZ + k, total, measure, dest) = <<HFIXEDSZ + (k + 1 + n), t, measure, dest2>>
               /\ GoodName /\ dest = ReadSoFar(k) => dest2 = ReadSoFar(k + 1 + n)
      BY <2>2, <2>6, LabelRead, SMTT(30)
    <3> DEFINE n == w[k + 1]
               q == k + 1 + n
               t == total + (IF measure THEN 1 ELSE 0) * (1 + n)
               s == d[<<HFIXEDSZ + q, t, measure, dest2>>]
    <3>2. /\ n \in 1 .. 63 /\ q \in marks /\ q < Len(w) /\ k \in Nat /\ At(m, o) = n /\ Len(dest2) = q
          /\ Behind(m, o, total, measure, dest) = <<HFIXEDSZ + q, t, measure, dest2>>
          /\ GoodName /\ dest = ReadSoFar(k) => dest2 = ReadSoFar(q)
      BY <3>1
    <3>3. q = k + 1 + n /\ o = 12 + k
      BY <1>3
    <3>4. lab = s
      BY <3>2
    <3> HIDE DEF r, told, ptr, lab, o, n, q, s
    <3>5. /\ ~(o >= Len(m)) /\ n # 0 /\ ~(n >= 192)
          /\ ~(Len(dest) + n + 1 >= size \/ o + 1 + n >= Len(m))
      BY <1>1, <1>3, <2>1, <2>2, <2>3, <3>2, <3>3, SMTT(30)
    <3>6. r = lab
      BY <2>4, <3>2, <3>5
    <3>7. Right(q)
      <4>1. j - 1 \in G /\ p - q <= j - 1
        <5> HIDE DEF G
        <5>1. q \in 0 .. p
          BY <1>2, <3>2
        <5> HIDE DEF p
        <5>2. p - q <= j - 1 /\ j # 0
          BY <1>1, <1>4, <2>1, <3>2, <3>3, <5>1, SMTT(60)
        <5>3. QED
          BY <1>4, <5>2
      <4> HIDE DEF Right
      <4>2. QED
        BY <3>2, <4>1
    <3>8. t \in Nat /\ (measure => t = total + 1 + n) /\ (~measure => t = total)
      <4>1. n \in Nat /\ 1 * (1 + n) = 1 + n /\ 0 * (1 + n) = 0
        BY <3>2
      <4>2. CASE measure
        BY <4>1, <4>2
      <4>3. CASE ~measure
        BY <4>1, <4>3
      <4>4. QED
        BY <4>2, <4>3
    <3> HIDE DEF t
    <3>9. /\ s[1] = t + (IF measure THEN Len(w) - q ELSE 0)
          /\ GoodName /\ dest2 = ReadSoFar(q) => s[2] = Append(name, 0)
      BY <3>2, <3>7, <3>8 DEF s
    <3>10. s[1] = total + (IF measure THEN Len(w) - k ELSE 0)
      <4>1. Len(w) \in Nat
        BY <1>1
      <4>2. CASE measure
        <5>1. s[1] = t + (Len(w) - q) /\ t = total + 1 + n
          BY <3>8, <3>9, <4>2
        <5>2. total + 1 + n + (Len(w) - q) = total + (Len(w) - k)
          BY <3>2, <3>3, <4>1
        <5>3. QED
          BY <4>2, <5>1, <5>2
      <4>3. CASE ~measure
        <5>1. s[1] = t + 0 /\ t = total
          BY <3>8, <3>9, <4>3
        <5>2. QED
          BY <4>3, <5>1
      <4>4. QED
        BY <4>2, <4>3
    <3>11. r = s
      BY <3>4, <3>6
    <3>12. QED
      BY <3>2, <3>9, <3>10, <3>11 DEF r, o
  <2>7. QED
    BY <2>5, <2>6
<1> HIDE DEF Right
<1>5. 0 \in G
  <2>1. \A k \in marks : p - k <= 0 => Right(k)
    BY <1>4
  <2>2. QED
    BY <2>1
<1>6. ASSUME NEW j \in 1 .. p, j - 1 \in G
      PROVE  j \in G
  <2>1. j \in Nat
    OBVIOUS
  <2>2. \A k \in marks : p - k <= j => Right(k)
    BY <1>4, <1>6, <2>1
  <2>3. QED
    BY <2>1, <2>2
<1>7. p \in G
  <2> HIDE DEF G
  <2>1. \A j \in 0 .. p : j \in G
    BY <1>1, <1>5, <1>6, UpTo
  <2>2. QED
    BY <1>1, <2>1
<1>8. \A k \in marks : Right(k)
  <2> HIDE DEF p
  <2>1. \A k \in marks : p - k <= p
    <3>1. \A k \in 0 .. p : p - k <= p
      BY <1>1
    <3>2. QED
      BY <1>2, <3>1
  <2>2. QED
    BY <1>7, <2>1
<1>9. QED
  BY <1>8 DEF Right, ReadsOn

\* A pointer is followed.
Follows(d, m, o, total, measure, dest) ==
  d[<<o, total, measure, dest>>] = d[Pointed(m, o, total, measure, dest)]

LEMMA PointerTurn ==
  ASSUME NEW m \in Seq(Octet), NEW size, NEW d, Decodes(m, Len(m), size, d),
         NEW o \in Nat, NEW total \in Nat, NEW measure \in BOOLEAN, NEW dest \in Seq(Octet),
         o + 1 < Len(m), At(m, o) = 192
  PROVE  Follows(d, m, o, total, measure, dest)
<1> DEFINE r == d[<<o, total, measure, dest>>]
           p == d[Pointed(m, o, total, measure, dest)]
           b == d[Behind(m, o, total, measure, dest)]
           z == <<total + (IF measure THEN 1 ELSE 0), dest>>
           f == <<Fail, dest>>
<1>1. r =
         IF o >= Len(m) THEN f
         ELSE IF At(m, o) = 0 THEN z
         ELSE IF At(m, o) >= 192 THEN IF o + 1 >= Len(m) THEN f ELSE p
         ELSE IF Len(dest) + At(m, o) + 1 >= size \/ o + 1 + At(m, o) >= Len(m) THEN f
         ELSE b
  <2>1. r = Decoded(m, Len(m), size, d, o, total, measure, dest)
    BY DecodeTurn
  <2>2. QED
    BY <2>1, Zenon DEF Decoded
<1>2. Len(m) \in Nat
  OBVIOUS
<1> HIDE DEF r, p, b, z, f
<1>3. ~(o >= Len(m)) /\ ~(o + 1 >= Len(m)) /\ ~(At(m, o) = 0) /\ At(m, o) >= 192
  BY <1>2
<1>4. r = p
  BY <1>1, <1>3
<1>5. QED
  BY <1>4 DEF r, p, Follows

\* A coded name is read back behind the header, and a pointer there takes two octets.
LEMMA NameDecoded ==
  ASSUME name \in Seq(Octet), NEW m \in Seq(Octet), NEW w, NEW marks, Coded(w, marks), Written(m, w),
         Len(w) <= NameMax
  PROVE  /\ decode_dotted(m, HFIXEDSZ, Len(m), NameMax)[1] = Len(w)
         /\ GoodName => decode_dotted(m, HFIXEDSZ, Len(m), NameMax)[2] = Append(name, 0)
         /\ \A o \in Nat : o + 1 < Len(m) /\ At(m, o) = 192 /\ At(m, o + 1) = HFIXEDSZ
              => decode_dotted(m, o, Len(m), NameMax)[1] = 2
<1> DEFINE d == CHOOSE f : Decodes(m, Len(m), NameMax, f)
           none == <<>>
           yes == TRUE
           no == FALSE
           zero == 0
           two == 2
<1>1. NameMax \in Nat
  BY MessageAssumption
<1>2. Decodes(m, Len(m), NameMax, d)
  BY <1>1, DecodesExist
<1>3. \A o : decode_dotted(m, o, Len(m), NameMax) = d[<<o, zero, yes, none>>]
  BY DEF decode_dotted, Decodes
<1> HIDE DEF d
<1>4. zero \in marks
  BY DEF Coded, Labelled
<1>5. /\ none \in Seq(Octet) /\ Len(none) = zero /\ yes \in BOOLEAN /\ no \in BOOLEAN /\ yes /\ ~no
      /\ zero \in Nat /\ two \in Nat /\ zero = 0 /\ two = 2
  OBVIOUS
<1>6. HFIXEDSZ = 12
  BY DEF HFIXEDSZ
<1>7. none = ReadSoFar(zero)
  BY DEF ReadSoFar, Octet
<1>8. Len(w) \in Nat
  BY DEF Coded
<1> HIDE DEF none, yes, no, zero, two
<1> DEFINE h == HFIXEDSZ + zero
<1>9. h = HFIXEDSZ
  BY <1>5, <1>6
<1>10. /\ d[<<h, zero, yes, none>>][1] = zero + (IF yes THEN Len(w) - zero ELSE 0)
       /\ GoodName /\ none = ReadSoFar(zero) => d[<<h, zero, yes, none>>][2] = Append(name, 0)
       /\ d[<<h, two, no, none>>][1] = two + (IF no THEN Len(w) - zero ELSE 0)
  <2>1. /\ ReadsOn(w, d, zero, zero, yes, none) /\ ReadsOn(w, d, zero, two, no, none)
    BY <1>1, <1>2, <1>4, <1>5, NameRead
  <2>2. QED
    BY <2>1, Zenon DEF ReadsOn
<1> HIDE DEF h
<1> DEFINE start == d[<<HFIXEDSZ, zero, yes, none>>]
           onward == d[<<HFIXEDSZ, two, no, none>>]
<1>11. start[1] = Len(w) /\ (GoodName => start[2] = Append(name, 0)) /\ onward[1] = two
  <2>1. d[<<h, zero, yes, none>>] = start /\ d[<<h, two, no, none>>] = onward
    BY <1>9, Zenon
  <2> HIDE DEF start, onward
  <2>2. zero + (IF yes THEN Len(w) - zero ELSE 0) = Len(w) /\ two + (IF no THEN Len(w) - zero ELSE 0) = two
    BY <1>5, <1>8
  <2>3. QED
    BY <1>7, <1>10, <2>1, <2>2
<1>12. ASSUME NEW o \in Nat, o + 1 < Len(m), At(m, o) = 192, At(m, o + 1) = HFIXEDSZ
       PROVE  d[<<o, zero, yes, none>>][1] = 2
  <2> DEFINE r == d[<<o, zero, yes, none>>]
             p == d[Pointed(m, o, zero, yes, none)]
  <2>4. r = p
    <3>1. Decodes(m, Len(m), NameMax, d) /\ o \in Nat /\ zero \in Nat /\ yes \in BOOLEAN /\ none \in Seq(Octet)
          /\ o + 1 < Len(m) /\ At(m, o) = 192 /\ m \in Seq(Octet)
      BY <1>2, <1>5, <1>12
    <3>2. Follows(d, m, o, zero, yes, none)
      BY ONLY <3>1, PointerTurn
    <3>3. QED
      BY <3>2 DEF Follows
  <2> HIDE DEF r, p
  <2>5. Pointed(m, o, zero, yes, none) = <<HFIXEDSZ, two, no, none>>
    <3>1. (192 % 64) * 256 + HFIXEDSZ = HFIXEDSZ
      BY <1>6
    <3>2. zero + 2 * (IF yes THEN 1 ELSE 0) = two
      BY <1>5
    <3>3. (At(m, o) % 64) * 256 + At(m, o + 1) = HFIXEDSZ
      BY <1>12, <3>1
    <3>4. QED
      BY <3>2, <3>3, Zenon DEF Pointed, no
  <2>6. p = onward
    BY <2>5, Zenon DEF p
  <2> HIDE DEF onward
  <2>7. r[1] = 2
    BY <1>5, <1>11, <2>4, <2>6
  <2>8. QED
    BY <2>7 DEF r
<1>13. start = decode_dotted(m, HFIXEDSZ, Len(m), NameMax)
  BY <1>3, Zenon
<1> HIDE DEF start
<1>14. ASSUME NEW o \in Nat, o + 1 < Len(m), At(m, o) = 192, At(m, o + 1) = HFIXEDSZ
       PROVE  decode_dotted(m, o, Len(m), NameMax)[1] = 2
  <2>1. decode_dotted(m, o, Len(m), NameMax) = d[<<o, zero, yes, none>>]
    BY <1>3
  <2>2. d[<<o, zero, yes, none>>][1] = 2
    BY <1>12, <1>14
  <2>3. QED
    BY <2>1, <2>2, Zenon
<1>15. QED
  BY <1>11, <1>13, <1>14

-----------------------------------------------------------------------------
(* How messages are written                                                *)

\* A number is its quotient by 256 times 256 and its remainder.
LEMMA Division ==
  ASSUME NEW n \in Int, NEW q \in Int, NEW r \in Int, q = n \div 256, r = n % 256
  PROVE  n = 256 * q + r
OBVIOUS

\* A word is a number of two octets; the ones that the models name.
LEMMA WordIs ==
  /\ \A n \in Word : n \in Int /\ 0 <= n /\ n < 256 * 256
  /\ 0 \in Word /\ 1 \in Word /\ 7 \in Word /\ 8 \in Word
BY DEF Word

\* The first octet of a word.
LEMMA SmallQuotient ==
  ASSUME NEW n \in Word, NEW k \in Int, NEW r \in 0 .. 255, n = 256 * k + r
  PROVE  k \in 0 .. 255
<1>1. 0 <= n /\ n < 256 * 256 /\ n \in Int
  BY WordIs
<1>2. QED
  BY <1>1

\* A word as two octets is the word.
LEMMA TwoIs ==
  ASSUME NEW n \in Int
  PROVE  /\ Two(n) \in Seq(Octet) /\ Len(Two(n)) = 2
         /\ n \in Word => Two(n)[1] * 256 + Two(n)[2] = n
<1> DEFINE q == n \div 256
           a == q % 256
           b == n % 256
<1>1. q \in Int /\ q = n \div 256
  OBVIOUS
<1>2. b \in 0 .. 255 /\ b = n % 256
  OBVIOUS
<1>3. Two(n) = <<a, b>>
  BY DEF Two
<1>4. a \in 0 .. 255
  <2> HIDE DEF q
  <2>1. QED
    BY <1>1
<1>5. n \in Word => a * 256 + b = n
  <2> HIDE DEF q, a, b
  <2>1. SUFFICES ASSUME n \in Word PROVE a * 256 + b = n
    OBVIOUS
  <2>2. n = 256 * q + b
    <3>1. n \in Int /\ q \in Int /\ b \in Int /\ q = n \div 256 /\ b = n % 256
      BY <1>1, <1>2
    <3>2. QED
      BY ONLY <3>1, Division, SMTT(30)
  <2>3. q \in 0 .. 255
    <3>1. q \in Int /\ b \in 0 .. 255
      BY <1>1, <1>2
    <3>2. QED
      BY ONLY <2>1, <2>2, <3>1, SmallQuotient, SMTT(60)
  <2>4. a = q
    BY <2>3 DEF a
  <2>5. QED
    BY <2>2, <2>3, <2>4
<1> HIDE DEF a, b
<1> DEFINE t == Two(n)
<1>6. t \in Seq(Octet) /\ Len(t) = 2 /\ t[1] = a /\ t[2] = b
  BY <1>2, <1>3, <1>4 DEF Octet
<1> HIDE DEF t
<1>7. n \in Word => t[1] * 256 + t[2] = n
  BY <1>5, <1>6
<1>8. QED
  BY <1>6, <1>7 DEF t

\* A header takes twelve octets and is read back as it was written.
LEMMA HeaderIs ==
  ASSUME NEW h, h.id \in Word, h.qr \in 0 .. 1, h.tc \in 0 .. 1, h.rd \in 0 .. 1,
         h.rcode \in 0 .. 15, h.qdcount \in Word, h.ancount \in Word
  PROVE  /\ encode_header(h) \in Seq(Octet) /\ Len(encode_header(h)) = HFIXEDSZ
         /\ \A rest \in Seq(Octet) :
              LET back == decode_header(encode_header(h) \o rest)
              IN  /\ back.id = h.id /\ back.tc = h.tc /\ back.rcode = h.rcode
                  /\ back.qdcount = h.qdcount /\ back.ancount = h.ancount
<1> DEFINE qr == h.qr
           tc == h.tc
           rd == h.rd
           rcode == h.rcode
           flags == qr * 128 + tc * 2 + rd
           mid == <<flags, rcode>>
           a == Two(h.id)
           q == Two(h.qdcount)
           n == Two(h.ancount)
           z == Two(0)
           am == a \o mid
           amq == am \o q
           amqn == amq \o n
           x == amqn \o z
           e == x \o z
<1>1. encode_header(h) = e
  BY DEF encode_header
<1>2. /\ a \in Seq(Octet) /\ Len(a) = 2 /\ a[1] * 256 + a[2] = h.id
      /\ q \in Seq(Octet) /\ Len(q) = 2 /\ q[1] * 256 + q[2] = h.qdcount
      /\ n \in Seq(Octet) /\ Len(n) = 2 /\ n[1] * 256 + n[2] = h.ancount
      /\ z \in Seq(Octet) /\ Len(z) = 2
  <2>1. h.id \in Int /\ h.qdcount \in Int /\ h.ancount \in Int /\ 0 \in Int
    BY WordIs
  <2>2. QED
    BY <2>1, TwoIs
<1>3. qr \in {0, 1} /\ tc \in {0, 1} /\ rd \in {0, 1} /\ rcode \in 0 .. 15
  OBVIOUS
<1> HIDE DEF qr, tc, rd, rcode, a, q, n, z
<1>4. flags \in 0 .. 255 /\ (flags \div 2) % 2 = tc
  <2>1. \A b, c, d \in {0, 1} : b * 128 + c * 2 + d \in 0 .. 255 /\ ((b * 128 + c * 2 + d) \div 2) % 2 = c
    OBVIOUS
  <2>2. QED
    BY <1>3, <2>1
<1>5. rcode % 16 = rcode
  BY <1>3
<1> HIDE DEF flags
<1>6. mid \in Seq(Octet) /\ Len(mid) = 2 /\ mid[1] = flags /\ mid[2] = rcode
  BY <1>3, <1>4 DEF Octet
<1> HIDE DEF mid
<1>7. /\ am \in Seq(Octet) /\ Len(am) = 4 /\ \A i \in 1 .. 2 : am[i] = a[i] /\ am[2 + i] = mid[i]
  <2>1. /\ am \in Seq(Octet) /\ Len(am) = Len(a) + Len(mid)
        /\ \A i \in 1 .. Len(a) : am[i] = a[i]
        /\ \A i \in 1 .. Len(mid) : am[Len(a) + i] = mid[i]
    BY <1>2, <1>6, Joined
  <2> HIDE DEF am
  <2>2. QED
    BY <1>2, <1>6, <2>1
<1> HIDE DEF am
<1>8. /\ amq \in Seq(Octet) /\ Len(amq) = 6 /\ \A i \in 1 .. 4 : amq[i] = am[i]
      /\ \A i \in 1 .. 2 : amq[4 + i] = q[i]
  <2>1. /\ amq \in Seq(Octet) /\ Len(amq) = Len(am) + Len(q)
        /\ \A i \in 1 .. Len(am) : amq[i] = am[i]
        /\ \A i \in 1 .. Len(q) : amq[Len(am) + i] = q[i]
    BY <1>2, <1>7, Joined, ZenonT(40)
  <2> HIDE DEF amq
  <2>2. QED
    BY <1>2, <1>7, <2>1
<1> HIDE DEF amq
<1>9. /\ amqn \in Seq(Octet) /\ Len(amqn) = 8 /\ \A i \in 1 .. 6 : amqn[i] = amq[i]
      /\ \A i \in 1 .. 2 : amqn[6 + i] = n[i]
  <2>1. /\ amqn \in Seq(Octet) /\ Len(amqn) = Len(amq) + Len(n)
        /\ \A i \in 1 .. Len(amq) : amqn[i] = amq[i]
        /\ \A i \in 1 .. Len(n) : amqn[Len(amq) + i] = n[i]
    BY <1>2, <1>8, Joined, ZenonT(40)
  <2> HIDE DEF amqn
  <2>2. QED
    BY <1>2, <1>8, <2>1
<1> HIDE DEF amqn
<1>10. x \in Seq(Octet) /\ Len(x) = 10 /\ \A i \in 1 .. 8 : x[i] = amqn[i]
  <2>1. /\ x \in Seq(Octet) /\ Len(x) = Len(amqn) + Len(z)
        /\ \A i \in 1 .. Len(amqn) : x[i] = amqn[i]
        /\ \A i \in 1 .. Len(z) : x[Len(amqn) + i] = z[i]
    BY <1>2, <1>9, Joined, ZenonT(40)
  <2> HIDE DEF x
  <2>2. QED
    BY <1>2, <1>9, <2>1
<1> HIDE DEF x
<1>11. e \in Seq(Octet) /\ Len(e) = 12 /\ \A i \in 1 .. 10 : e[i] = x[i]
  <2>1. /\ e \in Seq(Octet) /\ Len(e) = Len(x) + Len(z)
        /\ \A i \in 1 .. Len(x) : e[i] = x[i]
        /\ \A i \in 1 .. Len(z) : e[Len(x) + i] = z[i]
    BY <1>2, <1>10, Joined, ZenonT(40)
  <2> HIDE DEF e
  <2>2. QED
    BY <1>2, <1>10, <2>1
<1> HIDE DEF e
<1>12. \A i \in 1 .. 8 : e[i] = amqn[i]
  BY <1>10, <1>11
<1>13. amqn[1] = a[1] /\ amqn[2] = a[2]
  BY <1>7, <1>8, <1>9
<1>14. amqn[3] = flags /\ amqn[4] = rcode
  <2>1. am[2 + 1] = mid[1] /\ am[2 + 2] = mid[2]
    BY <1>7
  <2>2. QED
    BY <1>6, <1>8, <1>9, <2>1
<1>15. amqn[5] = q[1] /\ amqn[6] = q[2] /\ amqn[7] = n[1] /\ amqn[8] = n[2]
  <2>1. amq[4 + 1] = q[1] /\ amq[4 + 2] = q[2] /\ amqn[6 + 1] = n[1] /\ amqn[6 + 2] = n[2]
    BY <1>8, <1>9
  <2>2. QED
    BY <1>9, <2>1
<1>16. ASSUME NEW rest \in Seq(Octet)
       PROVE  LET back == decode_header(e \o rest)
              IN  /\ back.id = h.id /\ back.tc = h.tc /\ back.rcode = h.rcode
                  /\ back.qdcount = h.qdcount /\ back.ancount = h.ancount
  <2> DEFINE m == e \o rest
             back == decode_header(m)
  <2>1. \A i \in 1 .. 8 : m[i] = amqn[i]
    BY <1>11, <1>12, Joined
  <2> HIDE DEF m
  <2>2. /\ m[1] = a[1] /\ m[2] = a[2] /\ m[3] = flags /\ m[4] = rcode
        /\ m[5] = q[1] /\ m[6] = q[2] /\ m[7] = n[1] /\ m[8] = n[2]
    BY <1>13, <1>14, <1>15, <2>1
  <2>3. /\ back.id = m[1] * 256 + m[2] /\ back.tc = (m[3] \div 2) % 2 /\ back.rcode = m[4] % 16
        /\ back.qdcount = m[5] * 256 + m[6] /\ back.ancount = m[7] * 256 + m[8]
    <3>1. 0 + 1 = 1 /\ 1 + 1 = 2 /\ 2 + 1 = 3 /\ 3 + 1 = 4 /\ 4 + 1 = 5 /\ 5 + 1 = 6 /\ 6 + 1 = 7 /\ 7 + 1 = 8
      OBVIOUS
    <3>2. /\ back.id = TwoAt(m, 0) /\ back.tc = (At(m, 2) \div 2) % 2 /\ back.rcode = At(m, 3) % 16
          /\ back.qdcount = TwoAt(m, 4) /\ back.ancount = TwoAt(m, 6)
      BY DEF decode_header
    <3> HIDE DEF back
    <3>3. TwoAt(m, 0) = m[1] * 256 + m[2] /\ TwoAt(m, 4) = m[5] * 256 + m[6] /\ TwoAt(m, 6) = m[7] * 256 + m[8]
          /\ At(m, 2) = m[3] /\ At(m, 3) = m[4]
      BY <3>1 DEF TwoAt, At
    <3>4. QED
      BY <3>2, <3>3
  <2> HIDE DEF back
  <2>4. /\ back.id = h.id /\ back.tc = tc /\ back.rcode = rcode
        /\ back.qdcount = h.qdcount /\ back.ancount = h.ancount
    BY <1>2, <1>4, <1>5, <2>2, <2>3
  <2>5. QED
    BY <2>4 DEF back, m, tc, rcode
<1>17. QED
  BY <1>1, <1>11, <1>16 DEF HFIXEDSZ

\* A packet for the name: its coding is behind the header, with the type and the class.
QueryFor(m, w, marks) ==
  /\ Coded(w, marks) /\ Written(m, w) /\ Len(w) <= NameMax
  /\ m \in Seq(Octet) /\ Len(m) = HFIXEDSZ + (Len(w) + 4)

\* form_query makes such a packet, or none.
LEMMA AskedPacket ==
  ASSUME name \in Seq(Octet), NEW type \in Int, NEW m, m = form_query(Id, name, type, PacketSize), m # Nothing
  PROVE  \E w, marks : QueryFor(m, w, marks)
<1> DEFINE h == [Header EXCEPT !.id = Id, !.qdcount = 1, !.rd = 1]
           front == encode_header(h)
           maxlen == PacketSize - HFIXEDSZ
           w == encode_dotted(name, maxlen)
           a == Two(type)
           b == Two(C_IN)
           wa == w \o a
           q == wa \o b
<1>1. /\ h.id \in Word /\ h.qr \in 0 .. 1 /\ h.tc \in 0 .. 1 /\ h.rd \in 0 .. 1
      /\ h.rcode \in 0 .. 15 /\ h.qdcount \in Word /\ h.ancount \in Word
  <2>1. h.id = 7 /\ h.qr = 0 /\ h.tc = 0 /\ h.rd = 1 /\ h.rcode = 0 /\ h.qdcount = 1 /\ h.ancount = 0
    BY DEF Header, Id
  <2> HIDE DEF h
  <2>2. 7 \in Word /\ 1 \in Word /\ 0 \in Word
    BY WordIs
  <2>3. QED
    BY <2>1, <2>2
<1>2. maxlen \in Int /\ maxlen <= NameMax
  BY MessageAssumption DEF HFIXEDSZ
<1> HIDE DEF h, maxlen, w, a, b
<1>3. m = front \o q /\ w # Nothing /\ ~(maxlen - Len(w) < 4)
  <2> DEFINE e == encode_question(name, type, maxlen)
  <2>1. m = (IF PacketSize < HFIXEDSZ \/ e = Nothing THEN Nothing ELSE front \o e)
    BY DEF form_query, h, maxlen
  <2>2. e = IF w = Nothing \/ maxlen - Len(w) < 4 THEN Nothing ELSE q
    BY DEF encode_question, w, a, b
  <2> HIDE DEF e, front, q
  <2>3. QED
    BY <2>1, <2>2
<1>4. Len(w) <= maxlen /\ \E marks : Coded(w, marks)
  <2>1. encode_dotted(name, maxlen) # Nothing
    BY <1>3 DEF w
  <2>2. QED
    BY <1>2, <2>1, NameCoded DEF w
<1>5. PICK marks : Coded(w, marks)
  BY <1>4
<1>6. w \in Seq(Octet) /\ Len(w) \in Nat
  BY <1>5 DEF Coded
<1>7. a \in Seq(Octet) /\ Len(a) = 2 /\ b \in Seq(Octet) /\ Len(b) = 2
  BY TwoIs DEF a, b, C_IN
<1>8. front \in Seq(Octet) /\ Len(front) = HFIXEDSZ
  BY <1>1, HeaderIs
<1> HIDE DEF front
<1>9. wa \in Seq(Octet) /\ Len(wa) = Len(w) + 2 /\ \A i \in 1 .. Len(w) : wa[i] = w[i]
  <2>1. /\ wa \in Seq(Octet) /\ Len(wa) = Len(w) + Len(a)
        /\ \A i \in 1 .. Len(w) : wa[i] = w[i]
    BY <1>6, <1>7, Joined
  <2> HIDE DEF wa
  <2>2. QED
    BY <1>7, <2>1
<1> HIDE DEF wa
<1>10. q \in Seq(Octet) /\ Len(q) = Len(w) + 4 /\ \A i \in 1 .. Len(w) : q[i] = w[i]
  <2>1. /\ q \in Seq(Octet) /\ Len(q) = Len(wa) + Len(b)
        /\ \A i \in 1 .. Len(wa) : q[i] = wa[i]
    BY <1>7, <1>9, Joined
  <2> HIDE DEF q
  <2>2. QED
    BY <1>6, <1>7, <1>9, <2>1
<1> HIDE DEF q
<1>11. /\ m \in Seq(Octet) /\ Len(m) = Len(front) + Len(q)
       /\ \A i \in 1 .. Len(q) : m[Len(front) + i] = q[i]
  BY <1>3, <1>8, <1>10, Joined, SMTT(30)
<1>12. Written(m, w)
  <2>1. HFIXEDSZ + Len(w) <= Len(m) /\ HFIXEDSZ \in Nat
    BY <1>6, <1>8, <1>10, <1>11 DEF HFIXEDSZ
  <2>2. \A i \in 1 .. Len(w) : m[HFIXEDSZ + i] = w[i]
    <3>1. \A i \in 1 .. Len(w) : i \in 1 .. Len(q)
      BY <1>6, <1>10
    <3>2. QED
      BY <1>8, <1>10, <1>11, <3>1
  <2>3. QED
    BY <2>1, <2>2 DEF Written
<1>13. Len(w) <= NameMax
  BY <1>2, <1>4, <1>6, MessageAssumption
<1>14. QED
  BY <1>5, <1>8, <1>10, <1>11, <1>12, <1>13 DEF QueryFor

-----------------------------------------------------------------------------
(* How records are written and read                                        *)

\* A record a server may have.
RecordType(r) == r.atype \in Word /\ r.rdata \in Seq(Octet) /\ Len(r.rdata) \in Word

\* A record is a pointer to the name, the numbers and the data.
LEMMA RecordIs ==
  ASSUME NEW r, RecordType(r)
  PROVE  LET c == Record(r)
         IN  /\ c \in Seq(Octet) /\ Len(c) = 12 + Len(r.rdata) /\ Len(r.rdata) \in Nat
             /\ c[1] = 192 /\ c[2] = HFIXEDSZ
             /\ c[3] * 256 + c[4] = r.atype /\ c[5] * 256 + c[6] = C_IN
             /\ c[11] * 256 + c[12] = Len(r.rdata)
             /\ \A i \in 1 .. Len(r.rdata) : c[12 + i] = r.rdata[i]
<1> DEFINE p == <<192, HFIXEDSZ>>
           a == Two(r.atype)
           b == Two(C_IN)
           z == <<0, 0, 0, 0>>
           n == Two(Len(r.rdata))
           d == r.rdata
           pa == p \o a
           pab == pa \o b
           paz == pab \o z
           pan == paz \o n
           c == pan \o d
<1>1. Record(r) = c
  BY DEF Record
<1>2. /\ a \in Seq(Octet) /\ Len(a) = 2 /\ a[1] * 256 + a[2] = r.atype
      /\ b \in Seq(Octet) /\ Len(b) = 2 /\ b[1] * 256 + b[2] = C_IN
      /\ n \in Seq(Octet) /\ Len(n) = 2 /\ n[1] * 256 + n[2] = Len(r.rdata)
  <2>1. r.atype \in Int /\ Len(r.rdata) \in Int /\ C_IN \in Int /\ C_IN \in Word
        /\ r.atype \in Word /\ Len(r.rdata) \in Word
    BY WordIs DEF C_IN, RecordType
  <2>2. QED
    BY <2>1, TwoIs
<1>3. /\ p \in Seq(Octet) /\ Len(p) = 2 /\ p[1] = 192 /\ p[2] = HFIXEDSZ
      /\ z \in Seq(Octet) /\ Len(z) = 4
  BY DEF Octet, HFIXEDSZ
<1>4. d \in Seq(Octet) /\ Len(d) \in Nat
  BY DEF RecordType
<1> HIDE DEF p, a, b, z, n, d
<1>5. pa \in Seq(Octet) /\ Len(pa) = 4 /\ \A i \in 1 .. 2 : pa[i] = p[i] /\ pa[2 + i] = a[i]
  <2>1. /\ pa \in Seq(Octet) /\ Len(pa) = Len(p) + Len(a)
        /\ \A i \in 1 .. Len(p) : pa[i] = p[i]
        /\ \A i \in 1 .. Len(a) : pa[Len(p) + i] = a[i]
    <3>1. p \in Seq(Octet) /\ a \in Seq(Octet)
      BY <1>2, <1>3
    <3>2. QED
      BY ONLY <3>1, Joined
  <2> HIDE DEF pa
  <2>2. QED
    BY <1>2, <1>3, <2>1
<1> HIDE DEF pa
<1>6. pab \in Seq(Octet) /\ Len(pab) = 6 /\ (\A i \in 1 .. 4 : pab[i] = pa[i]) /\ \A i \in 1 .. 2 : pab[4 + i] = b[i]
  <2>1. /\ pab \in Seq(Octet) /\ Len(pab) = Len(pa) + Len(b)
        /\ \A i \in 1 .. Len(pa) : pab[i] = pa[i]
        /\ \A i \in 1 .. Len(b) : pab[Len(pa) + i] = b[i]
    BY <1>2, <1>5, Joined
  <2> HIDE DEF pab
  <2>2. QED
    BY <1>2, <1>5, <2>1
<1> HIDE DEF pab
<1>7. paz \in Seq(Octet) /\ Len(paz) = 10 /\ \A i \in 1 .. 6 : paz[i] = pab[i]
  <2>1. /\ paz \in Seq(Octet) /\ Len(paz) = Len(pab) + Len(z)
        /\ \A i \in 1 .. Len(pab) : paz[i] = pab[i]
    <3>1. pab \in Seq(Octet) /\ z \in Seq(Octet)
      BY <1>3, <1>6
    <3>2. QED
      BY ONLY <3>1, Joined
  <2> HIDE DEF paz
  <2>2. QED
    BY <1>3, <1>6, <2>1
<1> HIDE DEF paz
<1>8. pan \in Seq(Octet) /\ Len(pan) = 12 /\ (\A i \in 1 .. 10 : pan[i] = paz[i]) /\ \A i \in 1 .. 2 : pan[10 + i] = n[i]
  <2>1. /\ pan \in Seq(Octet) /\ Len(pan) = Len(paz) + Len(n)
        /\ \A i \in 1 .. Len(paz) : pan[i] = paz[i]
        /\ \A i \in 1 .. Len(n) : pan[Len(paz) + i] = n[i]
    BY <1>2, <1>7, Joined
  <2> HIDE DEF pan
  <2>2. QED
    BY <1>2, <1>7, <2>1
<1> HIDE DEF pan
<1>9. c \in Seq(Octet) /\ Len(c) = 12 + Len(d) /\ (\A i \in 1 .. 12 : c[i] = pan[i]) /\ \A i \in 1 .. Len(d) : c[12 + i] = d[i]
  <2>1. /\ c \in Seq(Octet) /\ Len(c) = Len(pan) + Len(d)
        /\ \A i \in 1 .. Len(pan) : c[i] = pan[i]
        /\ \A i \in 1 .. Len(d) : c[Len(pan) + i] = d[i]
    BY <1>4, <1>8, Joined
  <2> HIDE DEF c
  <2>2. QED
    BY <1>8, <2>1
<1> HIDE DEF c
<1>10. c[1] = p[1] /\ c[2] = p[2] /\ c[3] = a[1] /\ c[4] = a[2] /\ c[5] = b[1] /\ c[6] = b[2]
       /\ c[11] = n[1] /\ c[12] = n[2]
  <2>1. pa[2 + 1] = a[1] /\ pa[2 + 2] = a[2] /\ pab[4 + 1] = b[1] /\ pab[4 + 2] = b[2]
        /\ pan[10 + 1] = n[1] /\ pan[10 + 2] = n[2]
    BY <1>5, <1>6, <1>8
  <2>2. /\ \A i \in 1 .. 6 : c[i] = pab[i]
    BY <1>7, <1>8, <1>9
  <2>3. c[11] = pan[11] /\ c[12] = pan[12]
    BY <1>9
  <2>4. pab[1] = p[1] /\ pab[2] = p[2] /\ pab[3] = pa[3] /\ pab[4] = pa[4]
    BY <1>5, <1>6
  <2>5. c[1] = pab[1] /\ c[2] = pab[2] /\ c[3] = pab[3] /\ c[4] = pab[4] /\ c[5] = pab[5] /\ c[6] = pab[6]
    BY <2>2
  <2>6. QED
    BY <2>1, <2>3, <2>4, <2>5
<1>11. c[1] = 192 /\ c[2] = HFIXEDSZ
  BY <1>3, <1>10
<1>12. c[3] * 256 + c[4] = r.atype /\ c[5] * 256 + c[6] = C_IN /\ c[11] * 256 + c[12] = Len(r.rdata)
  BY <1>2, <1>10
<1>13. d = r.rdata
  BY DEF d
<1>14. QED
  BY <1>1, <1>4, <1>9, <1>11, <1>12, <1>13, Zenon

\* It is read as it was written, wherever it is in a message with the name.
LEMMA AnswerIs ==
  ASSUME name \in Seq(Octet), NEW m, NEW w, NEW marks, m \in Seq(Octet), Coded(w, marks), Written(m, w),
         Len(w) <= NameMax, NEW r, RecordType(r), NEW o \in Nat,
         o + Len(Record(r)) <= Len(m), \A k \in 1 .. Len(Record(r)) : m[o + k] = Record(r)[k]
  PROVE  decode_answer(m, o, Len(m)) =
           [next |-> Len(Record(r)), atype |-> r.atype, aclass |-> C_IN, rdata |-> r.rdata]
<1> DEFINE c == Record(r)
           i == decode_dotted(m, o, Len(m), NameMax)[1]
           L == Len(r.rdata)
           M == Len(m)
<1>1. /\ c \in Seq(Octet) /\ Len(c) = 12 + L /\ L \in Nat
      /\ c[1] = 192 /\ c[2] = HFIXEDSZ
      /\ c[3] * 256 + c[4] = r.atype /\ c[5] * 256 + c[6] = C_IN
      /\ c[11] * 256 + c[12] = L
      /\ \A k \in 1 .. L : c[12 + k] = r.rdata[k]
  BY RecordIs
<1>2. o + Len(c) <= M /\ M \in Nat /\ \A k \in 1 .. Len(c) : m[o + k] = c[k]
  OBVIOUS
<1>3. r.rdata \in Seq(Octet) /\ L = Len(r.rdata)
  BY DEF RecordType
<1> HIDE DEF c, L
<1>4. /\ m[o + 1] = 192 /\ m[o + 2] = HFIXEDSZ /\ m[o + 3] = c[3] /\ m[o + 4] = c[4]
      /\ m[o + 5] = c[5] /\ m[o + 6] = c[6] /\ m[o + 11] = c[11] /\ m[o + 12] = c[12]
      /\ \A k \in 1 .. L : m[o + (12 + k)] = c[12 + k]
  <2>1. /\ 1 \in 1 .. Len(c) /\ 2 \in 1 .. Len(c) /\ 3 \in 1 .. Len(c) /\ 4 \in 1 .. Len(c)
        /\ 5 \in 1 .. Len(c) /\ 6 \in 1 .. Len(c) /\ 11 \in 1 .. Len(c) /\ 12 \in 1 .. Len(c)
    BY <1>1
  <2>2. \A k \in 1 .. L : 12 + k \in 1 .. Len(c)
    BY <1>1
  <2>3. /\ m[o + 1] = 192 /\ m[o + 2] = HFIXEDSZ /\ m[o + 3] = c[3] /\ m[o + 4] = c[4]
        /\ m[o + 5] = c[5] /\ m[o + 6] = c[6] /\ m[o + 11] = c[11] /\ m[o + 12] = c[12]
    <3>1. /\ m[o + 1] = c[1] /\ m[o + 2] = c[2] /\ m[o + 3] = c[3] /\ m[o + 4] = c[4]
          /\ m[o + 5] = c[5] /\ m[o + 6] = c[6] /\ m[o + 11] = c[11] /\ m[o + 12] = c[12]
      BY ONLY <1>2, <2>1
    <3>2. QED
      BY <1>1, <3>1
  <2>4. \A k \in 1 .. L : m[o + (12 + k)] = c[12 + k]
    BY ONLY <1>2, <2>2
  <2>5. QED
    BY <2>3, <2>4
<1>5. i = 2
  <2>1. o + 1 < M /\ At(m, o) = 192 /\ At(m, o + 1) = HFIXEDSZ
    <3>1. o + 1 < M /\ o + 1 + 1 = o + 2
      BY <1>1, <1>2
    <3>2. QED
      BY <1>4, <3>1 DEF At
  <2>2. \A x \in Nat : x + 1 < M /\ At(m, x) = 192 /\ At(m, x + 1) = HFIXEDSZ
          => decode_dotted(m, x, M, NameMax)[1] = 2
    BY NameDecoded
  <2>3. QED
    BY <2>1, <2>2
<1> DEFINE o2 == o + i
           left == M - (i + RRFIXEDSZ + o)
           rd == TwoAt(m, o2 + 8)
           good == [next |-> i + RRFIXEDSZ + rd, atype |-> TwoAt(m, o2), aclass |-> TwoAt(m, o2 + 2),
                    rdata |-> SubSeq(m, o2 + RRFIXEDSZ + 1, o2 + RRFIXEDSZ + rd)]
           bad == [next |-> Fail]
<1>6. decode_answer(m, o, M) = IF i < 0 \/ left < 0 THEN bad ELSE IF left < rd THEN bad ELSE good
  BY Zenon DEF decode_answer
<1> HIDE DEF M
<1>7. rd = L /\ TwoAt(m, o2) = r.atype /\ TwoAt(m, o2 + 2) = C_IN /\ RRFIXEDSZ = 10 /\ o2 = o + 2
  <2>1. /\ o2 = o + 2 /\ o2 + 8 + 1 = o + 11 /\ o2 + 8 + 1 + 1 = o + 12 /\ o2 + 1 = o + 3 /\ o2 + 1 + 1 = o + 4
        /\ o2 + 2 + 1 = o + 5 /\ o2 + 2 + 1 + 1 = o + 6
    BY <1>5
  <2> HIDE DEF o2
  <2>2. /\ TwoAt(m, o2 + 8) = m[o + 11] * 256 + m[o + 12]
        /\ TwoAt(m, o2) = m[o + 3] * 256 + m[o + 4]
        /\ TwoAt(m, o2 + 2) = m[o + 5] * 256 + m[o + 6]
    BY <2>1 DEF TwoAt, At
  <2>3. QED
    BY <1>1, <1>4, <2>1, <2>2 DEF RRFIXEDSZ
<1> HIDE DEF i, rd, o2
<1>8. left = M - (12 + o) /\ ~(i < 0) /\ ~(left < 0) /\ ~(left < rd)
  <2>1. i = 2 /\ RRFIXEDSZ = 10 /\ rd = L /\ L \in Nat /\ M \in Nat /\ o \in Nat /\ o + (12 + L) <= M
    BY <1>1, <1>2, <1>5, <1>7
  <2>2. QED
    BY ONLY <2>1
<1>9. SubSeq(m, o2 + RRFIXEDSZ + 1, o2 + RRFIXEDSZ + rd) = r.rdata
  <2> DEFINE x == o2 + RRFIXEDSZ + 1
             y == o2 + RRFIXEDSZ + rd
             s == SubSeq(m, x, y)
  <2>1. x = o + 13 /\ y = o + 12 + L
    <3>1. o2 = o + 2 /\ RRFIXEDSZ = 10 /\ rd = L /\ L \in Nat /\ o \in Nat
      BY <1>1, <1>7
    <3>2. QED
      BY ONLY <3>1
  <2> HIDE DEF x, y
  <2>2. x \in Nat \ {0} /\ y \in Int /\ y <= Len(m) /\ Len(m) \in Nat
    BY <1>1, <1>2, <2>1 DEF M
  <2>3. /\ s \in Seq(Octet) /\ Len(s) = IF x <= y THEN y - x + 1 ELSE 0
        /\ \A k \in 1 .. Len(s) : s[k] = m[x + k - 1]
    BY <2>2, Pieces
  <2> HIDE DEF s
  <2>4. Len(s) = L /\ \A k \in 1 .. L : x + k - 1 = o + (12 + k)
    BY <1>1, <2>1, <2>3
  <2>5. \A k \in 1 .. L : s[k] = r.rdata[k]
    <3>1. ASSUME NEW k \in 1 .. L
          PROVE  s[k] = r.rdata[k]
      <4>1. s[k] = m[x + k - 1]
        BY <2>3, <2>4
      <4>2. m[o + (12 + k)] = c[12 + k] /\ c[12 + k] = r.rdata[k]
        BY <1>1, <1>4
      <4>3. x + k - 1 = o + (12 + k)
        BY <2>4
      <4>4. QED
        BY <4>1, <4>2, <4>3
    <3>2. QED
      BY <3>1
  <2> DEFINE t == r.rdata
  <2>6. t \in Seq(Octet) /\ Len(t) = L /\ \A k \in 1 .. L : s[k] = t[k]
    BY <1>3, <2>5
  <2> HIDE DEF t
  <2>7. s = t
    <3>1. s \in Seq(Octet) /\ t \in Seq(Octet) /\ Len(s) = Len(t) /\ \A k \in 1 .. Len(s) : s[k] = t[k]
      BY <2>3, <2>4, <2>6
    <3>2. QED
      BY ONLY <3>1
  <2>8. QED
    BY <2>7 DEF s, x, y, t
<1>10. i + RRFIXEDSZ + rd = Len(c)
  BY <1>1, <1>5, <1>7
<1> DEFINE cut == SubSeq(m, o2 + RRFIXEDSZ + 1, o2 + RRFIXEDSZ + rd)
           next == i + RRFIXEDSZ + rd
           ta == TwoAt(m, o2)
           tb == TwoAt(m, o2 + 2)
<1>11. good = [next |-> next, atype |-> ta, aclass |-> tb, rdata |-> cut]
  OBVIOUS
<1>12. next = Len(c) /\ ta = r.atype /\ tb = C_IN /\ cut = r.rdata
  BY <1>7, <1>9, <1>10
<1> HIDE DEF good, left, bad, next, ta, tb, cut
<1>13. decode_answer(m, o, M) = good
  BY <1>6, <1>8
<1>14. QED
  BY <1>11, <1>12, <1>13, Zenon DEF c, M

-----------------------------------------------------------------------------
(* Whole messages                                                          *)

\* The records of the servers have fields of two octets.
LEMMA ContentsType ==
  ASSUME NEW rs, rs \in Contents \cup {<<>>}
  PROVE  /\ Len(rs) \in Nat /\ DOMAIN rs = 1 .. Len(rs) /\ Len(rs) \in Word
         /\ rs \in Seq([atype : Word, rdata : Seq(Octet)])
         /\ \A i \in 1 .. Len(rs) : RecordType(rs[i])
<1> DEFINE R == [atype : Word, rdata : Seq(Octet)]
<1>1. rs \in Seq(R) /\ Len(rs) \in Word /\ \A i \in DOMAIN rs : Len(rs[i].rdata) \in Word
  <2>1. CASE rs \in Contents
    BY <2>1, QueryAssumption
  <2>2. CASE rs = <<>>
    <3>1. 0 \in Word
      BY WordIs
    <3>2. QED
      BY <2>2, <3>1
  <2>3. QED
    BY <2>1, <2>2
<1> HIDE DEF R
<1>2. Len(rs) \in Nat /\ DOMAIN rs = 1 .. Len(rs) /\ \A i \in 1 .. Len(rs) : rs[i] \in R
  BY <1>1
<1>3. \A r \in R : r.atype \in Word /\ r.rdata \in Seq(Octet)
  BY DEF R
<1>4. \A i \in 1 .. Len(rs) : RecordType(rs[i])
  BY <1>1, <1>2, <1>3 DEF RecordType
<1>5. QED
  BY <1>1, <1>2, <1>4 DEF R

\* A header, the question and the records, from cut to cut.
LaidOut(m, rs) ==
  /\ m \in Seq(Octet) /\ Len(packet) <= Len(m)
  /\ \A i \in 1 .. Len(packet) - HFIXEDSZ : m[HFIXEDSZ + i] = packet[HFIXEDSZ + i]
  /\ \E cut \in [0 .. Len(rs) -> Nat] :
       /\ cut[0] = Len(packet)
       /\ \A i \in 1 .. Len(rs) :
            /\ cut[i] = cut[i - 1] + Len(Record(rs[i])) /\ cut[i] <= Len(m)
            /\ \A k \in 1 .. Len(Record(rs[i])) : m[cut[i - 1] + k] = Record(rs[i])[k]

\* An answer is laid out like that behind its header.
LEMMA ReplyIs ==
  ASSUME packet \in Seq(Octet), HFIXEDSZ <= Len(packet), NEW id \in Word, NEW tc \in 0 .. 1,
         NEW rcode \in 0 .. 15, NEW rs, rs \in Contents \cup {<<>>}
  PROVE  LET m == Reply(id, tc, rcode, rs)
             h == decode_header(m)
         IN  /\ h.id = id /\ h.tc = tc /\ h.rcode = rcode /\ h.qdcount = 1 /\ h.ancount = Len(rs)
             /\ LaidOut(m, rs)
<1> DEFINE g == [Header EXCEPT !.id = id, !.qr = 1, !.tc = tc, !.rd = 1, !.rcode = rcode,
                               !.qdcount = 1, !.ancount = Len(rs)]
           front == encode_header(g)
           seqs == [i \in DOMAIN rs |-> Record(rs[i])]
           flat == FlattenSeq(seqs)
           P == Len(packet)
           fq == front \o Question
           m == fq \o flat
           one == 1
<1>1. Reply(id, tc, rcode, rs) = m
  BY DEF Reply
<1>2. /\ g.id \in Word /\ g.qr \in 0 .. 1 /\ g.tc \in 0 .. 1 /\ g.rd \in 0 .. 1
      /\ g.rcode \in 0 .. 15 /\ g.qdcount \in Word /\ g.ancount \in Word
      /\ g.id = id /\ g.tc = tc /\ g.rcode = rcode /\ g.qdcount = one /\ g.ancount = Len(rs)
  <2>1. g.id = id /\ g.qr = one /\ g.tc = tc /\ g.rd = one /\ g.rcode = rcode /\ g.qdcount = one /\ g.ancount = Len(rs)
    BY DEF Header
  <2> HIDE DEF g
  <2>2. one \in Word
    BY WordIs
  <2>3. Len(rs) \in Word
    BY ContentsType
  <2>4. one \in 0 .. 1
    OBVIOUS
  <2> HIDE DEF one
  <2>5. QED
    BY <2>1, <2>2, <2>3, <2>4
<1>3. HFIXEDSZ = 12 /\ P \in Nat /\ 12 <= P /\ packet \in Seq(Octet)
  BY DEF HFIXEDSZ
<1> HIDE DEF g, P
<1>4. /\ front \in Seq(Octet) /\ Len(front) = HFIXEDSZ
      /\ \A rest \in Seq(Octet) :
           LET back == decode_header(front \o rest)
           IN  /\ back.id = g.id /\ back.tc = g.tc /\ back.rcode = g.rcode
               /\ back.qdcount = g.qdcount /\ back.ancount = g.ancount
  BY <1>2, HeaderIs
<1>5. Question \in Seq(Octet) /\ Len(Question) = P - 12 /\ \A i \in 1 .. P - 12 : Question[i] = packet[12 + i]
  <2> DEFINE x == HFIXEDSZ + 1
  <2>1. x = 13 /\ x \in Nat \ {0} /\ P \in Int /\ P <= Len(packet)
    BY <1>3 DEF P
  <2> HIDE DEF x
  <2>2. Question = SubSeq(packet, x, P)
    BY DEF Question, x, P
  <2> DEFINE q == SubSeq(packet, x, P)
  <2>3. /\ q \in Seq(Octet) /\ Len(q) = IF x <= P THEN P - x + 1 ELSE 0
        /\ \A i \in 1 .. Len(q) : q[i] = packet[x + i - 1]
    BY <1>3, <2>1, Pieces
  <2> HIDE DEF q
  <2>4. Len(q) = P - 12 /\ \A i \in 1 .. P - 12 : x + i - 1 = 12 + i
    BY <1>3, <2>1, <2>3
  <2>5. q \in Seq(Octet) /\ Len(q) = P - 12 /\ \A i \in 1 .. P - 12 : q[i] = packet[12 + i]
    BY <2>3, <2>4
  <2>6. QED
    BY <2>2, <2>5 DEF q
<1>6. /\ Len(rs) \in Nat /\ seqs \in Seq(Seq(Octet)) /\ Len(seqs) = Len(rs)
      /\ \A i \in 1 .. Len(rs) : seqs[i] = Record(rs[i])
  <2>1. Len(rs) \in Nat /\ DOMAIN rs = 1 .. Len(rs) /\ \A i \in 1 .. Len(rs) : RecordType(rs[i])
    BY ContentsType
  <2>2. \A i \in 1 .. Len(rs) : Record(rs[i]) \in Seq(Octet)
    BY <2>1, RecordIs
  <2>3. QED
    BY <2>1, <2>2
<1> HIDE DEF seqs
<1>7. flat \in Seq(Octet) /\ \E cut : PutTogether(seqs, cut, flat)
  BY <1>6, FlattenProps
<1> HIDE DEF front, flat
<1>8. fq \in Seq(Octet) /\ Len(fq) = P /\ (\A i \in 1 .. P - 12 : fq[12 + i] = packet[12 + i])
      /\ \A rest \in Seq(Octet) : fq \o rest = front \o (Question \o rest)
  <2>1. /\ fq \in Seq(Octet) /\ Len(fq) = Len(front) + Len(Question)
        /\ \A i \in 1 .. Len(Question) : fq[Len(front) + i] = Question[i]
    BY <1>4, <1>5, Joined
  <2>2. \A rest \in Seq(Octet) : fq \o rest = front \o (Question \o rest)
    BY ONLY <1>4, <1>5, SMTT(60)
  <2> HIDE DEF fq
  <2>3. QED
    <3>1. Len(front) = 12 /\ Len(Question) = P - 12 /\ P \in Nat /\ 12 <= P
      BY <1>3, <1>4, <1>5
    <3>2. Len(fq) = P /\ \A i \in 1 .. P - 12 : fq[12 + i] = Question[i]
      BY ONLY <2>1, <3>1
    <3>3. \A i \in 1 .. P - 12 : fq[12 + i] = packet[12 + i]
      BY <1>5, <3>2
    <3>4. QED
      BY <2>1, <2>2, <3>2, <3>3
<1>9. decode_header(m).id = id /\ decode_header(m).tc = tc /\ decode_header(m).rcode = rcode
      /\ decode_header(m).qdcount = one /\ decode_header(m).ancount = Len(rs)
  <2> DEFINE rest == Question \o flat
  <2>1. rest \in Seq(Octet)
    BY ONLY <1>5, <1>7
  <2>2. m = front \o rest
    BY <1>7, <1>8
  <2> HIDE DEF rest, m
  <2>3. QED
    BY <1>2, <1>4, <2>1, <2>2
<1>10. /\ m \in Seq(Octet) /\ Len(m) = P + Len(flat) /\ Len(flat) \in Nat
       /\ \A i \in 1 .. P : m[i] = fq[i]
       /\ \A i \in 1 .. Len(flat) : m[P + i] = flat[i]
  <2>1. /\ m \in Seq(Octet) /\ Len(m) = Len(fq) + Len(flat)
        /\ \A i \in 1 .. Len(fq) : m[i] = fq[i]
        /\ \A i \in 1 .. Len(flat) : m[Len(fq) + i] = flat[i]
    BY <1>7, <1>8, Joined
  <2> HIDE DEF m, fq
  <2>2. Len(flat) \in Nat
    BY <1>7
  <2>3. QED
    BY <1>8, <2>1, <2>2
<1> HIDE DEF m, fq
<1>11. \A i \in 1 .. P - 12 : m[12 + i] = packet[12 + i]
  <2>1. \A i \in 1 .. P - 12 : 12 + i \in 1 .. P
    BY <1>3
  <2>2. QED
    BY <1>8, <1>10, <2>1
<1>12. PICK at : PutTogether(seqs, at, flat)
  BY <1>7
<1> DEFINE N == Len(rs)
           cut == [i \in 0 .. N |-> P + at[i]]
<1>13. /\ at \in [0 .. N -> Nat] /\ at[0] = 0
       /\ \A i \in 1 .. N : /\ at[i] = at[i - 1] + Len(seqs[i]) /\ at[i] <= Len(flat)
                            /\ \A k \in 1 .. Len(seqs[i]) : flat[at[i - 1] + k] = seqs[i][k]
  BY <1>6, <1>12 DEF PutTogether
<1>14. \A i \in 1 .. N : seqs[i] = Record(rs[i]) /\ seqs[i] \in Seq(Octet) /\ Len(seqs[i]) \in Nat
  BY <1>6
<1>15. N \in Nat
  BY <1>6
<1> HIDE DEF N
<1>16. cut \in [0 .. N -> Nat] /\ cut[0] = P /\ \A i \in 0 .. N : cut[i] = P + at[i]
  BY <1>3, <1>13, <1>15
<1> HIDE DEF cut
<1>17. ASSUME NEW i \in 1 .. N
       PROVE  /\ cut[i] = cut[i - 1] + Len(seqs[i]) /\ cut[i] <= Len(m)
              /\ \A k \in 1 .. Len(seqs[i]) : m[cut[i - 1] + k] = seqs[i][k]
  <2> DEFINE s == seqs[i]
             a == at[i - 1]
             b == at[i]
  <2>1. i \in 0 .. N /\ i - 1 \in 0 .. N
    BY <1>15
  <2>2. a \in Nat /\ b \in Nat /\ Len(s) \in Nat /\ b = a + Len(s) /\ b <= Len(flat)
        /\ cut[i] = P + b /\ cut[i - 1] = P + a /\ \A k \in 1 .. Len(s) : flat[a + k] = s[k]
    BY <1>13, <1>14, <1>16, <2>1
  <2> HIDE DEF s, a, b
  <2>3. cut[i] = cut[i - 1] + Len(s) /\ cut[i] <= Len(m)
    BY <1>3, <1>10, <2>2
  <2>4. \A k \in 1 .. Len(s) : a + k \in 1 .. Len(flat) /\ P + (a + k) = cut[i - 1] + k
    BY <1>3, <1>10, <2>2, SMTT(30)
  <2>5. \A k \in 1 .. Len(s) : m[cut[i - 1] + k] = s[k]
    <3>1. ASSUME NEW k \in 1 .. Len(s)
          PROVE  m[cut[i - 1] + k] = s[k]
      <4>1. m[P + (a + k)] = flat[a + k] /\ flat[a + k] = s[k]
        BY <1>10, <2>2, <2>4
      <4>2. QED
        BY <2>4, <4>1
    <3>2. QED
      BY <3>1
  <2>6. QED
    BY <2>3, <2>5 DEF s
<1>18. \A i \in 1 .. N : /\ cut[i] = cut[i - 1] + Len(Record(rs[i])) /\ cut[i] <= Len(m)
                         /\ \A k \in 1 .. Len(Record(rs[i])) : m[cut[i - 1] + k] = Record(rs[i])[k]
  BY <1>14, <1>17
<1>19. Len(packet) <= Len(m) /\ \A i \in 1 .. Len(packet) - HFIXEDSZ : m[HFIXEDSZ + i] = packet[HFIXEDSZ + i]
  BY <1>3, <1>10, <1>11 DEF P
<1>20. \E c \in [0 .. Len(rs) -> Nat] :
         /\ c[0] = Len(packet)
         /\ \A i \in 1 .. Len(rs) :
              /\ c[i] = c[i - 1] + Len(Record(rs[i])) /\ c[i] <= Len(m)
              /\ \A k \in 1 .. Len(Record(rs[i])) : m[c[i - 1] + k] = Record(rs[i])[k]
  BY <1>16, <1>18 DEF N, P
<1> DEFINE r == Reply(id, tc, rcode, rs)
<1>21. r = m
  BY <1>1
<1>22. LaidOut(m, rs)
  BY <1>10, <1>19, <1>20 DEF LaidOut
<1> HIDE DEF r
<1>23. QED
  BY <1>9, <1>21, <1>22, Zenon DEF r, one

\* A reader finds its records one after the other from the end of the question on.
RecordsAt(m, rs, from, cut) ==
  /\ cut \in [0 .. Len(rs) -> Nat] /\ cut[0] = from
  /\ \A i \in 1 .. Len(rs) :
       /\ cut[i] - cut[i - 1] >= 0 /\ cut[i - 1] + (cut[i] - cut[i - 1]) = cut[i]
       /\ decode_answer(m, cut[i - 1], Len(m)) =
            [next |-> cut[i] - cut[i - 1], atype |-> rs[i].atype, aclass |-> C_IN, rdata |-> rs[i].rdata]

\* What a whole reply looks like to the program.
WholeReply(m, rs) ==
  LET h == decode_header(m)
      from == HFIXEDSZ + decode_dotted(m, HFIXEDSZ, Len(m), NameMax)[1] + 4
  IN  /\ h.qdcount = 1 /\ h.ancount = Len(rs)
      /\ \E cut : RecordsAt(m, rs, from, cut)

\* What a server sends whole is such a reply.
LEMMA ReplyRead ==
  ASSUME name \in Seq(Octet), NEW w, NEW marks, QueryFor(packet, w, marks),
         NEW rs, rs \in Contents \cup {<<>>}
  PROVE  WholeReply(Reply(Id, 0, NOERROR, rs), rs)
<1> DEFINE m == Reply(Id, 0, NOERROR, rs)
           h == decode_header(m)
           from == HFIXEDSZ + decode_dotted(m, HFIXEDSZ, Len(m), NameMax)[1] + 4
           N == Len(rs)
<1>1. /\ Coded(w, marks) /\ Written(packet, w) /\ Len(w) <= NameMax /\ packet \in Seq(Octet)
      /\ Len(packet) = HFIXEDSZ + (Len(w) + 4) /\ HFIXEDSZ = 12
  BY DEF QueryFor, HFIXEDSZ
<1>2. Len(w) \in Nat
  BY <1>1 DEF Coded
<1>3. /\ m \in Seq(Octet) /\ h.qdcount = 1 /\ h.ancount = Len(rs)
      /\ Len(packet) <= Len(m)
      /\ \A i \in 1 .. Len(packet) - HFIXEDSZ : m[HFIXEDSZ + i] = packet[HFIXEDSZ + i]
      /\ \E cut \in [0 .. Len(rs) -> Nat] :
           /\ cut[0] = Len(packet)
           /\ \A i \in 1 .. Len(rs) :
                /\ cut[i] = cut[i - 1] + Len(Record(rs[i])) /\ cut[i] <= Len(m)
                /\ \A k \in 1 .. Len(Record(rs[i])) : m[cut[i - 1] + k] = Record(rs[i])[k]
  <2>1. HFIXEDSZ <= Len(packet) /\ packet \in Seq(Octet)
    BY <1>1, <1>2
  <2>2. Id \in Word /\ 0 \in 0 .. 1 /\ NOERROR \in 0 .. 15
    <3>1. Id \in Word
      BY WordIs DEF Id
    <3>2. QED
      BY <3>1 DEF NOERROR
  <2> DEFINE zero == 0
  <2>3. zero \in 0 .. 1 /\ m = Reply(Id, zero, NOERROR, rs)
    BY <2>2
  <2> HIDE DEF zero, m
  <2>4. h.qdcount = 1 /\ h.ancount = Len(rs) /\ LaidOut(m, rs)
    BY <2>1, <2>2, <2>3, ReplyIs, SMTT(60)
  <2>5. QED
    BY <2>4, Zenon DEF LaidOut
<1> HIDE DEF m
<1>4. Written(m, w)
  <2>1. Len(packet) \in Nat /\ Len(m) \in Nat
    BY <1>1, <1>3
  <2>2. HFIXEDSZ + Len(w) <= Len(m) /\ \A i \in 1 .. Len(w) : i \in 1 .. Len(packet) - HFIXEDSZ
    BY <1>1, <1>2, <1>3, <2>1
  <2>3. \A i \in 1 .. Len(w) : packet[HFIXEDSZ + i] = w[i]
    BY <1>1 DEF Written
  <2>4. \A i \in 1 .. Len(w) : m[HFIXEDSZ + i] = w[i]
    BY <1>3, <2>2, <2>3
  <2>5. QED
    BY <2>2, <2>4 DEF Written
<1>5. decode_dotted(m, HFIXEDSZ, Len(m), NameMax)[1] = Len(w)
  BY <1>1, <1>3, <1>4, NameDecoded
<1>6. from = Len(packet)
  BY <1>1, <1>2, <1>5
<1>7. PICK cut \in [0 .. N -> Nat] :
        /\ cut[0] = Len(packet)
        /\ \A i \in 1 .. N :
             /\ cut[i] = cut[i - 1] + Len(Record(rs[i])) /\ cut[i] <= Len(m)
             /\ \A k \in 1 .. Len(Record(rs[i])) : m[cut[i - 1] + k] = Record(rs[i])[k]
  BY <1>3
<1>8. N \in Nat /\ \A i \in 1 .. N : RecordType(rs[i])
  BY ContentsType
<1> HIDE DEF N, from, h
<1>9. ASSUME NEW i \in 1 .. N
      PROVE  /\ cut[i] - cut[i - 1] >= 0 /\ cut[i - 1] + (cut[i] - cut[i - 1]) = cut[i]
             /\ decode_answer(m, cut[i - 1], Len(m)) =
                  [next |-> cut[i] - cut[i - 1], atype |-> rs[i].atype, aclass |-> C_IN, rdata |-> rs[i].rdata]
  <2> DEFINE a == cut[i - 1]
             b == cut[i]
             r == rs[i]
             c == Record(r)
             n == Len(c)
  <2>1. a \in Nat /\ b \in Nat
    BY <1>7, <1>8
  <2>2. RecordType(r) /\ b = a + n /\ b <= Len(m) /\ \A k \in 1 .. n : m[a + k] = c[k]
    BY <1>7, <1>8
  <2>3. n \in Nat
    <3> HIDE DEF r
    <3>1. c \in Seq(Octet)
      BY <2>2, RecordIs
    <3>2. QED
      BY <3>1
  <2> HIDE DEF a, b, r
  <2>4. decode_answer(m, a, Len(m)) = [next |-> n, atype |-> r.atype, aclass |-> C_IN, rdata |-> r.rdata]
    <3>1. a + n <= Len(m)
      BY <2>2
    <3>2. QED
      BY <1>1, <1>3, <1>4, <2>1, <2>2, <3>1, AnswerIs
  <2> HIDE DEF n
  <2>5. b - a = n /\ b - a >= 0 /\ a + (b - a) = b
    BY <2>1, <2>2, <2>3
  <2>6. /\ b - a >= 0 /\ a + (b - a) = b
        /\ decode_answer(m, a, Len(m)) = [next |-> b - a, atype |-> r.atype, aclass |-> C_IN, rdata |-> r.rdata]
    BY <2>4, <2>5
  <2>7. QED
    BY <2>6 DEF a, b, r
<1>10. RecordsAt(m, rs, from, cut)
  BY <1>6, <1>7, <1>9 DEF RecordsAt, N
<1>11. WholeReply(m, rs)
  BY <1>3, <1>10 DEF WholeReply, h, from
<1>12. QED
  BY <1>11 DEF m

-----------------------------------------------------------------------------
(* What is reported of an answer                                           *)

\* A turn of addr_list, and where it stands after n of them.
AddrTurn(m, type, before) ==
  LET a == decode_answer(m, before.offset, Len(m))
  IN  IF Len(before.addrs) >= MaxAddrs \/ a.next < 0 THEN before
      ELSE [offset |-> before.offset + a.next,
            addrs  |-> IF a.atype = type /\ a.aclass = C_IN /\ Len(a.rdata) = AddrLen[type]
                         THEN Append(before.addrs, a.rdata) ELSE before.addrs]

AddrTurns(m, type, from, n, f) ==
  f = [i \in 0 .. n |-> IF i = 0 THEN [offset |-> from, addrs |-> <<>>] ELSE AddrTurn(m, type, f[i - 1])]

\* A turn of ns_parserr.
RowTurn(m, before) ==
  LET a == decode_answer(m, before.offset, Len(m))
  IN  [offset |-> before.offset + a.next,
       rrs    |-> Append(before.rrs, [atype |-> a.atype, rdata |-> a.rdata])]

RowTurns(m, from, n, f) ==
  f = [i \in 0 .. n |-> IF i = 0 THEN [offset |-> from, rrs |-> <<>>] ELSE RowTurn(m, f[i - 1])]

\* The turns of the two loops over the records.
LEMMA AddrTurnsExist ==
  ASSUME NEW N \in Nat, NEW m, NEW type, NEW from
  PROVE  \E f : AddrTurns(m, type, from, N, f)
<1> DEFINE G == {n \in Nat : \E f : AddrTurns(m, type, from, n, f)}
           base == [offset |-> from, addrs |-> <<>>]
<1>1. 0 \in G
  <2> DEFINE f == [i \in 0 .. 0 |-> base]
  <2>1. AddrTurns(m, type, from, 0, f)
    <3>1. \A i \in 0 .. 0 : i = 0
      OBVIOUS
    <3>2. f = [i \in 0 .. 0 |-> IF i = 0 THEN base ELSE AddrTurn(m, type, f[i - 1])]
      BY <3>1, Zenon
    <3> HIDE DEF f
    <3>3. QED
      BY <3>2, Zenon DEF AddrTurns
  <2> HIDE DEF f
  <2>2. QED
    BY <2>1
<1>2. ASSUME NEW n \in 1 .. N, n - 1 \in G
      PROVE  n \in G
  <2>1. PICK g : AddrTurns(m, type, from, n - 1, g)
    BY <1>2
  <2> DEFINE f == [i \in 0 .. n |-> IF i = 0 THEN base ELSE AddrTurn(m, type, g[i - 1])]
  <2>2. \A i \in 0 .. n - 1 : f[i] = g[i]
    <3>1. \A i \in 0 .. n - 1 : g[i] = IF i = 0 THEN base ELSE AddrTurn(m, type, g[i - 1])
      BY <2>1, Zenon DEF AddrTurns
    <3>2. \A i \in 0 .. n - 1 : i \in 0 .. n
      OBVIOUS
    <3>3. QED
      BY <3>1, <3>2, Zenon
  <2> HIDE DEF f
  <2>3. \A i \in 0 .. n : i = 0 \/ g[i - 1] = f[i - 1]
    <3>1. \A i \in 0 .. n : i = 0 \/ i - 1 \in 0 .. n - 1
      OBVIOUS
    <3>2. QED
      BY <2>2, <3>1, Zenon
  <2>4. f = [i \in 0 .. n |-> IF i = 0 THEN base ELSE AddrTurn(m, type, g[i - 1])]
    BY DEF f
  <2>5. f = [i \in 0 .. n |-> IF i = 0 THEN base ELSE AddrTurn(m, type, f[i - 1])]
    BY <2>3, <2>4, Zenon
  <2>6. AddrTurns(m, type, from, n, f)
    BY <2>5, Zenon DEF AddrTurns
  <2>7. n \in Nat
    OBVIOUS
  <2>8. QED
    BY <2>6, <2>7
<1> HIDE DEF G
<1>3. \A n \in 0 .. N : n \in G
  BY <1>1, <1>2, UpTo
<1>4. QED
  BY <1>3 DEF G

\* The turns of the loop of libc exist, too.
LEMMA RowTurnsExist ==
  ASSUME NEW N \in Nat, NEW m, NEW from
  PROVE  \E f : RowTurns(m, from, N, f)
<1> DEFINE G == {n \in Nat : \E f : RowTurns(m, from, n, f)}
           base == [offset |-> from, rrs |-> <<>>]
<1>1. 0 \in G
  <2> DEFINE f == [i \in 0 .. 0 |-> base]
  <2>1. RowTurns(m, from, 0, f)
    <3>1. \A i \in 0 .. 0 : i = 0
      OBVIOUS
    <3>2. f = [i \in 0 .. 0 |-> IF i = 0 THEN base ELSE RowTurn(m, f[i - 1])]
      BY <3>1, Zenon
    <3> HIDE DEF f
    <3>3. QED
      BY <3>2, Zenon DEF RowTurns
  <2> HIDE DEF f
  <2>2. QED
    BY <2>1
<1>2. ASSUME NEW n \in 1 .. N, n - 1 \in G
      PROVE  n \in G
  <2>1. PICK g : RowTurns(m, from, n - 1, g)
    BY <1>2
  <2> DEFINE f == [i \in 0 .. n |-> IF i = 0 THEN base ELSE RowTurn(m, g[i - 1])]
  <2>2. \A i \in 0 .. n - 1 : f[i] = g[i]
    <3>1. \A i \in 0 .. n - 1 : g[i] = IF i = 0 THEN base ELSE RowTurn(m, g[i - 1])
      BY <2>1, Zenon DEF RowTurns
    <3>2. \A i \in 0 .. n - 1 : i \in 0 .. n
      OBVIOUS
    <3>3. QED
      BY <3>1, <3>2, Zenon
  <2> HIDE DEF f
  <2>3. \A i \in 0 .. n : i = 0 \/ g[i - 1] = f[i - 1]
    <3>1. \A i \in 0 .. n : i = 0 \/ i - 1 \in 0 .. n - 1
      OBVIOUS
    <3>2. QED
      BY <2>2, <3>1, Zenon
  <2>4. f = [i \in 0 .. n |-> IF i = 0 THEN base ELSE RowTurn(m, g[i - 1])]
    BY DEF f
  <2>5. f = [i \in 0 .. n |-> IF i = 0 THEN base ELSE RowTurn(m, f[i - 1])]
    BY <2>3, <2>4, Zenon
  <2>6. RowTurns(m, from, n, f)
    BY <2>5, Zenon DEF RowTurns
  <2>7. n \in Nat
    OBVIOUS
  <2>8. QED
    BY <2>6, <2>7
<1> HIDE DEF G
<1>3. \A n \in 0 .. N : n \in G
  BY <1>1, <1>2, UpTo
<1>4. QED
  BY <1>3 DEF G

\* addr_list is where its loop stands at the end.
LEMMA AddrListIs ==
  ASSUME NEW m, NEW rs, WholeReply(m, rs), Len(rs) \in Nat, NEW type
  PROVE  \E f : \E from : /\ AddrTurns(m, type, from, Len(rs), f) /\ addr_list(m, type) = f[Len(rs)].addrs
                          /\ \E cut : RecordsAt(m, rs, from, cut)
<1> DEFINE n == decode_header(m).ancount
           from == HFIXEDSZ + decode_dotted(m, HFIXEDSZ, Len(m), NameMax)[1] + 4
           from0 == IF decode_header(m).qdcount > 0
                      THEN HFIXEDSZ + decode_dotted(m, HFIXEDSZ, Len(m), NameMax)[1] + 4 ELSE HFIXEDSZ
           f == CHOOSE g : AddrTurns(m, type, from0, n, g)
<1>1. decode_header(m).qdcount = 1 /\ n = Len(rs) /\ \E cut : RecordsAt(m, rs, from, cut)
  BY DEF WholeReply
<1>2. from0 = from
  BY <1>1
<1>3. addr_list(m, type) = f[n].addrs
  BY DEF addr_list, AddrTurns, AddrTurn
<1> HIDE DEF n, from0
<1>4. AddrTurns(m, type, from0, n, f)
  BY <1>1, AddrTurnsExist
<1> HIDE DEF f, from
<1>5. QED
  BY <1>1, <1>2, <1>3, <1>4

\* What libc finds are the rows after the last turn.
LEMMA RowsAre ==
  ASSUME NEW m, NEW rs, WholeReply(m, rs), Len(rs) \in Nat
  PROVE  \E f : \E from : /\ RowTurns(m, from, Len(rs), f) /\ ns_parserr(m) = f[Len(rs)].rrs
                          /\ \E cut : RecordsAt(m, rs, from, cut)
<1> DEFINE n == decode_header(m).ancount
           from == HFIXEDSZ + decode_dotted(m, HFIXEDSZ, Len(m), NameMax)[1] + 4
           f == CHOOSE g : RowTurns(m, from, n, g)
<1>1. n = Len(rs) /\ \E cut : RecordsAt(m, rs, from, cut)
  BY DEF WholeReply
<1>2. ns_parserr(m) = f[n].rrs
  BY DEF ns_parserr, RowTurns, RowTurn
<1> HIDE DEF n, from
<1>3. RowTurns(m, from, n, f)
  BY <1>1, RowTurnsExist
<1> HIDE DEF f
<1>4. QED
  BY <1>1, <1>2, <1>3

Row == [atype : Word, rdata : Seq(Octet)]

\* libc finds every record of a whole reply.
LEMMA RowsRead ==
  ASSUME NEW m, NEW rs, WholeReply(m, rs), rs \in Contents \cup {<<>>}
  PROVE  LET rows == ns_parserr(m)
         IN  /\ rows \in Seq(Row) /\ Len(rows) = Len(rs)
             /\ \A i \in 1 .. Len(rs) : rows[i].atype = rs[i].atype /\ rows[i].rdata = rs[i].rdata
<1> DEFINE N == Len(rs)
<1>1. N \in Nat /\ \A i \in 1 .. N : RecordType(rs[i])
  BY ContentsType
<1>2. PICK f, from : /\ RowTurns(m, from, N, f) /\ ns_parserr(m) = f[N].rrs
                     /\ \E cut : RecordsAt(m, rs, from, cut)
  BY <1>1, RowsAre
<1>3. PICK cut : RecordsAt(m, rs, from, cut)
  BY <1>2
<1> HIDE DEF N
<1> DEFINE Right(i) == /\ f[i].offset = cut[i] /\ f[i].rrs \in Seq(Row) /\ Len(f[i].rrs) = i
                       /\ \A j \in 1 .. i : f[i].rrs[j].atype = rs[j].atype /\ f[i].rrs[j].rdata = rs[j].rdata
           G == {i \in 0 .. N : Right(i)}
<1>4. \A i \in 0 .. N : f[i] = IF i = 0 THEN [offset |-> from, rrs |-> <<>>] ELSE RowTurn(m, f[i - 1])
  BY <1>2, Zenon DEF RowTurns
<1>5. /\ cut \in [0 .. N -> Nat] /\ cut[0] = from
      /\ \A i \in 1 .. N :
           /\ cut[i] - cut[i - 1] >= 0 /\ cut[i - 1] + (cut[i] - cut[i - 1]) = cut[i]
           /\ decode_answer(m, cut[i - 1], Len(m)) =
                [next |-> cut[i] - cut[i - 1], atype |-> rs[i].atype, aclass |-> C_IN, rdata |-> rs[i].rdata]
  BY <1>3 DEF RecordsAt, N
<1>6. 0 \in G
  <2>1. 0 \in 0 .. N
    BY <1>1
  <2>2. f[0] = [offset |-> from, rrs |-> <<>>]
    BY <1>4, <2>1
  <2>3. QED
    <3>1. f[0].offset = from /\ f[0].rrs = <<>>
      BY <2>2
    <3>2. <<>> \in Seq(Row) /\ Len(<<>>) = 0
      OBVIOUS
    <3>3. Right(0)
      BY <1>5, <3>1, <3>2
    <3>4. QED
      BY <2>1, <3>3
<1>7. ASSUME NEW i \in 1 .. N, i - 1 \in G
      PROVE  i \in G
  <2> DEFINE before == f[i - 1]
             step == cut[i] - cut[i - 1]
             row == [atype |-> rs[i].atype, rdata |-> rs[i].rdata]
             old == before.rrs
             new == Append(old, row)
  <2>1. i \in 0 .. N /\ i # 0 /\ i \in Nat
    BY <1>1
  <2>2. f[i] = RowTurn(m, before)
    BY <1>4, <2>1
  <2>3. /\ before.offset = cut[i - 1] /\ old \in Seq(Row) /\ Len(old) = i - 1
        /\ \A j \in 1 .. i - 1 : old[j].atype = rs[j].atype /\ old[j].rdata = rs[j].rdata
    BY <1>7
  <2>4. cut[i - 1] + step = cut[i]
        /\ decode_answer(m, cut[i - 1], Len(m)) =
             [next |-> step, atype |-> rs[i].atype, aclass |-> C_IN, rdata |-> rs[i].rdata]
    BY <1>5
  <2>5. row \in Row /\ row.atype = rs[i].atype /\ row.rdata = rs[i].rdata
    BY <1>1 DEF RecordType, Row
  <2> HIDE DEF before, step
  <2>6. f[i] = [offset |-> cut[i], rrs |-> new]
    <3> DEFINE a == decode_answer(m, before.offset, Len(m))
    <3>1. RowTurn(m, before) = [offset |-> before.offset + a.next,
                                rrs |-> Append(before.rrs, [atype |-> a.atype, rdata |-> a.rdata])]
      BY DEF RowTurn
    <3>2. a = [next |-> step, atype |-> rs[i].atype, aclass |-> C_IN, rdata |-> rs[i].rdata]
      BY <2>3, <2>4
    <3> HIDE DEF a
    <3>3. a.next = step /\ a.atype = rs[i].atype /\ a.rdata = rs[i].rdata
      BY <3>2
    <3>4. QED
      BY <2>2, <2>3, <2>4, <3>1, <3>3
  <2> HIDE DEF row, old
  <2>7. new \in Seq(Row) /\ Len(new) = i /\ new[i] = row /\ \A j \in 1 .. i - 1 : new[j] = old[j]
    BY <2>1, <2>3, <2>5
  <2> HIDE DEF new
  <2>8. f[i].offset = cut[i] /\ f[i].rrs = new
    BY <2>6
  <2>9. \A j \in 1 .. i : new[j].atype = rs[j].atype /\ new[j].rdata = rs[j].rdata
    <3>1. \A j \in 1 .. i : j = i \/ j \in 1 .. i - 1
      BY <2>1
    <3>2. QED
      BY <2>3, <2>5, <2>7, <3>1
  <2>10. Right(i)
    BY <2>7, <2>8, <2>9
  <2>11. QED
    BY <2>1, <2>10
<1> HIDE DEF G
<1>8. \A i \in 0 .. N : i \in G
  BY <1>1, <1>6, <1>7, UpTo
<1>9. Right(N)
  BY <1>1, <1>8 DEF G
<1>10. QED
  BY <1>2, <1>9 DEF N

\* The records of the other types.
Others(rs, type) == {r \in ToSet(rs) : r.atype # type \/ Len(r.rdata) # AddrLen[type]}

\* The address list has the first addresses of a whole reply.
LEMMA AddrsRead ==
  ASSUME NEW m, NEW rs, WholeReply(m, rs), rs \in Contents \cup {<<>>}, NEW type
  PROVE  LET addrs == addr_list(m, type)
             right == Dropping(rs, Others(rs, type))
         IN  /\ addrs \in Seq(Seq(Octet)) /\ right \in Seq(Row)
             /\ Len(addrs) = IF Len(right) < MaxAddrs THEN Len(right) ELSE MaxAddrs
             /\ \A i \in 1 .. Len(addrs) : addrs[i] = right[i].rdata
<1> DEFINE N == Len(rs)
           S == Others(rs, type)
           K(i) == Dropping(SubSeq(rs, 1, i), S)
<1>1. N \in Nat /\ rs \in Seq(Row) /\ \A i \in 1 .. N : RecordType(rs[i])
  BY ContentsType DEF Row
<1>2. PICK f, from : /\ AddrTurns(m, type, from, N, f) /\ addr_list(m, type) = f[N].addrs
                     /\ \E cut : RecordsAt(m, rs, from, cut)
  BY <1>1, AddrListIs
<1>3. PICK cut : RecordsAt(m, rs, from, cut)
  BY <1>2
<1>4. MaxAddrs \in Nat \ {0}
  BY MessageAssumption
<1>5. \A i \in 1 .. N : rs[i] \in S <=> rs[i].atype # type \/ Len(rs[i].rdata) # AddrLen[type]
  <2>1. \A i \in 1 .. N : rs[i] \in ToSet(rs)
    BY <1>1 DEF ToSet
  <2>2. QED
    BY <2>1 DEF Others
<1>6. SubSeq(rs, 1, N) = rs /\ K(0) = <<>>
  <2>1. SubSeq(rs, 1, N) = rs /\ SubSeq(rs, 1, 0) = <<>>
    BY <1>1
  <2>2. QED
    BY <2>1, DroppingEmpty
<1> HIDE DEF N, S
<1>7. \A i \in 0 .. N : K(i) \in Seq(Row)
  <2>1. ASSUME NEW i \in 0 .. N
        PROVE  K(i) \in Seq(Row)
    <3> DEFINE s == SubSeq(rs, 1, i)
    <3>1. s \in Seq(Row)
      BY <1>1 DEF N
    <3> HIDE DEF s
    <3>2. Dropping(s, S) \in Seq(Row)
      BY <3>1, DroppingPicks
    <3>3. QED
      BY <3>2 DEF s
  <2>2. QED
    BY <2>1
<1>8. \A i \in 1 .. N : K(i) = IF rs[i] \in S THEN K(i - 1) ELSE Append(K(i - 1), rs[i])
  <2>1. ASSUME NEW i \in 1 .. N
        PROVE  K(i) = IF rs[i] \in S THEN K(i - 1) ELSE Append(K(i - 1), rs[i])
    <3> DEFINE s == SubSeq(rs, 1, i - 1)
               e == rs[i]
    <3>1. s \in Seq(Row) /\ e \in Row /\ SubSeq(rs, 1, i) = Append(s, e)
      BY <1>1 DEF N
    <3> HIDE DEF s, e
    <3>2. Dropping(Append(s, e), S) = IF e \in S THEN Dropping(s, S) ELSE Append(Dropping(s, S), e)
      BY <3>1, DroppingAppend
    <3>3. QED
      BY <3>1, <3>2 DEF s, e
  <2>2. QED
    BY <2>1
<1>9. \A i \in 0 .. N : f[i] = IF i = 0 THEN [offset |-> from, addrs |-> <<>>] ELSE AddrTurn(m, type, f[i - 1])
  BY <1>2, Zenon DEF AddrTurns
<1>10. /\ cut \in [0 .. N -> Nat] /\ cut[0] = from
       /\ \A i \in 1 .. N :
            /\ cut[i] - cut[i - 1] >= 0 /\ cut[i - 1] + (cut[i] - cut[i - 1]) = cut[i]
            /\ decode_answer(m, cut[i - 1], Len(m)) =
                 [next |-> cut[i] - cut[i - 1], atype |-> rs[i].atype, aclass |-> C_IN, rdata |-> rs[i].rdata]
  BY <1>3 DEF RecordsAt, N
<1> HIDE DEF K
<1> DEFINE Right(i) == LET g == f[i].addrs
                       IN  /\ g \in Seq(Seq(Octet)) /\ Len(g) = IF Len(K(i)) < MaxAddrs THEN Len(K(i)) ELSE MaxAddrs
                           /\ Len(g) < MaxAddrs => f[i].offset = cut[i]
                           /\ \A j \in 1 .. Len(g) : g[j] = K(i)[j].rdata
           G == {i \in 0 .. N : Right(i)}
<1>11. 0 \in G
  <2>1. 0 \in 0 .. N
    BY <1>1
  <2>2. f[0] = [offset |-> from, addrs |-> <<>>]
    BY <1>9, <2>1
  <2>3. f[0].offset = from /\ f[0].addrs = <<>> /\ Len(<<>>) = 0 /\ <<>> \in Seq(Seq(Octet))
    BY <2>2
  <2>4. QED
    <3> DEFINE g == f[0].addrs
    <3>1. g \in Seq(Seq(Octet)) /\ Len(g) = 0 /\ g = K(0)
      BY <1>6, <2>3
    <3>2. f[0].offset = cut[0]
      BY <1>10, <2>3
    <3> HIDE DEF g
    <3>3. /\ Len(g) = IF Len(K(0)) < MaxAddrs THEN Len(K(0)) ELSE MaxAddrs
          /\ \A j \in 1 .. Len(g) : g[j] = K(0)[j].rdata
      BY <1>4, <3>1
    <3>4. Right(0)
      BY <3>1, <3>2, <3>3 DEF g
    <3>5. QED
      BY <2>1, <3>4
<1>12. ASSUME NEW i \in 1 .. N, i - 1 \in G
       PROVE  i \in G
  <2> DEFINE before == f[i - 1]
             step == cut[i] - cut[i - 1]
             data == rs[i].rdata
             atype == rs[i].atype
             old == before.addrs
             kept == K(i - 1)
             now == K(i)
             r == rs[i]
  <2>1. i \in 0 .. N /\ i # 0 /\ i - 1 \in 0 .. N
    BY <1>1
  <2>2. f[i] = AddrTurn(m, type, before)
    BY <1>9, <2>1
  <2>3. /\ old \in Seq(Seq(Octet)) /\ Len(old) = IF Len(kept) < MaxAddrs THEN Len(kept) ELSE MaxAddrs
        /\ Len(old) < MaxAddrs => before.offset = cut[i - 1]
        /\ \A j \in 1 .. Len(old) : old[j] = kept[j].rdata
    BY <1>12
  <2>4. kept \in Seq(Row) /\ now \in Seq(Row) /\ now = (IF r \in S THEN kept ELSE Append(kept, r))
        /\ r \in Row /\ data = r.rdata /\ (r \in S <=> atype # type \/ Len(data) # AddrLen[type])
    <3>1. kept \in Seq(Row) /\ now \in Seq(Row)
      BY <1>7, <2>1
    <3>2. now = IF r \in S THEN kept ELSE Append(kept, r)
      BY <1>8
    <3>3. r \in Row
      BY <1>1 DEF N
    <3>4. r \in S <=> atype # type \/ Len(data) # AddrLen[type]
      BY <1>5
    <3> HIDE DEF kept, now
    <3>5. QED
      BY <3>1, <3>2, <3>3, <3>4
  <2>5. step >= 0 /\ cut[i - 1] + step = cut[i]
        /\ decode_answer(m, cut[i - 1], Len(m)) = [next |-> step, atype |-> atype, aclass |-> C_IN, rdata |-> data]
        /\ step \in Int
    <3>1. cut[i] \in Nat /\ cut[i - 1] \in Nat
      BY <1>10, <2>1
    <3>2. QED
      BY <1>10, <3>1
  <2>6. data \in Seq(Octet)
    BY <1>1 DEF RecordType
  <2> DEFINE a == decode_answer(m, before.offset, Len(m))
             match == a.atype = type /\ a.aclass = C_IN /\ Len(a.rdata) = AddrLen[type]
  <2>7. AddrTurn(m, type, before) =
          IF Len(old) >= MaxAddrs \/ a.next < 0 THEN before
          ELSE [offset |-> before.offset + a.next,
                addrs  |-> IF match THEN Append(old, a.rdata) ELSE old]
    BY DEF AddrTurn
  <2> DEFINE K1 == Len(kept)
             L == Len(old)
  <2>8. K1 \in Nat /\ L \in Nat /\ L = (IF K1 < MaxAddrs THEN K1 ELSE MaxAddrs) /\ L <= K1
        /\ (\A j \in 1 .. K1 : now[j] = kept[j]) /\ Len(now) = (IF r \in S THEN K1 ELSE K1 + 1)
        /\ (r \notin S => now[K1 + 1] = r)
    <3>1. K1 \in Nat /\ L \in Nat
      <4>1. kept \in Seq(Row) /\ old \in Seq(Seq(Octet))
        BY <2>3, <2>4
      <4> HIDE DEF kept, old
      <4>2. QED
        BY ONLY <4>1
    <3>2. L = (IF K1 < MaxAddrs THEN K1 ELSE MaxAddrs)
      BY <2>3
    <3>3. L <= K1
      BY <1>4, <3>1, <3>2
    <3> HIDE DEF kept, now, r, S
    <3>4. (\A j \in 1 .. K1 : now[j] = kept[j]) /\ Len(now) = (IF r \in S THEN K1 ELSE K1 + 1)
          /\ (r \notin S => now[K1 + 1] = r)
      <4>1. kept \in Seq(Row) /\ r \in Row /\ now = IF r \in S THEN kept ELSE Append(kept, r)
        BY <2>4
      <4>2. QED
        BY ONLY <4>1
    <3>5. QED
      BY <3>1, <3>2, <3>3, <3>4
  <2> HIDE DEF before, step, data, atype, old, kept, now, r, K1, L
  <2>9. CASE L >= MaxAddrs
    <3>1. f[i] = before
      BY <2>2, <2>7, <2>9 DEF L
    <3>2. L = MaxAddrs /\ MaxAddrs <= Len(now) /\ Len(now) \in Nat
      BY <1>4, <2>8, <2>9
    <3>3. \A j \in 1 .. L : old[j] = now[j].rdata
      <4>1. \A j \in 1 .. L : j \in 1 .. K1
        BY <2>8
      <4>2. QED
        BY <2>3, <2>8, <4>1 DEF L
    <3>4. f[i].addrs = old
      BY <3>1 DEF old
    <3>5. Right(i)
      <4>1. L = IF Len(now) < MaxAddrs THEN Len(now) ELSE MaxAddrs
        BY <1>4, <3>2
      <4>2. ~(L < MaxAddrs)
        BY <1>4, <3>2
      <4>3. QED
        BY <2>3, <3>3, <3>4, <4>1, <4>2 DEF L, now
    <3>6. QED
      BY <2>1, <3>5
  <2>10. CASE L < MaxAddrs
    <3>1. before.offset = cut[i - 1]
      BY <2>3, <2>10 DEF L
    <3>2. a = [next |-> step, atype |-> atype, aclass |-> C_IN, rdata |-> data]
      BY <2>5, <3>1
    <3>3. a.next = step /\ a.atype = atype /\ a.aclass = C_IN /\ a.rdata = data
      <4> HIDE DEF a
      <4>1. QED
        BY <3>2
    <3>4. match <=> r \notin S
      <4> HIDE DEF a
      <4>1. QED
        BY <2>4, <3>3
    <3>5. ~(L >= MaxAddrs) /\ ~(a.next < 0) /\ before.offset + a.next = cut[i]
      <4>1. ~(L >= MaxAddrs)
        BY <1>4, <2>8, <2>10
      <4>2. QED
        BY <2>5, <3>1, <3>3, <4>1
    <3> DEFINE new == IF r \notin S THEN Append(old, data) ELSE old
    <3>6. f[i] = [offset |-> cut[i], addrs |-> new]
      <4> HIDE DEF a, match
      <4>1. AddrTurn(m, type, before) = [offset |-> before.offset + a.next,
                                         addrs  |-> IF match THEN Append(old, a.rdata) ELSE old]
        BY <2>7, <3>5 DEF L
      <4>2. QED
        BY <2>2, <3>3, <3>4, <3>5, <4>1
    <3>7. f[i].offset = cut[i] /\ f[i].addrs = new
      <4> HIDE DEF new
      <4>1. QED
        BY <3>6
    <3>8. K1 = L
      BY <1>4, <2>8, <2>10
    <3>9. new \in Seq(Seq(Octet)) /\ Len(new) = (IF r \in S THEN L ELSE L + 1)
          /\ (\A j \in 1 .. L : new[j] = old[j]) /\ (r \notin S => new[L + 1] = data)
      <4> DEFINE T == Seq(Octet)
      <4>1. old \in Seq(T) /\ data \in T /\ Len(old) = L /\ L \in Nat
        BY <2>3, <2>6, <2>8 DEF L
      <4> HIDE DEF T
      <4>2. /\ Append(old, data) \in Seq(T) /\ Len(Append(old, data)) = L + 1
            /\ (\A j \in 1 .. L : Append(old, data)[j] = old[j]) /\ Append(old, data)[L + 1] = data
        BY ONLY <4>1
      <4>3. QED
        BY <4>1, <4>2 DEF T
    <3>10. Len(new) = (IF Len(now) < MaxAddrs THEN Len(now) ELSE MaxAddrs) /\ Len(new) = Len(now)
      <4> HIDE DEF new
      <4>1. Len(new) = Len(now) /\ Len(now) \in Nat
        BY <2>8, <3>8, <3>9
      <4>2. Len(now) <= MaxAddrs
        BY <1>4, <2>8, <2>10, <3>8
      <4>3. QED
        BY <1>4, <4>1, <4>2
    <3> HIDE DEF new
    <3>11. \A j \in 1 .. Len(new) : new[j] = now[j].rdata
      <4>1. \A j \in 1 .. L : new[j] = now[j].rdata
        <5>1. \A j \in 1 .. L : old[j] = kept[j].rdata
          BY <2>3 DEF L
        <5>2. QED
          BY <2>8, <3>8, <3>9, <5>1
      <4>2. r \notin S => new[L + 1] = now[L + 1].rdata
        <5>1. r \notin S => new[L + 1] = data /\ now[L + 1] = r /\ data = r.rdata
          BY <2>4, <2>8, <3>8, <3>9
        <5>2. QED
          BY <5>1
      <4>3. \A j \in 1 .. Len(new) : j \in 1 .. L \/ (r \notin S /\ j = L + 1)
        BY <2>8, <3>9
      <4>4. QED
        BY <4>1, <4>2, <4>3
    <3>12. Right(i)
      BY <3>7, <3>9, <3>10, <3>11 DEF now
    <3>13. QED
      BY <2>1, <3>12
  <2>11. QED
    BY <1>4, <2>8, <2>9, <2>10
<1> HIDE DEF G
<1>13. \A i \in 0 .. N : i \in G
  BY <1>1, <1>11, <1>12, UpTo
<1>14. N \in 0 .. N
  BY <1>1
<1>15. Right(N)
  BY <1>13, <1>14 DEF G
<1>16. K(N) = Dropping(rs, Others(rs, type)) /\ K(N) \in Seq(Row)
  BY <1>6, <1>7, <1>14 DEF K, S
<1> DEFINE k == K(N)
           addrs == addr_list(m, type)
<1>17. /\ addrs \in Seq(Seq(Octet)) /\ Len(addrs) = IF Len(k) < MaxAddrs THEN Len(k) ELSE MaxAddrs
       /\ \A i \in 1 .. Len(addrs) : addrs[i] = k[i].rdata
  BY <1>2, <1>15
<1>18. k = Dropping(rs, Others(rs, type)) /\ k \in Seq(Row)
  BY <1>16
<1> HIDE DEF k, addrs
<1>19. QED
  BY <1>17, <1>18, Zenon DEF addrs

\* The records of which something is printed are some of the records.
LEMMA ShownRows ==
  ASSUME NEW rs \in Seq(Row)
  PROVE  Shown(rs) \in Seq(Row)
<1> DEFINE bad == {i \in DOMAIN rs : Unexpected(rs[i])}
           all == bad \cup {Len(rs) + 1}
           end == Min(all)
           read == SubSeq(rs, 1, end - 1)
           out == {r \in ToSet(read) : Silent(r)}
<1>1. Len(rs) \in Nat /\ DOMAIN rs = 1 .. Len(rs)
  OBVIOUS
<1>2. all \subseteq Nat /\ all # {} /\ all \subseteq Int /\ \A i \in all : i \in 1 .. Len(rs) + 1
  BY <1>1
<1> HIDE DEF all
<1>3. PICK x \in all : \A y \in all : x <= y
  BY <1>2, LeastElement
<1>4. end = x
  BY <1>2, <1>3, MinIs
<1>5. end \in 1 .. Len(rs) + 1
  BY <1>2, <1>4
<1> HIDE DEF end
<1>6. read \in Seq(Row)
  BY <1>1, <1>5
<1> HIDE DEF read, out
<1>7. Dropping(read, out) \in Seq(Row)
  BY <1>6, DroppingPicks
<1>8. QED
  BY <1>7 DEF Shown, all, end, read, out

\* parse_reply has a row for each of them, and its labels are right up to the first with
\* a name.
LEMMA ReplyParsed ==
  ASSUME NEW m, NEW rs, WholeReply(m, rs), rs \in Contents \cup {<<>>}
  PROVE  LET told  == parse_reply(m)
             shown == Shown(rs)
         IN  /\ Len(told) = Len(shown) /\ DOMAIN shown = 1 .. Len(shown)
             /\ \A i \in 1 .. Len(shown) :
                  /\ told[i][2] = shown[i].rdata
                  /\ \/ told[i][1] = shown[i].atype
                     \/ \E j \in 1 .. i - 1 : shown[j].atype \in Named
<1> DEFINE rrs == Shown(rs)
           at == {i \in 1 .. Len(rrs) : rrs[i].atype \in Named}
           first == IF at # {} THEN Min(at) ELSE 0
           told == [i \in DOMAIN rrs |->
                      <<IF rrs[i].atype \in Named THEN rrs[first].atype ELSE rrs[i].atype, rrs[i].rdata>>]
           N == Len(rrs)
<1>1. ns_parserr(m) = rs /\ rs \in Seq(Row)
  <2> DEFINE rows == ns_parserr(m)
             n == Len(rs)
  <2>1. /\ rows \in Seq(Row) /\ Len(rows) = n
        /\ \A i \in 1 .. n : rows[i].atype = rs[i].atype /\ rows[i].rdata = rs[i].rdata
    BY RowsRead
  <2>2. rs \in Seq(Row) /\ n \in Nat
    BY ContentsType DEF Row
  <2> HIDE DEF rows
  <2>3. \A i \in 1 .. n : rows[i] \in Row /\ rs[i] \in Row
    BY <2>1, <2>2
  <2>4. \A r, s \in Row : r.atype = s.atype /\ r.rdata = s.rdata => r = s
    BY DEF Row
  <2>5. \A i \in 1 .. n : rows[i] = rs[i]
    BY <2>1, <2>3, <2>4
  <2> HIDE DEF n
  <2>6. Len(rows) = n /\ Len(rs) = n
    BY <2>1 DEF n
  <2>7. rows = rs
    BY ONLY <2>1, <2>2, <2>5, <2>6
  <2>8. QED
    BY <2>2, <2>7 DEF rows
<1>2. parse_reply(m) = told
  BY <1>1 DEF parse_reply, SelectInSeq
<1>3. rrs \in Seq(Row)
  BY <1>1, ShownRows
<1> HIDE DEF rrs
<1>31. N \in Nat /\ \A i \in 1 .. N : rrs[i] \in Row
  BY <1>3
<1>4. DOMAIN rrs = 1 .. N /\ N = Len(rrs)
  BY <1>3 DEF N
<1> HIDE DEF N
<1>5. \A i \in 1 .. N : rrs[i].atype \in Named => first \in 1 .. N /\ first <= i /\ rrs[first].atype \in Named
  <2>1. SUFFICES ASSUME NEW i \in 1 .. N, rrs[i].atype \in Named
                 PROVE  first \in 1 .. N /\ first <= i /\ rrs[first].atype \in Named
    OBVIOUS
  <2>2. i \in at /\ at \subseteq 1 .. N /\ \A j \in at : rrs[j].atype \in Named
    BY <1>4, <2>1
  <2> HIDE DEF at
  <2>3. at # {} /\ at \subseteq Nat /\ at \subseteq Int
    BY <1>31, <2>2
  <2>4. PICK x \in at : \A y \in at : x <= y
    BY <2>3, LeastElement
  <2>5. Min(at) = x
    BY <2>3, <2>4, MinIs
  <2>6. QED
    BY <2>2, <2>3, <2>4, <2>5
<1> HIDE DEF first, at
<1>6. Len(told) = N
  <2>1. told = [i \in 1 .. N |->
                  <<IF rrs[i].atype \in Named THEN rrs[first].atype ELSE rrs[i].atype, rrs[i].rdata>>]
    BY <1>4
  <2>2. QED
    BY <1>31, <2>1
<1>7. ASSUME NEW i \in 1 .. N
      PROVE  /\ told[i][2] = rrs[i].rdata
             /\ \/ told[i][1] = rrs[i].atype
                \/ \E j \in 1 .. i - 1 : rrs[j].atype \in Named
  <2> DEFINE label == IF rrs[i].atype \in Named THEN rrs[first].atype ELSE rrs[i].atype
             data == rrs[i].rdata
  <2>1. told[i] = <<label, data>>
    BY <1>4
  <2>2. data = rrs[i].rdata /\ rrs[i].atype = rrs[i].atype
    BY <1>1
  <2> HIDE DEF told, data
  <2>3. label = rrs[i].atype \/ \E j \in 1 .. i - 1 : rrs[j].atype \in Named
    <3>1. CASE rrs[i].atype \notin Named
      BY <2>2, <3>1
    <3>2. CASE rrs[i].atype \in Named
      <4>1. first \in 1 .. N /\ first <= i /\ rrs[first].atype \in Named
        BY <1>5, <3>2
      <4>2. CASE first = i
        BY <2>2, <3>2, <4>2
      <4>3. CASE first # i
        <5>1. first \in 1 .. i - 1
          BY <1>31, <4>1, <4>3
        <5>2. rrs[first].atype \in Named
          <6>1. rrs[first].atype = rrs[first].atype
            BY <1>1, <4>1
          <6>2. QED
            BY <4>1, <6>1
        <5>3. QED
          BY <5>1, <5>2
      <4>4. QED
        BY <4>2, <4>3
    <3>3. QED
      BY <3>1, <3>2
  <2> HIDE DEF label
  <2>4. told[i][1] = label /\ told[i][2] = data
    BY <2>1
  <2>5. QED
    BY <2>2, <2>3, <2>4
<1> HIDE DEF told
<1>8. QED
  BY <1>2, <1>4, <1>6, <1>7 DEF rrs

\* The list of addresses with or without the damage at its first one; the first of them.
Told(res, addrs) ==
  res = addrs \/ (Len(addrs) = MaxAddrs /\ res = [addrs EXCEPT ![1] = [i \in DOMAIN @ |-> 0]])
FirstOf(res, all) ==
  IF Len(all) < MaxAddrs THEN res = all
  ELSE Len(res) = MaxAddrs /\ Tail(res) = SubSeq(all, 2, MaxAddrs)
AddressesIn(rs, type) ==
  LET right == Dropping(rs, Others(rs, type)) IN [i \in DOMAIN right |-> right[i].rdata]

\* What is told of the addresses of a whole reply.
LEMMA AddrsReported ==
  ASSUME NEW m, NEW rs, WholeReply(m, rs), rs \in Contents \cup {<<>>}, NEW type, NEW res,
         Told(res, addr_list(m, type))
  PROVE  FirstOf(res, AddressesIn(rs, type))
<1> DEFINE addrs == addr_list(m, type)
           right == Dropping(rs, Others(rs, type))
           all == [i \in DOMAIN right |-> right[i].rdata]
           T == Seq(Octet)
           zeros == [addrs EXCEPT ![1] = [i \in DOMAIN @ |-> 0]]
           K == Len(right)
<1>1. /\ addrs \in Seq(T) /\ right \in Seq(Row)
      /\ Len(addrs) = IF K < MaxAddrs THEN K ELSE MaxAddrs
      /\ \A i \in 1 .. Len(addrs) : addrs[i] = right[i].rdata
  BY AddrsRead
<1>2. res = addrs \/ (Len(addrs) = MaxAddrs /\ res = zeros)
  BY DEF Told
<1>3. MaxAddrs \in Nat \ {0}
  BY MessageAssumption
<1>a. AddressesIn(rs, type) = all
  BY DEF AddressesIn
<1> HIDE DEF addrs, right
<1>4. K \in Nat /\ DOMAIN right = 1 .. K
  BY <1>1
<1>5. \A i \in 1 .. K : right[i].rdata \in T
  <2>1. \A i \in 1 .. K : right[i] \in Row
    BY <1>1
  <2>2. \A r \in Row : r.rdata \in T
    BY DEF Row
  <2>3. QED
    BY <2>1, <2>2
<1> HIDE DEF T, K
<1>6. all \in Seq(T) /\ Len(all) = K /\ \A i \in 1 .. K : all[i] = right[i].rdata
  BY <1>4, <1>5
<1> HIDE DEF all
<1>7. \A i \in 1 .. Len(addrs) : addrs[i] = all[i]
  BY <1>1, <1>3, <1>4, <1>6
<1>8. CASE K < MaxAddrs
  <2>1. Len(addrs) = K /\ Len(addrs) # MaxAddrs
    BY <1>1, <1>3, <1>4, <1>8
  <2>2. addrs = all
    <3>1. addrs \in Seq(T) /\ all \in Seq(T) /\ Len(addrs) = Len(all) /\ \A i \in 1 .. Len(addrs) : addrs[i] = all[i]
      BY <1>1, <1>6, <1>7, <2>1
    <3>2. QED
      BY ONLY <3>1
  <2>3. res = all
    BY <1>2, <2>1, <2>2
  <2>4. QED
    BY <1>6, <1>8, <1>a, <2>3 DEF FirstOf
<1>9. CASE ~(K < MaxAddrs)
  <2>1. Len(addrs) = MaxAddrs /\ MaxAddrs <= K
    BY <1>1, <1>3, <1>4, <1>9
  <2>2. \E U : res \in Seq(U) /\ Len(res) = MaxAddrs /\ all \in Seq(U) /\ \A i \in 2 .. MaxAddrs : res[i] = all[i]
    <3>1. CASE res = addrs
      <4>1. \A i \in 2 .. MaxAddrs : i \in 1 .. Len(addrs)
        BY <1>3, <2>1
      <4>2. QED
        BY <1>1, <1>6, <1>7, <2>1, <3>1, <4>1
    <3>2. CASE res = zeros
      <4> DEFINE z == [i \in DOMAIN addrs[1] |-> 0]
                 U == T \cup {z}
      <4>1. zeros = [addrs EXCEPT ![1] = z]
        OBVIOUS
      <4> HIDE DEF z, zeros
      <4>2. addrs \in Seq(U) /\ all \in Seq(U) /\ z \in U
        BY <1>1, <1>6
      <4> HIDE DEF U
      <4>3. zeros \in Seq(U) /\ Len(zeros) = Len(addrs) /\ \A i \in 2 .. MaxAddrs : zeros[i] = addrs[i]
        BY <1>3, <2>1, <4>1, <4>2
      <4>4. \A i \in 2 .. MaxAddrs : addrs[i] = all[i]
        BY <1>3, <1>7, <2>1
      <4>5. QED
        BY <2>1, <3>2, <4>2, <4>3, <4>4
    <3>3. QED
      BY <1>2, <3>1, <3>2
  <2>3. Tail(res) = SubSeq(all, 2, MaxAddrs)
    <3>1. PICK U : res \in Seq(U) /\ Len(res) = MaxAddrs /\ all \in Seq(U) /\ \A i \in 2 .. MaxAddrs : res[i] = all[i]
      BY <2>2
    <3> DEFINE s == Tail(res)
               t == SubSeq(all, 2, MaxAddrs)
    <3>2. s \in Seq(U) /\ Len(s) = MaxAddrs - 1 /\ \A i \in 1 .. MaxAddrs - 1 : s[i] = res[i + 1]
      BY <1>3, <3>1
    <3>3. t \in Seq(U) /\ Len(t) = MaxAddrs - 1 /\ \A i \in 1 .. MaxAddrs - 1 : t[i] = all[i + 1]
      BY <1>3, <1>4, <1>6, <2>1, <3>1
    <3> HIDE DEF s, t
    <3>4. \A i \in 1 .. MaxAddrs - 1 : s[i] = t[i]
      <4>1. \A i \in 1 .. MaxAddrs - 1 : i + 1 \in 2 .. MaxAddrs
        BY <1>3
      <4>2. QED
        BY <3>1, <3>2, <3>3, <4>1
    <3>5. s \in Seq(U) /\ t \in Seq(U) /\ Len(s) = Len(t) /\ \A i \in 1 .. Len(s) : s[i] = t[i]
      BY <3>2, <3>3, <3>4
    <3>6. s = t
      BY ONLY <3>5
    <3>7. QED
      BY <3>6 DEF s, t
  <2>4. Len(res) = MaxAddrs
    BY <2>2
  <2>5. QED
    BY <1>6, <1>9, <1>a, <2>3, <2>4 DEF FirstOf
<1>10. QED
  BY <1>8, <1>9

-----------------------------------------------------------------------------
(* What is asked and what is reported                                       *)

\* The packet, while an answer is awaited.
LEMMA QueryOut ==
  ASSUME IInv, AnswerInv, pc \in {"poll", "body"}
  PROVE  /\ name \in Seq(Octet) /\ \E w, marks : QueryFor(packet, w, marks)
         /\ Call.fn \in {"gethostbyname2", "nslookup"}
<1>1. name \in Seq(Octet)
  BY QueryAssumption DEF AnswerInv
<1> DEFINE C == [fn : {"gethostbyname2", "nslookup"}, type : {T_A, T_AAAA}]
<1>2. calls \in Seq(C) /\ calls # <<>>
  BY DEF AnswerInv, IInv, TypeOK
<1> HIDE DEF C
<1>3. Head(calls) \in C
  BY <1>2
<1>4. Call.type \in Int /\ Call.fn \in {"gethostbyname2", "nslookup"}
  BY <1>3 DEF C, Call, T_A, T_AAAA
<1>5. packet = form_query(Id, name, Call.type, PacketSize) /\ packet # Nothing
  BY DEF AnswerInv, PacketKept
<1> DEFINE type == Call.type
<1>6. \E w, marks : QueryFor(packet, w, marks)
  <2>1. type \in Int /\ packet = form_query(Id, name, type, PacketSize)
    BY <1>4, <1>5
  <2> HIDE DEF type
  <2>2. QED
    BY <1>1, <1>5, <2>1, AskedPacket
<1>7. QED
  BY <1>1, <1>4, <1>6

\* What a header says.
Headed(m, id, tc, rcode) == LET h == decode_header(m) IN h.id = id /\ h.tc = tc /\ h.rcode = rcode

\* The header of an answer is read back.
LEMMA ReplyHeaded ==
  ASSUME packet \in Seq(Octet), HFIXEDSZ <= Len(packet), NEW id \in Word, NEW tc \in 0 .. 1,
         NEW rcode \in 0 .. 15, NEW rs, rs \in Contents \cup {<<>>}
  PROVE  Headed(Reply(id, tc, rcode, rs), id, tc, rcode)
BY ReplyIs, SMTT(60) DEF Headed

\* Of the answers a server may give, the program uses the whole one.
LEMMA UsableAnswer ==
  ASSUME NEW w, NEW marks, QueryFor(packet, w, marks), NEW a \in Answers,
         decode_header(a.m).id = Id, decode_header(a.m).rcode = NOERROR,
         proto = "tcp" \/ decode_header(a.m).tc # 1
  PROVE  a.rs \in Contents /\ a.m = Reply(Id, 0, NOERROR, a.rs)
<1> DEFINE zero == 0
           one == 1
           none == <<>>
<1>1. packet \in Seq(Octet) /\ HFIXEDSZ <= Len(packet)
  BY DEF QueryFor, Coded, HFIXEDSZ
<1>2. zero \in 0 .. 1 /\ one \in 0 .. 1 /\ none \in Contents \cup {<<>>} /\ NOERROR \in 0 .. 15
      /\ SERVFAIL \in 0 .. 15 /\ NXDOMAIN \in 0 .. 15 /\ SERVFAIL # NOERROR /\ NXDOMAIN # NOERROR
      /\ Wrong # Id
  BY DEF NOERROR, SERVFAIL, NXDOMAIN, Id, Wrong
<1>3. Id \in Word /\ Wrong \in Word
  BY WordIs DEF Id, Wrong
<1>4. /\ decode_header(Reply(Id, zero, SERVFAIL, none)).rcode = SERVFAIL
      /\ decode_header(Reply(Id, zero, NXDOMAIN, none)).rcode = NXDOMAIN
      /\ decode_header(Reply(Wrong, zero, NOERROR, none)).id = Wrong
      /\ decode_header(Reply(Id, one, NOERROR, none)).tc = one
  <2> HIDE DEF zero, one, none
  <2>1. \A id \in Word, tc \in 0 .. 1, rcode \in 0 .. 15 : Headed(Reply(id, tc, rcode, none), id, tc, rcode)
    BY <1>1, <1>2, ReplyHeaded
  <2>2. /\ Headed(Reply(Id, zero, SERVFAIL, none), Id, zero, SERVFAIL)
        /\ Headed(Reply(Id, zero, NXDOMAIN, none), Id, zero, NXDOMAIN)
        /\ Headed(Reply(Wrong, zero, NOERROR, none), Wrong, zero, NOERROR)
        /\ Headed(Reply(Id, one, NOERROR, none), Id, one, NOERROR)
    BY <1>2, <1>3, <2>1
  <2>3. QED
    BY <2>2, Zenon DEF Headed
<1>5. \/ a.m = Reply(Id, zero, SERVFAIL, none)
      \/ a.m = Reply(Id, zero, NXDOMAIN, none)
      \/ a.m = Reply(Wrong, zero, NOERROR, none)
      \/ proto = "udp" /\ a.m = Reply(Id, one, NOERROR, none)
      \/ a.rs \in Contents /\ a.m = Reply(Id, zero, NOERROR, a.rs)
  <2>1. \/ a \in {[m |-> Reply(Id, 0, rcode, <<>>), rs |-> <<>>] : rcode \in {SERVFAIL, NXDOMAIN}}
        \/ a = [m |-> Reply(Wrong, 0, NOERROR, <<>>), rs |-> <<>>]
        \/ \E rs \in Contents :
             a = LET whole == Reply(Id, 0, NOERROR, rs)
                 IN  IF proto = "udp" /\ Len(whole) > PacketSize
                       THEN [m |-> Reply(Id, 1, NOERROR, <<>>), rs |-> <<>>]
                       ELSE [m |-> whole, rs |-> rs]
    BY DEF Answers
  <2>2. CASE a \in {[m |-> Reply(Id, 0, rcode, <<>>), rs |-> <<>>] : rcode \in {SERVFAIL, NXDOMAIN}}
    BY <2>2
  <2>3. CASE a = [m |-> Reply(Wrong, 0, NOERROR, <<>>), rs |-> <<>>]
    BY <2>3
  <2>4. ASSUME NEW rs \in Contents,
               a = LET whole == Reply(Id, 0, NOERROR, rs)
                   IN  IF proto = "udp" /\ Len(whole) > PacketSize
                         THEN [m |-> Reply(Id, 1, NOERROR, <<>>), rs |-> <<>>]
                         ELSE [m |-> whole, rs |-> rs]
        PROVE  \/ proto = "udp" /\ a.m = Reply(Id, one, NOERROR, none)
               \/ a.rs \in Contents /\ a.m = Reply(Id, zero, NOERROR, a.rs)
    <3> DEFINE whole == Reply(Id, zero, NOERROR, rs)
    <3>1. \/ proto = "udp" /\ a = [m |-> Reply(Id, one, NOERROR, none), rs |-> none]
          \/ a = [m |-> whole, rs |-> rs]
      BY <2>4
    <3>2. QED
      BY <3>1
  <2>5. QED
    BY <2>1, <2>2, <2>3, <2>4
<1>6. CASE a.m = Reply(Id, zero, SERVFAIL, none)
  BY <1>2, <1>4, <1>6
<1>7. CASE a.m = Reply(Id, zero, NXDOMAIN, none)
  BY <1>2, <1>4, <1>7
<1>8. CASE a.m = Reply(Wrong, zero, NOERROR, none)
  BY <1>2, <1>4, <1>8
<1>9. CASE proto = "udp" /\ a.m = Reply(Id, one, NOERROR, none)
  BY <1>4, <1>9
<1>10. QED
  BY <1>5, <1>6, <1>7, <1>8, <1>9

\* What is returned or printed of it is what the server has.
LEMMA AnsweredReports ==
  ASSUME NEW m, NEW rs, WholeReply(m, rs), rs \in Contents, Answered(m), records' = rs,
         UNCHANGED calls, Call.fn \in {"gethostbyname2", "nslookup"}
  PROVE  Reported'
<1>1. SUFFICES ASSUME result' # None
               PROVE  IF Call.fn = "gethostbyname2"
                        THEN LET all == Addresses(Call.type)'
                             IN  IF Len(all) < MaxAddrs THEN result' = all
                                 ELSE Len(result') = MaxAddrs /\ Tail(result') = SubSeq(all, 2, MaxAddrs)
                        ELSE LET rrs == Shown(rs)
                             IN  /\ Len(result') = Len(rrs)
                                 /\ \A i \in DOMAIN rrs :
                                      /\ result'[i][2] = rrs[i].rdata
                                      /\ \/ result'[i][1] = rrs[i].atype
                                         \/ \E j \in 1 .. i - 1 : rrs[j].atype \in Named
  BY DEF Reported, Call
<1>2. rs \in Contents \cup {<<>>}
  BY ContentsType
<1>3. CASE Call.fn = "nslookup"
  <2>1. result' = parse_reply(m)
    BY <1>3 DEF Answered
  <2> DEFINE rrs == Shown(rs)
  <2>2. /\ Len(result') = Len(rrs) /\ DOMAIN rrs = 1 .. Len(rrs)
        /\ \A i \in 1 .. Len(rrs) :
             /\ result'[i][2] = rrs[i].rdata
             /\ \/ result'[i][1] = rrs[i].atype
                \/ \E j \in 1 .. i - 1 : rrs[j].atype \in Named
    BY <1>2, <2>1, ReplyParsed
  <2> HIDE DEF rrs
  <2>3. QED
    BY <1>3, <2>2 DEF rrs
<1>4. CASE Call.fn = "gethostbyname2"
  <2> DEFINE type == Call.type
             out == result'
  <2>1. Told(out, addr_list(m, type))
    BY <1>1, <1>4 DEF Answered, Told
  <2>2. Addresses(Call.type)' = AddressesIn(rs, type)
    BY DEF Addresses, AddressesIn, Others, Call
  <2> HIDE DEF type, out
  <2>3. FirstOf(out, AddressesIn(rs, type))
    BY <1>2, <2>1, AddrsReported
  <2>4. QED
    BY <1>4, <2>2, <2>3 DEF FirstOf, out
<1>5. QED
  BY <1>3, <1>4

\* The end of a lookup, with what is reported.
LEMMA EndKeepsAnswer ==
  ASSUME AnswerInv, calls # <<>>, pc' = "done", Reported', UNCHANGED <<name, calls>>
  PROVE  AnswerInv'
BY DEF AnswerInv, PacketKept, MessageKept, UnderWay

\* A failure reports nothing.
LEMMA FailsKeepsAnswer ==
  ASSUME AnswerInv, calls # <<>>, NEW error, Fails(error), UNCHANGED <<input, calls>>
  PROVE  AnswerInv'
<1>1. pc' = "done" /\ result' = None /\ UNCHANGED <<name, calls>>
  BY DEF Fails, input
<1>2. Reported'
  BY <1>1 DEF Reported
<1>3. QED
  BY <1>1, <1>2, EndKeepsAnswer

\* To a step at which no answer is awaited.
LEMMA TryKeepsAnswer ==
  ASSUME AnswerInv, calls # <<>>, pc' \in {"try", "send"}, UNCHANGED <<name, calls>>,
         proto' = "tcp" => packet' = form_query(Id, name, Call.type, PacketSize)
  PROVE  AnswerInv'
<1>1. PacketKept'
  BY DEF PacketKept, Call
<1>2. MessageKept' /\ Reported'
  BY DEF MessageKept, Reported
<1>3. QED
  BY <1>1, <1>2 DEF AnswerInv

\* The next server is asked the same.
LEMMA NextKeepsAnswer ==
  ASSUME AnswerInv, UnderWay, NextServer, UNCHANGED <<input, calls, proto, packet>>
  PROVE  AnswerInv'
<1>1. pc' \in {"try", "send"} /\ UNCHANGED <<name, calls>>
  BY DEF NextServer, input
<1>2. proto' = "tcp" => packet' = form_query(Id, name, Call.type, PacketSize)
  BY DEF AnswerInv, PacketKept
<1>3. calls # <<>>
  BY DEF AnswerInv, UnderWay
<1>4. QED
  BY <1>1, <1>2, <1>3, TryKeepsAnswer

\* Every step keeps the second invariant.
LEMMA NextAnswerInv == IInv /\ AnswerInv /\ [Next]_vars => AnswerInv'
<1> SUFFICES ASSUME IInv, AnswerInv, [Next]_vars PROVE AnswerInv'
  OBVIOUS
<1>a. pc # "idle" => calls # <<>>
  BY DEF AnswerInv
<1>1. CASE Begin
  <2>1. calls # <<>> /\ pc' \in {"try", "send"} /\ UNCHANGED <<name, calls>> /\ proto' = "udp"
    BY <1>1 DEF Begin, input
  <2>2. QED
    BY <2>1, TryKeepsAnswer
<1>2. CASE GiveUp \/ CannotForm
  <2>1. \E error : Fails(error)
    BY <1>2 DEF GiveUp, CannotForm
  <2>2. calls # <<>> /\ UNCHANGED <<input, calls>>
    BY <1>a, <1>2 DEF GiveUp, CannotForm
  <2>3. QED
    BY <2>1, <2>2, FailsKeepsAnswer
<1>3. CASE CannotConnect \/ NoAnswer
  <2>1. UnderWay /\ NextServer /\ UNCHANGED <<input, calls, proto, packet>>
    BY <1>3 DEF CannotConnect, NoAnswer, UnderWay
  <2>2. QED
    BY <2>1, NextKeepsAnswer
<1>4. CASE Connect
  <2>1. pc = "try" /\ calls # <<>> /\ pc' \in {"try", "send"} /\ UNCHANGED <<name, calls, proto, packet>>
    BY <1>a, <1>4 DEF Connect, input
  <2>2. proto' = "tcp" => packet' = form_query(Id, name, Call.type, PacketSize)
    BY <2>1 DEF AnswerInv, PacketKept, UnderWay
  <2>3. QED
    BY <2>1, <2>2, TryKeepsAnswer
<1>5. CASE Send
  <2>1. pc = "send" /\ calls # <<>> /\ pc' = "poll" /\ packet' = Query /\ Query # Nothing
        /\ UNCHANGED <<name, calls, proto>>
    BY <1>a, <1>5 DEF Send, input
  <2>2. Query = form_query(Id, name, Call.type, PacketSize)
    BY <2>1 DEF Query, AnswerInv, PacketKept, UnderWay, IInv, TypeOK
  <2>3. PacketKept'
    BY <2>1, <2>2 DEF PacketKept, Call
  <2>4. MessageKept' /\ Reported'
    BY <2>1 DEF MessageKept, Reported
  <2>5. QED
    BY <2>1, <2>3, <2>4 DEF AnswerInv
<1>6. CASE ReceiveUdp
  <2>1. proto = "udp" /\ pc = "poll" /\ calls # <<>> /\ UNCHANGED <<name, input, calls>>
    BY <1>a, <1>6 DEF ReceiveUdp, input
  <2>2. PICK a \in Answers :
          LET h == decode_header(a.m)
          IN  /\ records' = a.rs
              /\ IF h.id # Id \/ h.rcode # NOERROR
                   THEN /\ NextServer
                        /\ UNCHANGED <<user, servers, proto, packet, len, h_errno, result, closed>>
                 ELSE IF h.tc = 1 THEN StartTcp
                 ELSE Answered(a.m) /\ UNCHANGED <<proto, idx, retry, len>>
    BY <1>6 DEF ReceiveUdp
  <2> DEFINE h == decode_header(a.m)
  <2>3. CASE h.id # Id \/ h.rcode # NOERROR
    <3>1. NextServer /\ UNCHANGED <<proto, packet>>
      BY <2>2, <2>3
    <3>2. QED
      BY <2>1, <3>1, NextKeepsAnswer DEF UnderWay
  <2>4. CASE ~(h.id # Id \/ h.rcode # NOERROR) /\ h.tc = 1
    <3>1. StartTcp
      BY <2>2, <2>4
    <3>2. pc' \in {"try", "send"} /\ packet' = form_query(Id, name, Call.type, PacketSize)
      BY <3>1 DEF StartTcp
    <3>3. QED
      BY <2>1, <3>2, TryKeepsAnswer
  <2>5. CASE ~(h.id # Id \/ h.rcode # NOERROR) /\ h.tc # 1
    <3>1. Answered(a.m) /\ records' = a.rs
      BY <2>2, <2>5
    <3>2. /\ name \in Seq(Octet) /\ \E w, marks : QueryFor(packet, w, marks)
          /\ Call.fn \in {"gethostbyname2", "nslookup"}
      BY <2>1, QueryOut
    <3>3. a.rs \in Contents /\ a.m = Reply(Id, 0, NOERROR, a.rs)
      BY <2>5, <3>2, UsableAnswer
    <3>4. WholeReply(a.m, a.rs)
      BY <3>2, <3>3, ReplyRead
    <3>5. Reported'
      BY <2>1, <3>1, <3>2, <3>3, <3>4, AnsweredReports
    <3>6. pc' = "done"
      BY <3>1 DEF Answered
    <3>7. QED
      BY <2>1, <3>5, <3>6, EndKeepsAnswer
  <2>6. QED
    BY <2>3, <2>4, <2>5
<1>7. CASE ReceiveLength
  <2>1. proto = "tcp" /\ pc = "poll" /\ calls # <<>> /\ UNCHANGED <<name, input, calls, proto>>
    BY <1>a, <1>7 DEF ReceiveLength, input
  <2>2. PICK a \in Answers :
          /\ message' = a.m /\ records' = a.rs
          /\ Fails("NO_RECOVERY") \/ (pc' = "body" /\ UNCHANGED packet)
    BY <1>7 DEF ReceiveLength
  <2>3. CASE Fails("NO_RECOVERY")
    BY <2>1, <2>3, FailsKeepsAnswer
  <2>4. CASE pc' = "body" /\ UNCHANGED packet
    <3>1. \E w, marks : QueryFor(packet, w, marks)
      BY <2>1, QueryOut
    <3>2. decode_header(a.m).id = Id /\ decode_header(a.m).rcode = NOERROR =>
            a.rs \in Contents /\ a.m = Reply(Id, 0, NOERROR, a.rs)
      BY <2>1, <3>1, UsableAnswer
    <3> DEFINE r == Reply(Id, 0, NOERROR, a.rs)
    <3>3. Reply(Id, 0, NOERROR, records)' = r
      BY <2>2, <2>4 DEF Reply, Question
    <3> HIDE DEF r
    <3>4. MessageKept'
      <4>1. decode_header(message)' = decode_header(a.m)
        BY <2>2
      <4>2. QED
        BY <2>2, <3>2, <3>3, <4>1 DEF MessageKept, r
    <3>5. PacketKept'
      BY <2>1, <2>4 DEF AnswerInv, PacketKept, Call
    <3>6. Reported'
      BY <2>4 DEF Reported
    <3>7. QED
      BY <2>1, <3>4, <3>5, <3>6 DEF AnswerInv
  <2>5. QED
    BY <2>2, <2>3, <2>4
<1>8. CASE ReceiveTcp
  <2>1. pc = "body" /\ calls # <<>> /\ UNCHANGED <<name, input, calls, proto, records>>
    BY <1>a, <1>8 DEF ReceiveTcp, input
  <2> DEFINE h == decode_header(message)
  <2>2. \/ NextServer /\ UNCHANGED packet
        \/ \E error : Fails(error)
        \/ h.id = Id /\ h.rcode = NOERROR /\ Answered(message)
    BY <1>8 DEF ReceiveTcp
  <2>3. CASE NextServer /\ UNCHANGED packet
    BY <2>1, <2>3, NextKeepsAnswer DEF UnderWay
  <2>4. CASE \E error : Fails(error)
    BY <2>1, <2>4, FailsKeepsAnswer
  <2>5. CASE h.id = Id /\ h.rcode = NOERROR /\ Answered(message)
    <3>1. records \in Contents /\ message = Reply(Id, 0, NOERROR, records)
      BY <2>1, <2>5 DEF AnswerInv, MessageKept
    <3>2. /\ name \in Seq(Octet) /\ \E w, marks : QueryFor(packet, w, marks)
          /\ Call.fn \in {"gethostbyname2", "nslookup"}
      BY <2>1, QueryOut
    <3>3. WholeReply(message, records)
      BY <3>1, <3>2, ReplyRead
    <3>4. Reported'
      BY <2>1, <2>5, <3>1, <3>2, <3>3, AnsweredReports
    <3>5. pc' = "done"
      BY <2>5 DEF Answered
    <3>6. QED
      BY <2>1, <3>4, <3>5, EndKeepsAnswer
  <2>6. QED
    BY <2>2, <2>3, <2>4, <2>5
<1>9. CASE Return
  <2>1. pc' = "idle" /\ calls' = Tail(calls) /\ UNCHANGED <<name, proto>>
    BY <1>9 DEF Return, input
  <2>2. calls' \in Seq([fn : {"gethostbyname2", "nslookup"}, type : {T_A, T_AAAA}]) /\ name' \in Names
    <3> DEFINE C == [fn : {"gethostbyname2", "nslookup"}, type : {T_A, T_AAAA}]
    <3>1. calls \in Seq(C) /\ calls # <<>> /\ name \in Names
      BY <1>9 DEF AnswerInv, Return
    <3> HIDE DEF C
    <3>2. Tail(calls) \in Seq(C)
      BY <3>1
    <3>3. QED
      BY <2>1, <3>1, <3>2 DEF C
  <2>3. PacketKept' /\ MessageKept' /\ Reported'
    BY <2>1, SMTT(30) DEF PacketKept, MessageKept, Reported, UnderWay
  <2>4. QED
    BY <2>1, <2>2, <2>3 DEF AnswerInv
<1>10. CASE UNCHANGED vars
  BY <1>10 DEF AnswerInv, PacketKept, MessageKept, Reported, UnderWay, Call, Reply, Question, Addresses,
               vars, input, history
<1>11. QED
  BY <1>1, <1>2, <1>3, <1>4, <1>5, <1>6, <1>7, <1>8, <1>9, <1>10 DEF Next

\* It holds at the start.
LEMMA InitAnswerInv == Init => AnswerInv
<1> SUFFICES ASSUME Init PROVE AnswerInv
  OBVIOUS
<1>1. pc = "idle" /\ PacketKept /\ MessageKept /\ Reported
  BY DEF Init, PacketKept, MessageKept, Reported, UnderWay
<1>2. calls \in Seq([fn : {"gethostbyname2", "nslookup"}, type : {T_A, T_AAAA}]) /\ name \in Names
  BY QueryAssumption DEF Init
<1>3. QED
  BY <1>1, <1>2 DEF AnswerInv

\* A name of good labels goes out as it was given, and what a lookup returns or prints
\* is what the server has: the first addresses, or the records of the types parse_reply
\* prints, before the first of a wrong length.
THEOREM ReportsRight == Spec => []Reports
<1>1. IInv /\ AnswerInv => AskedName
  <2>1. SUFFICES ASSUME IInv, AnswerInv, pc = "poll", GoodName
                 PROVE  decode_dotted(packet, HFIXEDSZ, Len(packet), NameMax)[2] = Append(name, 0)
    BY DEF AskedName
  <2>2. name \in Seq(Octet)
    BY <2>1, QueryOut
  <2>3. PICK w, marks : QueryFor(packet, w, marks)
    BY <2>1, QueryOut
  <2>4. QED
    BY <2>1, <2>2, <2>3, NameDecoded DEF QueryFor
<1>2. IInv /\ AnswerInv => Reports
  BY <1>1 DEF Reports, AnswerInv
<1>3. QED
  BY <1>2, InitAnswerInv, NextAnswerInv, Invariance, PTL DEF Spec
=============================================================================
