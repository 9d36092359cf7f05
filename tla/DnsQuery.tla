------------------------------ MODULE DnsQuery ------------------------------
(***************************************************************************)
(* The resolver of testCases/dns_lookup3/dns_query.c: main looks a name up *)
(* twice, by gethostbyname2 or by nslookup_ipv4 and nslookup_ipv6 (the     *)
(* other branch of its #if).  A lookup asks the name servers in turn over  *)
(* UDP, one attempt each and __resolv_attempts in all, and again over TCP  *)
(* if the answer was cut.                                                  *)
(*                                                                         *)
(* A step is a system call with what follows it.  Calls may fail, servers  *)
(* may not answer, or answer with an error; those that answer do it with   *)
(* well-formed messages.  Memory does not run out.                         *)
(***************************************************************************)
EXTENDS DnsMessage, FiniteSets, SeqDrop

CONSTANTS
  Servers,      \* addresses of name servers
  Loopback,     \* 127.0.0.1
  None,
  Arguments,    \* what the user may give as dns_server: an address, anything, or None
  Confs,        \* what /etc/resolv.conf may list, in order; None if it cannot be read
  Names,        \* what may be looked up
  Plans,        \* the calls of main
  Contents,     \* the records a server may have for the name
  Attempts,     \* __resolv_attempts, 2 in the program
  AnswerSize    \* sizeof(answer) and bufsize - 2, 65536 and 65534

Id == 7         \* getpid() & 0xffff
Wrong == 8      \* that of a message that is no answer to the query

ASSUME QueryAssumption ==
  /\ Loopback \in Servers /\ None \notin Servers
  /\ \A c \in Confs \ {None} : c \in Seq(ToSet(c))
  /\ Names \subseteq Seq(Octet)
  /\ Plans \subseteq Seq([fn : {"gethostbyname2", "nslookup"}, type : {T_A, T_AAAA}])
  /\ \A rs \in Contents :
       /\ rs \in Seq([atype : Word, rdata : Seq(Octet)]) /\ Len(rs) \in Word
       /\ \A i \in DOMAIN rs : Len(rs[i].rdata) \in Word
  /\ Attempts \in Nat \ {0}

VARIABLES
  conf, given, name,  \* the input: resolv.conf, the arguments of main
  user,         \* user_dns_setting, or None
  servers,      \* __nameserver, of __nameservers entries
  calls,        \* what main still does, the lookup under way first
  proto, pc,    \* "udp" in __dns_lookup, "tcp" in res_query_tcp, and where
  idx, retry,   \* nameserver_idx and retry_count
  packet,       \* what the packet allocated last holds, <<>> after free
  len,          \* of res_query_tcp
  message,      \* what comes in over TCP after the length
  fd,           \* whether a socket is open
  h_errno,
  result,       \* what the call returns or prints, None if it fails
  tried, announced, reread, records, closed
                \* history: the attempts, the length sent over TCP, whether an
                \* earlier attempt had overwritten it, the records in the answer
                \* and whether __close_nameservers has been called

input   == <<conf, given, name>>
history == <<tried, announced, reread, records, closed>>
vars == <<input, user, servers, calls, proto, pc, idx, retry, packet, len, message, fd,
          h_errno, result, history>>

IsAddress(s) == s \in Servers

\* main with __open_nameservers_with_user_dns: an invalid address is not kept.
Init ==
  /\ conf \in Confs /\ given \in Arguments /\ name \in Names
  /\ user = IF IsAddress(given) THEN given ELSE None
  /\ servers = <<>>
  /\ calls \in Plans
  /\ proto = "udp" /\ pc = "idle" /\ idx = 0 /\ retry = 0
  /\ packet = <<>> /\ len = 0 /\ message = <<>> /\ fd = FALSE
  /\ h_errno = "none" /\ result = None
  /\ tried = <<>> /\ announced = 0 /\ reread = FALSE /\ records = <<>> /\ closed = FALSE

Call == Head(calls)

\* What __open_nameservers finds.
open_nameservers ==
  IF user # None THEN <<user>>
  ELSE IF conf = None THEN <<Loopback>>
  ELSE LET valid == Dropping(conf, ToSet(conf) \ Servers)
       IN  IF valid = <<>> THEN <<Loopback>> ELSE valid

close_nameservers == servers' = <<>> /\ user' = None /\ closed' = TRUE

Begin ==
  /\ pc = "idle" /\ calls # <<>>
  /\ servers' = IF Call.fn = "nslookup" \/ servers = <<>> THEN open_nameservers ELSE servers
  /\ proto' = "udp" /\ pc' = "try" /\ idx' = 0 /\ retry' = Attempts
  /\ tried' = <<>> /\ announced' = 0 /\ reread' = FALSE /\ records' = <<>> /\ result' = None
  /\ UNCHANGED <<input, user, calls, packet, len, message, fd, h_errno, closed>>

-----------------------------------------------------------------------------
(* The ends of a lookup                                                    *)

\* The call fails: gethostbyname2 closes the name servers, nslookup does not.
Fails(error) ==
  /\ pc' = "done" /\ result' = None /\ h_errno' = error
  /\ packet' = <<>> /\ fd' = FALSE
  /\ IF Call.fn = "gethostbyname2" THEN close_nameservers ELSE UNCHANGED <<servers, user, closed>>

\* res_query keeps the error of an earlier lookup if __dns_lookup fails.
LookupError == IF h_errno = "none" THEN "TRY_AGAIN" ELSE h_errno

\* The terminator of a full address list is written behind the list: what is there
\* afterwards, the first address or something else, depends on the layout.
Answered(m) ==
  /\ pc' = "done" /\ packet' = <<>> /\ fd' = FALSE
  /\ close_nameservers
  /\ IF Call.fn = "nslookup"
       THEN result' = parse_reply(m) /\ UNCHANGED h_errno
       ELSE LET addrs == addr_list(m, Call.type)
            IN  IF addrs = <<>> THEN result' = None /\ h_errno' = "NO_DATA"
                ELSE /\ \/ result' = addrs
                        \/ /\ Len(addrs) = MaxAddrs
                           /\ result' = [addrs EXCEPT ![1] = [i \in DOMAIN @ |-> 0]]
                     /\ UNCHANGED h_errno

\* The attempts of res_query_tcp, with a packet of its own.
StartTcp ==
  /\ proto' = "tcp" /\ pc' = "try" /\ idx' = 0 /\ retry' = Attempts
  /\ packet' = form_query(Id, name, Call.type, PacketSize)
  /\ len' = Len(packet') /\ fd' = FALSE
  /\ UNCHANGED <<servers, user, h_errno, result, closed>>

-----------------------------------------------------------------------------
(* One attempt                                                             *)

\* Mutants: the next server is not the next one; the socket stays open.
NextServer_Same ==
  /\ pc' = "try" /\ fd' = FALSE /\ retry' = retry - 1 /\ UNCHANGED idx
NextServer_Open ==
  /\ pc' = "try" /\ retry' = retry - 1 /\ idx' = idx + 1 /\ UNCHANGED fd

NextServer == pc' = "try" /\ fd' = FALSE /\ idx' = idx + 1 /\ retry' = retry - 1

Exhausted == idx >= Len(servers) \/ retry <= 0

GiveUp ==
  /\ pc = "try" /\ Exhausted
  /\ Fails(IF proto = "udp" THEN LookupError ELSE "TRY_AGAIN")
  /\ UNCHANGED <<input, calls, proto, idx, retry, len, message, tried, announced, reread, records>>

Try == tried' = Append(tried, [proto |-> proto, to |-> servers[idx + 1], idx |-> idx])

\* socket, and connect for TCP.
CannotConnect ==
  /\ pc = "try" /\ ~Exhausted
  /\ Try /\ NextServer
  /\ UNCHANGED <<input, user, servers, calls, proto, packet, len, message, h_errno, result,
                 announced, reread, records, closed>>

Connect ==
  /\ pc = "try" /\ ~Exhausted
  /\ Try /\ pc' = "send" /\ fd' = TRUE
  /\ UNCHANGED <<input, user, servers, calls, proto, idx, retry, packet, len, message, h_errno,
                 result, announced, reread, records, closed>>

\* __dns_lookup makes the query for each attempt.
Query == IF proto = "udp" THEN form_query(Id, name, Call.type, PacketSize) ELSE packet

CannotForm ==
  /\ pc = "send" /\ Query = Nothing
  /\ Fails(LookupError)
  /\ UNCHANGED <<input, calls, proto, idx, retry, len, message, tried, announced, reread, records>>

\* Over TCP the query goes out as len octets, with that length before it.
Send ==
  /\ pc = "send" /\ Query # Nothing
  /\ packet' = Query /\ pc' = "poll"
  /\ announced' = IF proto = "tcp" THEN len ELSE 0
  /\ UNCHANGED <<input, user, servers, calls, proto, idx, retry, len, message, fd, h_errno, result,
                 tried, reread, records, closed>>

\* send fails, nothing comes in time, or less than a header, length or message.
NoAnswer ==
  /\ pc \in {"poll", "body"} \/ (pc = "send" /\ Query # Nothing)
  /\ NextServer
  /\ UNCHANGED <<input, user, servers, calls, proto, packet, len, message, h_errno, result, history>>

-----------------------------------------------------------------------------
(* Name servers (external)                                                 *)

Question == SubSeq(packet, HFIXEDSZ + 1, Len(packet))

\* The records' names are compressed.
Record(r) ==
  <<192, HFIXEDSZ>> \o Two(r.atype) \o Two(C_IN) \o <<0, 0, 0, 0>> \o Two(Len(r.rdata)) \o r.rdata

Reply(id, tc, rcode, rs) ==
  encode_header([Header EXCEPT !.id = id, !.qr = 1, !.tc = tc, !.rd = 1, !.rcode = rcode,
                               !.qdcount = 1, !.ancount = Len(rs)])
    \o Question \o FlattenSeq([i \in DOMAIN rs |-> Record(rs[i])])

\* An answer that does not fit into a packet is cut, over UDP; a query with another
\* length than it was announced with gets an error at best.
Answers ==
  {[m |-> Reply(Id, 0, rcode, <<>>), rs |-> <<>>] : rcode \in {SERVFAIL, NXDOMAIN}}
  \cup {[m |-> Reply(Wrong, 0, NOERROR, <<>>), rs |-> <<>>]}
  \cup (IF proto = "tcp" /\ announced # Len(packet) THEN {}
        ELSE {LET whole == Reply(Id, 0, NOERROR, rs)
              IN  IF proto = "udp" /\ Len(whole) > PacketSize
                    THEN [m |-> Reply(Id, 1, NOERROR, <<>>), rs |-> <<>>]
                    ELSE [m |-> whole, rs |-> rs] : rs \in Contents})

-----------------------------------------------------------------------------
\* recv over UDP.
ReceiveUdp ==
  /\ proto = "udp" /\ pc = "poll"
  /\ \E a \in Answers :
       LET h == decode_header(a.m)
       IN  /\ records' = a.rs
           /\ IF h.id # Id \/ h.rcode # NOERROR
                THEN /\ NextServer
                     /\ UNCHANGED <<user, servers, proto, packet, len, h_errno, result, closed>>
              ELSE IF h.tc = 1 THEN StartTcp
              ELSE Answered(a.m) /\ UNCHANGED <<proto, idx, retry, len>>
  /\ UNCHANGED <<input, calls, message, tried, announced, reread>>

\* The two octets before an answer over TCP: their value goes to len, which was the
\* length of the query.
ReceiveLength ==
  /\ proto = "tcp" /\ pc = "poll"
  /\ \E a \in Answers :
       /\ len' = Len(a.m) /\ message' = a.m /\ records' = a.rs
       /\ IF len' > AnswerSize
            THEN Fails("NO_RECOVERY")
            ELSE pc' = "body" /\ UNCHANGED <<user, servers, packet, fd, h_errno, result, closed>>
  /\ reread' = TRUE
  /\ UNCHANGED <<input, calls, proto, idx, retry, tried, announced>>

ReceiveTcp ==
  /\ pc = "body"
  /\ LET h == decode_header(message)
     IN  IF h.id # Id
           THEN NextServer /\ UNCHANGED <<user, servers, packet, h_errno, result, closed>>
         ELSE IF h.rcode # NOERROR
           THEN /\ Fails(IF h.rcode = SERVFAIL THEN "TRY_AGAIN" ELSE "NO_DATA")
                /\ UNCHANGED <<idx, retry>>
         ELSE Answered(message) /\ UNCHANGED <<idx, retry>>
  /\ UNCHANGED <<input, calls, proto, len, message, tried, announced, reread, records>>

\* main goes on with the next call.
Return ==
  /\ pc = "done" /\ pc' = "idle" /\ calls' = Tail(calls)
  /\ UNCHANGED <<input, user, servers, proto, idx, retry, packet, len, message, fd, h_errno, result,
                 history>>

Next ==
  \/ Begin \/ GiveUp \/ CannotConnect \/ Connect \/ CannotForm \/ Send \/ NoAnswer
  \/ ReceiveUdp \/ ReceiveLength \/ ReceiveTcp \/ Return

Spec == Init /\ [][Next]_vars

-----------------------------------------------------------------------------
(* Properties                                                              *)

\* The shape of the state; a socket is open between socket and close and at no other
\* time, and what the lookup has allocated is freed when it returns.
TypeOK ==
  /\ user \in Servers \cup {None} /\ servers \in Seq(Servers)
  /\ pc \in {"idle", "try", "send", "poll", "body", "done"} /\ proto \in {"udp", "tcp"}
  /\ idx \in 0 .. Attempts /\ retry \in 0 .. Attempts
  /\ fd <=> pc \in {"send", "poll", "body"}
  /\ pc \in {"idle", "done"} => packet = <<>>
  /\ pc \in {"try", "send", "poll", "body"} => servers # <<>> /\ calls # <<>>

\* An attempt; those over p.
Attempt == [proto : {"udp", "tcp"}, to : Servers, idx : Nat]
Tried(p) == Dropping(tried, [proto : {"udp", "tcp"} \ {p}, to : Servers, idx : Nat])

\* The comment at line 197, a server the user has given is used first of all: no other
\* one is asked, until __close_nameservers has forgotten it, which it does after the
\* first lookup of main.
UserFirst ==
  IsAddress(given) /\ ~closed => \A i \in DOMAIN tried : tried[i].to = given

\* Each attempt goes to the next server, and a lookup gives up when all servers, or
\* as many as there are attempts, have had theirs.
InTurn ==
  \A p \in {"udp", "tcp"} : LET t == Tried(p) IN
    /\ \A i \in DOMAIN t : t[i].idx = i - 1
    /\ pc = "try" /\ proto = p /\ Exhausted =>
         Len(t) = IF Len(servers) < Attempts THEN Len(servers) ELSE Attempts

\* Over TCP the query is announced with its length, unless an earlier attempt has
\* left the length of an answer in len.
LengthRight == proto = "tcp" /\ pc = "poll" => announced = Len(packet) \/ reread

\* A name of good labels is asked for as it was given.
GoodName ==
  /\ name # <<>> /\ name[Len(name)] # Dot
  /\ \A i, j \in DOMAIN name : i <= j /\ j - i >= LabelMax => \E k \in i .. j : name[k] = Dot
  /\ name[1] # Dot /\ \A i \in 1 .. Len(name) - 1 : name[i] # Dot \/ name[i + 1] # Dot
AskedName ==
  pc = "poll" /\ GoodName =>
    decode_dotted(packet, HFIXEDSZ, Len(packet), NameMax)[2] = Append(name, 0)

\* Who is asked, and how: the right servers in turn, with the length of the query.
Asks == UserFirst /\ InTurn /\ LengthRight

\* The addresses in the answer, in its order.
Addresses(type) ==
  LET other == {r \in ToSet(records) : r.atype # type \/ Len(r.rdata) # AddrLen[type]}
      right == Dropping(records, other)
  IN  [i \in DOMAIN right |-> right[i].rdata]

\* What comes back is what the server has: the first MaxAddrs addresses, if the list
\* of addresses is not full, or all records of the types that are printed, before one of
\* the wrong length, each as what it is, up to the one after the first that has a name.
Reported ==
  pc = "done" /\ result # None =>
    IF Call.fn = "gethostbyname2"
      THEN LET all == Addresses(Call.type)
           IN  IF Len(all) < MaxAddrs THEN result = all
               ELSE Len(result) = MaxAddrs /\ Tail(result) = SubSeq(all, 2, MaxAddrs)
      ELSE LET rrs == Shown(records)
           IN  /\ Len(result) = Len(rrs)
               /\ \A i \in DOMAIN rrs :
                    /\ result[i][2] = rrs[i].rdata
                    /\ \/ result[i][1] = rrs[i].atype
                       \/ \E j \in 1 .. i - 1 : rrs[j].atype \in Named

\* What is asked for and what is reported, through the coding of messages.
Reports == AskedName /\ Reported

-----------------------------------------------------------------------------
(* What TypeOK and Asks rest on                                            *)

UnderWay == pc \in {"try", "send", "poll", "body"}

\* A lookup counts its attempts: idx servers have been asked over proto so far, and the
\* one whose answer is awaited.
Counted ==
  /\ tried \in Seq(Attempt)
  /\ \A p \in {"udp", "tcp"} : \A i \in DOMAIN Tried(p) : Tried(p)[i].idx = i - 1
  /\ UnderWay =>
       /\ retry = Attempts - idx /\ idx <= Len(servers)
       /\ pc # "try" => idx < Len(servers) /\ retry > 0
       /\ Len(Tried(proto)) = IF pc = "try" THEN idx ELSE idx + 1
       /\ proto = "udp" => Tried("tcp") = <<>>

\* As long as the server the user has given is known, it is the only one.
OnlyUser ==
  IsAddress(given) /\ ~closed =>
    /\ user = given /\ servers \in {<<>>, <<given>>}
    /\ \A i \in DOMAIN tried : tried[i].to = given

\* len is that of the query until the length of an answer goes there.
LengthKept ==
  proto = "tcp" /\ UnderWay /\ ~reread =>
    len = Len(packet) /\ (pc = "poll" => announced = len)

IInv ==
  /\ TypeOK /\ conf \in Confs /\ Counted /\ OnlyUser /\ LengthKept

-----------------------------------------------------------------------------
(* What Reports rests on                                                   *)

\* An answer is awaited to the query for the name, and it is kept over TCP.
PacketKept ==
  /\ pc \in {"poll", "body"} => packet = form_query(Id, name, Call.type, PacketSize) /\ packet # Nothing
  /\ proto = "tcp" /\ UnderWay => packet = form_query(Id, name, Call.type, PacketSize)

\* A message over TCP that will be used is the server's whole answer to that packet.
MessageKept ==
  pc = "body" =>
    LET h == decode_header(message)
    IN  h.id = Id /\ h.rcode = NOERROR =>
          records \in Contents /\ message = Reply(Id, 0, NOERROR, records)

AnswerInv ==
  /\ name \in Names /\ calls \in Seq([fn : {"gethostbyname2", "nslookup"}, type : {T_A, T_AAAA}])
  /\ pc # "idle" => calls # <<>>
  /\ PacketKept /\ MessageKept /\ Reported
=============================================================================
