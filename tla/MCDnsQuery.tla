----------------------------- MODULE MCDnsQuery -----------------------------
(* Small messages: addresses of one and two octets, packets of 48 octets. *)
EXTENDS DnsQuery

CONSTANTS user1, s1, s2, s3, loop, junk, none

AllServers == {user1, s1, s2, s3, loop}
UserArguments == {none, user1, junk}
SomeConfs == {none, <<>>, <<junk>>, <<s1, junk, s2>>, <<s1, s2, s3>>}

\* a.b, a name that is good but long, one with a label too long, one with an empty
\* label and one that does not fit.
x == 97
SomeNames ==
  {<<x, Dot, x>>, <<x, x, Dot, x>>, <<x, x, x, x>>, <<x, Dot, Dot, x>>, [i \in 1 .. 40 |-> x]}

Hostent(t) == [fn |-> "gethostbyname2", type |-> t]
Nslookup(t) == [fn |-> "nslookup", type |-> t]
MainPlans ==
  {<<Hostent(T_A), Hostent(T_AAAA)>>, <<Nslookup(T_A), Nslookup(T_AAAA)>>}

SmallAddrs == (T_A :> 1) @@ (T_AAAA :> 2)
R(t, d) == [atype |-> t, rdata |-> d]

\* Records of all kinds, one of a type that is not printed and one of a wrong length.
Hinfo == 13
SomeContents ==
  {<<>>, <<R(T_A, <<1>>)>>, <<R(T_AAAA, <<1, 2>>)>>,
   <<R(T_CNAME, <<1, x, 0>>), R(T_A, <<2>>), R(T_NS, <<1, x, 0>>)>>,
   <<R(T_A, <<1>>), R(T_AAAA, <<1, 2>>), R(T_A, <<2>>), R(T_A, <<3>>)>>,
   [i \in 1 .. 7 |-> R(T_AAAA, <<i, 2>>)],
   <<R(Hinfo, <<1>>), R(T_PTR, <<1, x, 0>>), R(T_TXT, <<0>>), R(T_A, <<2>>)>>,
   <<R(T_TXT, <<1, x>>), R(T_A, <<1, 2>>), R(T_A, <<3>>)>>}
=============================================================================
