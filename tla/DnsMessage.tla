----------------------------- MODULE DnsMessage -----------------------------
(***************************************************************************)
(* DNS messages as testCases/dns_lookup3/dns_query.c writes and reads      *)
(* them: sequences of octets.  Offsets are those of the program, so the    *)
(* octet at offset o is element o + 1.  Encoders give Nothing and decoders  *)
(* Fail where the program has -1; memory does not run out.  The sizes are  *)
(* parameters for small instances.                                         *)
(***************************************************************************)
EXTENDS Integers, Sequences, SequencesExt, SeqDrop

CONSTANTS
  LabelMax,     \* 63, the longest label
  NameMax,      \* MAXDNAME, 1025
  PacketSize,   \* PACKETSZ, 512
  MaxAddrs,     \* MAX_ADDRS, 16
  AddrLen       \* h_length of each type asked for, 4 for T_A and 16 for T_AAAA

ASSUME MessageAssumption ==
  /\ LabelMax \in 1 .. 63 /\ NameMax \in Nat /\ PacketSize \in Nat \ {0}
  /\ PacketSize <= NameMax
  /\ MaxAddrs \in Nat \ {0}

Octet == 0 .. 255
Word  == 0 .. 256 * 256 - 1
Fail  == -1
Nothing == <<>>

C_IN == 1
T_A == 1
T_NS == 2
T_CNAME == 5
T_SOA == 6
T_PTR == 12
T_MX == 15
T_TXT == 16
T_AAAA == 28
NOERROR == 0
SERVFAIL == 2
NXDOMAIN == 3
HFIXEDSZ == 12
RRFIXEDSZ == 10

Dot == 46
Two(n) == <<(n \div 256) % 256, n % 256>>
At(m, o) == m[o + 1]
TwoAt(m, o) == At(m, o) * 256 + At(m, o + 1)

-----------------------------------------------------------------------------
(* Header: the fields the program looks at                                 *)

Header == [id |-> 0, qr |-> 0, tc |-> 0, rd |-> 0, rcode |-> 0, qdcount |-> 0, ancount |-> 0]

encode_header(h) ==
  Two(h.id) \o <<h.qr * 128 + h.tc * 2 + h.rd, h.rcode>>
    \o Two(h.qdcount) \o Two(h.ancount) \o Two(0) \o Two(0)

decode_header(m) ==
  [id |-> TwoAt(m, 0), qr |-> At(m, 2) \div 128, tc |-> (At(m, 2) \div 2) % 2,
   rd |-> At(m, 2) % 2, rcode |-> At(m, 3) % 16,
   qdcount |-> TwoAt(m, 4), ancount |-> TwoAt(m, 6)]

-----------------------------------------------------------------------------
(* Names                                                                   *)

\* The label a name starts with: up to a dot, but never more than LabelMax long.
FirstLabel(name) ==
  SubSeq(name, 1, CHOOSE k \in 0 .. Len(name) :
    /\ k <= LabelMax /\ \A i \in 1 .. k : name[i] # Dot
    /\ k = Len(name) \/ k = LabelMax \/ name[k + 1] = Dot)

\* A label that is longer goes on as the next one; an empty one ends the name.
encode_dotted(name, maxlen) ==
  LET e[at \in Seq(Octet) \X Seq(Octet)] ==
        LET rest  == at[1]
            done  == at[2]
            label == FirstLabel(rest)
            n     == Len(label)
            after == SubSeq(rest, n + 1, Len(rest))
        IN  IF n = 0 THEN IF Len(done) + 1 > maxlen THEN Nothing ELSE Append(done, 0)
            ELSE IF Len(done) + n + 1 > maxlen THEN Nothing
            ELSE e[<<IF after # <<>> /\ Head(after) = Dot THEN Tail(after) ELSE after,
                     done \o <<n>> \o label>>]
  IN  e[<<name, <<>> >>]

\* A mutant: the second octet of a compressed name is not counted.
decode_dotted_Short(packet, offset, len, size) ==
  LET d[at \in Nat \X Nat \X BOOLEAN \X Seq(Octet)] ==
        LET o       == at[1]
            total   == at[2]
            measure == at[3]
            dest    == at[4]
            b       == At(packet, o)
            one     == IF measure THEN 1 ELSE 0
        IN  IF o >= len THEN <<Fail, dest>>
            ELSE IF b = 0 THEN <<total + one, dest>>
            ELSE IF b >= 192
              THEN IF o + 1 >= len THEN <<Fail, dest>>
                   ELSE d[<<(b % 64) * 256 + At(packet, o + 1), total + one, FALSE, dest>>]
            ELSE IF Len(dest) + b + 1 >= size \/ o + 1 + b >= len THEN <<Fail, dest>>
            ELSE d[<<o + 1 + b, total + one * (1 + b), measure,
                     Append(dest \o SubSeq(packet, o + 2, o + 1 + b),
                            IF At(packet, o + 1 + b) # 0 THEN Dot ELSE 0)>>]
  IN  d[<<offset, 0, TRUE, <<>> >>]

\* What is returned, the octets the name takes at offset, and the string.  A
\* compressed name goes on at another offset and takes two octets here.
decode_dotted(packet, offset, len, size) ==
  LET d[at \in Nat \X Nat \X BOOLEAN \X Seq(Octet)] ==
        LET o       == at[1]
            total   == at[2]
            measure == at[3]
            dest    == at[4]
            b       == At(packet, o)
            one     == IF measure THEN 1 ELSE 0
        IN  IF o >= len THEN <<Fail, dest>>
            ELSE IF b = 0 THEN <<total + one, dest>>
            ELSE IF b >= 192
              THEN IF o + 1 >= len THEN <<Fail, dest>>
                   ELSE d[<<(b % 64) * 256 + At(packet, o + 1), total + 2 * one, FALSE, dest>>]
            ELSE IF Len(dest) + b + 1 >= size \/ o + 1 + b >= len THEN <<Fail, dest>>
            ELSE d[<<o + 1 + b, total + one * (1 + b), measure,
                     Append(dest \o SubSeq(packet, o + 2, o + 1 + b),
                            IF At(packet, o + 1 + b) # 0 THEN Dot ELSE 0)>>]
  IN  d[<<offset, 0, TRUE, <<>> >>]

-----------------------------------------------------------------------------
(* Questions and answers                                                   *)

encode_question(name, type, maxlen) ==
  LET i == encode_dotted(name, maxlen)
  IN  IF i = Nothing \/ maxlen - Len(i) < 4 THEN Nothing ELSE i \o Two(type) \o Two(C_IN)

form_query(id, name, type, maxlen) ==
  LET q == encode_question(name, type, maxlen - HFIXEDSZ)
  IN  IF maxlen < HFIXEDSZ \/ q = Nothing THEN Nothing
      ELSE encode_header([Header EXCEPT !.id = id, !.qdcount = 1, !.rd = 1]) \o q

\* The record at offset; next is what is returned, the octets it takes.
decode_answer(m, offset, len) ==
  LET i    == decode_dotted(m, offset, len, NameMax)[1]
      o    == offset + i
      left == len - (i + RRFIXEDSZ + offset)
      rd   == TwoAt(m, o + 8)
  IN  IF i < 0 \/ left < 0 THEN [next |-> Fail]
      ELSE IF left < rd THEN [next |-> Fail]
      ELSE [next |-> i + RRFIXEDSZ + rd, atype |-> TwoAt(m, o), aclass |-> TwoAt(m, o + 2),
            rdata |-> SubSeq(m, o + RRFIXEDSZ + 1, o + RRFIXEDSZ + rd)]

\* The address list gethostbyname2 makes of an answer for a type: where the loop, which
\* ends at MaxAddrs addresses, stands after i turns.
addr_list(m, type) ==
  LET h    == decode_header(m)
      from == IF h.qdcount > 0
                THEN HFIXEDSZ + decode_dotted(m, HFIXEDSZ, Len(m), NameMax)[1] + 4
                ELSE HFIXEDSZ
      turn[i \in 0 .. h.ancount] ==
        IF i = 0 THEN [offset |-> from, addrs |-> <<>>]
        ELSE LET before == turn[i - 1]
                 a      == decode_answer(m, before.offset, Len(m))
             IN  IF Len(before.addrs) >= MaxAddrs \/ a.next < 0 THEN before
                 ELSE [offset |-> before.offset + a.next,
                       addrs  |-> IF a.atype = type /\ a.aclass = C_IN
                                       /\ Len(a.rdata) = AddrLen[type]
                                    THEN Append(before.addrs, a.rdata) ELSE before.addrs]
  IN  turn[h.ancount].addrs

-----------------------------------------------------------------------------
(* parse_reply: what it prints of each record, by kind.  libc's parser is  *)
(* taken to find the records of a well-formed reply, and the names in      *)
(* their data.                                                             *)

Named == {T_NS, T_CNAME, T_PTR}

\* The records as libc finds them.
ns_parserr(m) ==
  LET h    == decode_header(m)
      from == HFIXEDSZ + decode_dotted(m, HFIXEDSZ, Len(m), NameMax)[1] + 4
      turn[i \in 0 .. h.ancount] ==
        IF i = 0 THEN [offset |-> from, rrs |-> <<>>]
        ELSE LET before == turn[i - 1]
                 a      == decode_answer(m, before.offset, Len(m))
             IN  [offset |-> before.offset + a.next,
                  rrs    |-> Append(before.rrs, [atype |-> a.atype, rdata |-> a.rdata])]
  IN  turn[h.ancount].rrs

\* A record that ends the printing: -1 is returned, which the callers ignore.
Unexpected(r) ==
  \/ r.atype \in {T_A, T_AAAA} /\ Len(r.rdata) # AddrLen[r.atype]
  \/ r.atype = T_MX /\ Len(r.rdata) < 2
  \/ r.atype = T_TXT /\ Len(r.rdata) < 1
  \/ r.atype = T_SOA /\ Len(r.rdata) < 20

\* A record of which nothing is printed: an empty text, or a type not in the switch.
Silent(r) ==
  /\ r.atype \notin {T_A, T_AAAA, T_MX, T_SOA} \cup Named
  /\ r.atype = T_TXT => r.rdata[1] = 0

\* The records of which something is printed.
Shown(rrs) ==
  LET end  == Min({i \in DOMAIN rrs : Unexpected(rrs[i])} \cup {Len(rrs) + 1})
      read == SubSeq(rrs, 1, end - 1)
  IN  Dropping(read, {r \in ToSet(read) : Silent(r)})

\* format is set by the first record with a name and never reset: it is the label of
\* every later one, whatever its type.  Other records print their own kind.
parse_reply(m) ==
  LET rrs   == Shown(ns_parserr(m))
      first == SelectInSeq(rrs, LAMBDA r : r.atype \in Named)
      Label(r) == IF r.atype \in Named THEN rrs[first].atype ELSE r.atype
  IN  [i \in DOMAIN rrs |-> <<Label(rrs[i]), rrs[i].rdata>>]
=============================================================================
