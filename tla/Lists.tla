------------------------------- MODULE Lists -------------------------------
(***************************************************************************)
(* A program that calls the list libraries of testCases/taglist: it holds  *)
(* one list, a number list, a string list, a link list or a tag list, and  *)
(* calls any function with any arguments, any number of times.  The last   *)
(* call, with the list as it was before and the result, stays visible      *)
(* until the program goes on; what the calls promise is stated about it.   *)
(***************************************************************************)
EXTENDS IpList, TagList

CONSTANTS
  Numbers,      \* numbers the program uses
  MaxNumLen,    \* bounds on the length of number and string lists
  MaxIpLen,
  FewStrings,   \* the strings of link lists and of arguments
  MaxArg        \* bound on the length of lists and texts given as arguments

ASSUME ListsAssumption ==
  /\ Numbers \subseteq DOMAIN Itoa /\ FewStrings \subseteq Strings
  /\ MaxNumLen \in Nat /\ MaxIpLen \in Nat /\ MaxArg \in Nat
  /\ MaxArg < MaxNumLen + MaxIpLen
  /\ 0 \in Numbers /\ \A s \in Strings : Strtol[s] > 0 => Strtol[s] \in Numbers

VARIABLES
  kind,   \* which of the libraries the list belongs to
  obj,    \* the list
  call    \* the call that has just returned, or Idle

vars == <<kind, obj, call>>

Idle == [op |-> "none"]

SeqsUpTo(S, n) == UNION {[1 .. k -> S] : k \in 0 .. n}

NumArgs == {List(s, TRUE) : s \in SeqsUpTo(Numbers, MaxArg)}
IpArgs  == {List(s, TRUE) : s \in SeqsUpTo(FewStrings, MaxArg)}
Words   == SeqsUpTo(Numbers \cup {-1}, MaxArg + 1)
Texts   == SeqsUpTo(Plain, MaxArg + 1)
Items   == Tags \X Values
Segments ==
  SeqsUpTo({NoId, -1, 0, LinkSize, LinkSize + 1}
             \X (SeqsUpTo(FewStrings \cap OneWord, MaxArg) \ {<<>>}), MaxArg)
TagArgs == {read_taglist(s, b, Tags) : s \in SeqsUpTo(Items, MaxArg), b \in BOOLEAN}

EmptyLink == create_linkiplist(<<>>)

Init ==
  /\ call = Idle
  /\ \/ /\ kind \in {"num", "ip"}
        /\ obj \in {List(<<>>, FALSE), List(<<>>, TRUE)}
     \/ kind = "link" /\ obj = EmptyLink
     \/ kind = "tag" /\ obj = create_taglist

\* A call on a list of kind k that leaves new behind and returns ret.
Calls(k, op, args, new, ret) ==
  /\ call = Idle
  /\ kind = k
  /\ obj' = new
  /\ call' = [op |-> op, args |-> args, before |-> obj, ret |-> ret]

On(k, op, args, new, ret) == Calls(k, op, args, new, ret) /\ UNCHANGED kind

Return == call # Idle /\ call' = Idle /\ UNCHANGED <<kind, obj>>

Fits(list) == Len(list.item) <= IF kind = "num" THEN MaxNumLen ELSE MaxIpLen
IsNew == obj.item = <<>>

-----------------------------------------------------------------------------
(* Number lists                                                            *)

NumCreate == kind = "num" /\ IsNew /\ \E w \in Words, m \in BOOLEAN :
  On("num", "create", <<w>>, create_numlist(w, m), 1)

NumInsert == kind = "num" /\ \E n \in Numbers : Fits(insert_numlist(obj, n))
  /\ On("num", "insert", <<n>>, insert_numlist(obj, n), 1)

NumInsertAt == kind = "num" /\ \E n \in Numbers, pos \in -1 .. MaxNumLen :
  /\ Fits(insert_numlist(obj, n))
  /\ On("num", "insert_at", <<n, pos>>, insert_numlist_at_pos(obj, pos, n), 1)

NumUnshift == kind = "num" /\ \E n \in Numbers : Fits(insert_numlist(obj, n))
  /\ On("num", "insert_at", <<n, 0>>, unshift_numlist(obj, n), 1)

NumRemove == kind = "num" /\ \E n \in Numbers :
  On("num", "remove", <<n>>, remove_numlist(obj, n), 1)

NumUnion == kind = "num" /\ \E t \in NumArgs : Fits(union_numlist(obj, t))
  /\ On("num", "union", <<t>>, union_numlist(obj, t), 1)

NumIntersect == kind = "num" /\ \E t \in NumArgs :
  On("num", "intersect", <<t>>, intersect_numlist(obj, t), 1)

NumExcept == kind = "num" /\ \E t \in NumArgs :
  On("num", "except", <<t>>, except_numlist(obj, t), 1)

NumUnique == kind = "num" /\ On("num", "unique", <<>>, unique_numlist(obj), 1)

NumSetMultiple == kind = "num" /\ \E m \in BOOLEAN :
  On("num", IF m THEN "keep" ELSE "unique", <<>>, set_numlist_multiple(obj, m), 1)

NumSort == kind = "num" /\
  \/ On("num", "keep", <<>>, sort_numlist(obj), 1)
  \/ On("num", "keep", <<>>, sort_numlist_reverse(obj), 1)

NumReorder == kind = "num" /\ (obj.multiple => Len(obj.item) <= MaxArg)
  /\ \E f, r \in {a \in NumArgs : IsInjective(a.item)} :
  On("num", "reorder", <<f, r>>, reorder_numlist(obj, f, r),
     IF reorder_fails(obj, f, r) THEN 0 ELSE 1)

NumGetFree == kind = "num" /\ On("num", "get_free", <<>>, obj, get_free_numlist(obj))

NumSerialize == kind = "num" /\ On("num", "serialize", <<>>, obj, serialize_numlist(obj))

NumToIp ==
  /\ kind = "num" /\ Len(obj.item) <= MaxIpLen
  /\ Calls("num", "to_ip", <<>>, create_iplist_from_numlist(obj), 1)
  /\ kind' = "ip"

NumNext ==
  \/ NumCreate \/ NumInsert \/ NumInsertAt \/ NumUnshift \/ NumRemove \/ NumUnion
  \/ NumIntersect \/ NumExcept \/ NumUnique \/ NumSetMultiple \/ NumSort \/ NumReorder
  \/ NumGetFree \/ NumSerialize \/ NumToIp

-----------------------------------------------------------------------------
(* String lists                                                            *)

IpCreate == kind = "ip" /\ IsNew /\ \E t \in Texts :
  \/ On("ip", "create", <<t>>, create_iplist(t), 1)
  \/ On("ip", "create", <<t>>, create_iplist_multiple(t), 1)

IpInsert == kind = "ip" /\ \E s \in Strings : Fits(insert_iplist(obj, s))
  /\ On("ip", "insert", <<s>>, insert_iplist(obj, s), 1)

IpAppend == kind = "ip" /\ \E s \in Strings : Fits(append_iplist(obj, s))
  /\ On("ip", "insert", <<s>>, append_iplist(obj, s), 1)

IpRemove == kind = "ip" /\ \E s \in Strings :
  On("ip", "remove", <<s>>, remove_iplist(obj, s), 1)

IpUnion == kind = "ip" /\ \E t \in IpArgs : Fits(union_iplist(obj, t))
  /\ On("ip", "union", <<t>>, union_iplist(obj, t), 1)

IpIntersect == kind = "ip" /\ \E t \in IpArgs :
  On("ip", "intersect", <<t>>, intersect_iplist(obj, t), 1)

IpExcept == kind = "ip" /\ \E t \in IpArgs :
  On("ip", "except", <<t>>, except_iplist(obj, t), 1)

IpUnique == kind = "ip" /\ On("ip", "unique", <<>>, unique_iplist(obj), 1)

IpSetMultiple == kind = "ip" /\ \E m \in BOOLEAN :
  On("ip", IF m THEN "keep" ELSE "unique", <<>>, set_iplist_multiple(obj, m), 1)

IpSort == kind = "ip" /\
  \/ On("ip", "keep", <<>>, sort_iplist(obj), 1)
  \/ On("ip", "keep", <<>>, sort_iplist_reverse(obj), 1)

IpSerialize == kind = "ip" /\ On("ip", "serialize", <<>>, obj, serialize_iplist(obj))

IpToNum ==
  /\ kind = "ip"
  /\ Calls("ip", "to_num", <<>>, create_numlist_from_iplist(obj), 1)
  /\ kind' = "num"

IpNext ==
  \/ IpCreate \/ IpInsert \/ IpAppend \/ IpRemove \/ IpUnion \/ IpIntersect \/ IpExcept
  \/ IpUnique \/ IpSetMultiple \/ IpSort \/ IpSerialize \/ IpToNum

-----------------------------------------------------------------------------
(* Link lists.  An index out of range makes a call return 0.               *)

LinkCreate == kind = "link" /\ obj = EmptyLink /\ \E s \in Segments :
  On("link", "create", <<s>>, create_linkiplist(s), 1)

LinkInsert == kind = "link" /\ \E id \in LinkIds, s \in FewStrings :
  /\ Len(obj[id].item) < MaxArg
  /\ On("link", "insert", <<id, s>>, insert_linkiplist(obj, id, s), 1)

LinkRemove == kind = "link" /\ \E id \in LinkIds, s \in FewStrings :
  On("link", "remove", <<id, s>>, remove_linkiplist(obj, id, s), 1)

LinkClear == kind = "link" /\ \E id \in LinkIds :
  On("link", "clear", <<id>>, clear_linkiplist(obj, id), 1)

LinkSerialize == kind = "link" /\ On("link", "serialize", <<>>, obj, serialize_linkiplist(obj))

LinkNext == LinkCreate \/ LinkInsert \/ LinkRemove \/ LinkClear \/ LinkSerialize

-----------------------------------------------------------------------------
(* Tag lists                                                               *)

TagRead == kind = "tag" /\ IsNew
  /\ \E lines \in SeqsUpTo(Items, MaxArg), prefix \in {Tags, {CHOOSE t \in Tags : TRUE}} :
       On("tag", "read", <<lines, prefix>>, read_taglist(lines, obj.sorted, prefix), 1)

TagInsert == kind = "tag" /\ \E item \in Items :
  On("tag", "insert", <<item>>, insert_taglist(obj, item), 1)

TagUpdate == kind = "tag" /\ \E item \in Items :
  On("tag", "update", <<item>>, update_taglist(obj, item[2], item[1]), 1)

TagReplace == kind = "tag" /\ \E item \in Items :
  On("tag", "replace", <<item>>, replace_taglist(obj, item), 1)

TagGet == kind = "tag" /\ \E tag \in Tags :
  On("tag", "get", <<tag>>, obj, <<exist_taglist(obj, tag), get_taglist(obj, tag)>>)

TagSort == kind = "tag" /\ On("tag", "keep", <<>>, sort_taglist(obj), 1)
TagUnsort == kind = "tag" /\ On("tag", "keep", <<>>, unsort_taglist(obj), 0)

TagCompare == kind = "tag" /\ \E b \in TagArgs :
  On("tag", "compare", <<b>>, obj, compare_taglist(obj, b))

TagNext ==
  \/ TagRead \/ TagInsert \/ TagUpdate \/ TagReplace \/ TagGet \/ TagSort \/ TagUnsort
  \/ TagCompare

Next == NumNext \/ IpNext \/ LinkNext \/ TagNext \/ Return

Spec == Init /\ [][Next]_vars

-----------------------------------------------------------------------------
\* The lists and the last call are what they are said to be.
TypeOK ==
  /\ kind \in {"num", "ip", "link", "tag"}
  /\ kind \in {"num", "ip"} =>
       /\ obj.item \in Seq(IF kind = "num" THEN Numbers ELSE Strings)
       /\ Len(obj.item) <= MaxNumLen + MaxIpLen /\ obj.multiple \in BOOLEAN
  /\ kind = "link" => \A id \in LinkIds : obj[id].item \in Seq(FewStrings) /\ ~obj[id].multiple
  /\ kind = "tag" => obj.item \in Seq(Items) /\ obj.sorted \in BOOLEAN
  /\ call = Idle \/ DOMAIN call = {"op", "args", "before", "ret"}

\* No sequence of calls puts a number or a string twice on a list that does not
\* allow it, a tag twice on a tag list, or a tag list that is sorted out of order,
\* which binary search depends on.  One exception: unique_iplist leaves up to two
\* copies of the first string of a list, which then does not allow them.
NoDuplicates ==
  /\ kind = "num" /\ ~obj.multiple => IsInjective(obj.item)
  /\ kind = "ip" /\ ~obj.multiple => Len(obj.item) - Cardinality(ToSet(obj.item)) <= 1
  /\ kind = "link" => \A id \in LinkIds : IsInjective(obj[id].item)
  /\ kind = "tag" => OneItemEach(obj.item) /\ (obj.sorted => InTagOrder(obj.item))

\* What a call of a number or string list does to the set of its members, by the
\* comments of numlist.h and iplist.h.  Deduplication of numbers may lose the last
\* number of the list and numbers that have no bit of their own in the map, that of
\* strings keeps the first.  On a list with two copies left by it, remove takes one.
Members ==
  LET before == ToSet(call.before.item)
      after  == ToSet(obj.item)
      arg    == call.args[1]
  IN  kind \in {"num", "ip"} =>
        /\ call.op \in {"insert", "insert_at"} => after = before \cup {arg}
        /\ call.op = "remove" /\ (call.before.multiple \/ IsInjective(call.before.item)) =>
             after = before \ {arg}
        /\ call.op = "union"     => after = before \cup ToSet(arg.item)
        /\ call.op = "intersect" => after = before \cap ToSet(arg.item)
        /\ call.op = "except"    => after = before \ ToSet(arg.item)
        /\ call.op \in {"keep", "reorder", "get_free", "serialize"} => after = before
        /\ call.op = "unique" =>
             /\ after \subseteq before
             /\ (kind = "num" /\ \A n \in before : OwnBit(n)) =>
                  ToSet(Front(call.before.item)) \subseteq after
             /\ kind = "ip" /\ before # {} => call.before.item[1] \in after

\* reorder_numlist, by the comment of numlist.h: the items of the fragment that are
\* on the list stand together, in their order, right behind the last item of the
\* reference, or at the front if there is none; the others keep their order.  A call
\* that fails changes nothing.
Reordered ==
  call.op = "reorder" =>
    LET old     == call.before.item
        moved   == Chain(call.before, call.args[1]).item
        anchors == ToSet(call.args[2].item)
        others  == Dropping(old, ToSet(moved))
    IN  /\ call.ret = 0 => obj = call.before
        /\ call.ret = 1 /\ moved # <<>> =>
             \E p \in 0 .. Len(others) :
               /\ obj.item = SubSeq(others, 1, p) \o moved \o SubSeq(others, p + 1, Len(others))
               /\ IF anchors = {} THEN p = 0 ELSE p > 0 /\ others[p] \in anchors
               /\ \A i \in p + 1 .. Len(others) : others[i] \notin anchors

\* insert_numlist_at_pos and unshift_numlist put the number at the place asked for,
\* or the nearest there is, and leave the order of the others alone.
Placed ==
  call.op = "insert_at" =>
    LET num  == call.args[1]
        pos  == Max({1, Min({Len(obj.item), call.args[2] + 1})})
        full == IF obj.multiple \/ num \notin ToSet(call.before.item)
                  THEN call.before.item \o <<num>> ELSE call.before.item
        at   == Max({i \in DOMAIN full : full[i] = num})
    IN  obj.item[pos] = num /\ RemoveAt(obj.item, pos) = RemoveAt(full, at)

\* get_free_numlist, by its comment: a positive number that is not on the list, at
\* most one above its size.
FreeIsFree ==
  call.op = "get_free" =>
    call.ret \in 1 .. Len(obj.item) + 1 /\ ~exist_numlist(obj, call.ret)

\* A list of numbers that is written as text and read back, or turned into strings and
\* back, is the same list, save what the map confuses (numbers with no bit of their own
\* that it covers).  A list of strings is the same, save empty strings that are left out,
\* if and only if no string holds a separator or has a blank at an end; in a link list,
\* none may hold a blank at all, which ends the reading of the whole text unless a number
\* and a colon follow.
RoundTrip ==
  LET clear(list) == list.multiple \/ \A i \in DOMAIN list.item :
                       OwnBit(list.item[i]) \/ ~Covered(list.item[i])
      filled(list) == [list EXCEPT !.item = Dropping(@, {Empty})]
  IN  /\ call.op = "serialize" /\ kind = "num" /\ clear(obj) =>
           create_numlist(call.ret, obj.multiple) = obj
      /\ call.op = "serialize" /\ kind = "ip" =>
           IF obj.multiple
             THEN create_iplist_multiple(call.ret) = obj
                    <=> obj.item # <<Empty>> /\ ToSet(obj.item) \subseteq Plain
             ELSE IsInjective(obj.item) =>
                    (create_iplist(call.ret) = filled(obj) <=> ToSet(obj.item) \subseteq Plain)
      /\ call.op = "serialize" /\ kind = "link" =>
           (create_linkiplist(call.ret) = [id \in LinkIds |-> filled(obj[id])]
              <=> \A id \in LinkIds : ToSet(obj[id].item) \subseteq OneWord)
      /\ call.op = "to_ip" /\ clear(call.before) =>
           create_numlist_from_iplist(obj) = call.before

\* A tag list is a map from tags to values, sorted or not.  compare_taglist tells
\* two of them apart, but without the order of both it takes a tag that is missing
\* for one whose value is empty.
TagsAreMap ==
  kind = "tag" /\ call # Idle =>
    LET old == MapOf(call.before)
        new == MapOf(obj)
        arg == call.args[1]
        first(lines, tag) == lines[SelectInSeq(lines, LAMBDA line : line[1] = tag)]
    IN  /\ call.op = "keep" => new = old
        /\ call.op = "insert" => new = IF arg[1] \in DOMAIN old THEN old ELSE Entered(old, arg)
        /\ call.op = "replace" => new = Entered(old, arg)
        /\ call.op = "update" =>
             new = IF arg[2] = NoValue THEN [tag \in DOMAIN old \ {arg[1]} |-> old[tag]]
                                       ELSE Entered(old, arg)
        /\ call.op = "get" =>
             call.ret = <<arg \in DOMAIN old, IF arg \in DOMAIN old THEN old[arg] ELSE NoValue>>
        /\ call.op = "read" =>
             new = [tag \in {line[1] : line \in ToSet(arg)} \cap call.args[2] |-> first(arg, tag)[2]]
        /\ call.op = "compare" =>
             \/ call.ret = (old # MapOf(arg))
             \/ /\ ~(obj.sorted /\ arg.sorted) /\ ~call.ret
                /\ \E tag \in DOMAIN old \ DOMAIN MapOf(arg) : old[tag] = NoValue
=============================================================================
