------------------------------ MODULE IpList -------------------------------
(***************************************************************************)
(* The string lists ("IP lists") of testCases/taglist/iplist.c and the     *)
(* arrays of them, link lists.  An operation is a function of its          *)
(* arguments.  Of a string matters its place in the order of strcmp,       *)
(* whether it is the empty one, what strtol reads in it, and where         *)
(* separators and blanks cut it.  A text is the sequence of the tokens     *)
(* between its separators, without the blanks around them; the text of a   *)
(* link list is the sequence of the words between its blanks, each with    *)
(* the number that sscanf reads before a colon and the tokens behind it.   *)
(* The separator is not a blank, and no token or word is too long for the  *)
(* buffer it is read into (8191 characters).                               *)
(***************************************************************************)
EXTENDS NumList

CONSTANTS
  Strings,
  Empty,        \* the empty string
  Rank,         \* its place in the order of strcmp, of every string
  Strtol,       \* what strtol reads in it
  Itoa,         \* the string itoa writes, of every number a list may hold
  Pieces,       \* the tokens of a string that is read as a text
  LinkWords,    \* the words of a string in the text of a link list, see below
  NoId,         \* the number of a word in which sscanf finds none
  LinkSize      \* the highest index of a link list

\* Strings that are one token when they are read, and those that are one word too.
Plain   == {s \in Strings : Pieces[s] = <<s>>}
OneWord == {s \in Strings : LinkWords[s] = << <<NoId, <<s>>>> >>}

ASSUME IpAssumption ==
  /\ Empty \in Strings
  /\ Rank \in [Strings -> Nat] /\ IsInjective(Rank)
  /\ Strtol \in [Strings -> Int]
  /\ DOMAIN Itoa \subseteq Nat
  /\ \A n \in DOMAIN Itoa : Itoa[n] \in Strings /\ Strtol[Itoa[n]] = n
  /\ 0 \in DOMAIN Itoa
  /\ LinkSize \in Nat
  /\ Pieces \in [Strings -> Seq(Plain) \ {<<>>}]
  /\ LinkWords \in [Strings -> Seq((Int \cup {NoId}) \X Seq(OneWord)) \ {<<>>}]
  /\ Empty \in Plain \cap OneWord
  /\ NoId \notin Int

exist_iplist(list, ip) == exist_pos(list.item, ip, 0) # 0

insert_iplist(list, ip) ==
  IF list.multiple \/ ~exist_iplist(list, ip)
    THEN [list EXCEPT !.item = Append(@, ip)] ELSE list

\* Deprecated: the list allows multiple entries from here on.
append_iplist(list, ip) == List(Append(list.item, ip), TRUE)

remove_iplist(list, ip) ==
  [list EXCEPT !.item =
     IF list.multiple THEN Dropping(@, {ip})
     ELSE IF exist_iplist(list, ip) THEN RemoveAt(@, exist_pos(@, ip, 0))
     ELSE @]

union_iplist(list, transient) == FoldLeft(insert_iplist, list, transient.item)

yinyan_iplist(list, transient, yin) ==
  [list EXCEPT !.item =
     Dropping(@, {x \in ToSet(@) : exist_iplist(transient, x) # yin})]

intersect_iplist(list, transient) == yinyan_iplist(list, transient, TRUE)
except_iplist(list, transient) == yinyan_iplist(list, transient, FALSE)

remove_iplist_at_pos(items, pos) == IF pos \in DOMAIN items THEN RemoveAt(items, pos) ELSE items

\* From the last item to the second: the place where an equal one precedes it is
\* taken for a truth value.  As a C index, only the first place is false, and
\* "not found", -1, is true.
unique_iplist(list) ==
  LET Drop(i, items) == IF exist_pos(items, items[i], i - 1) # 1
                          THEN remove_iplist_at_pos(items, i) ELSE items
      below == [k \in 1 .. Len(list.item) - 1 |-> k + 1]
  IN  IF list.multiple
        THEN [list EXCEPT !.item = FoldRight(Drop, below, list.item)] ELSE list

set_iplist_multiple(list, multiple) ==
  IF multiple = list.multiple
    THEN list
    ELSE List(IF multiple THEN list.item ELSE unique_iplist(list).item, multiple)

sort_iplist(list) == [list EXCEPT !.item = SortedBy(@, Rank)]
sort_iplist_reverse(list) == [list EXCEPT !.item = SortedBy(@, [s \in Strings |-> -Rank[s]])]

-----------------------------------------------------------------------------
\* A mutant: a last empty token never counts.
create_tokens_NoLast(tokens, multiple, parse_empty) ==
  LET Add(list, i) ==
        IF tokens[i] # Empty \/ (parse_empty /\ i < Len(tokens))
          THEN insert_iplist(list, tokens[i]) ELSE list
  IN  FoldLeft(Add, List(<<>>, multiple), [i \in DOMAIN tokens |-> i])

\* __create_iplist.  An empty token counts only where empty ones are kept, and
\* there only before a separator or after a token that counted.
create_tokens(tokens, multiple, parse_empty) ==
  LET Add(list, i) ==
        IF \/ tokens[i] # Empty
           \/ parse_empty /\ (i < Len(tokens) \/ list.item # <<>>)
          THEN insert_iplist(list, tokens[i]) ELSE list
  IN  FoldLeft(Add, List(<<>>, multiple), [i \in DOMAIN tokens |-> i])

create_iplist(tokens) == create_tokens(tokens, FALSE, FALSE)
create_iplist_multiple(tokens) == create_tokens(tokens, TRUE, TRUE)

\* The tokens of the text.  If the only item is the empty string there is no text.
serialize_iplist(list) ==
  IF list.item = <<Empty>> THEN <<>>
  ELSE FlattenSeq([i \in DOMAIN list.item |-> Pieces[list.item[i]]])

create_iplist_from_numlist(numlist) ==
  FoldLeft(insert_iplist, List(<<>>, numlist.multiple),
           [i \in DOMAIN numlist.item |-> Itoa[numlist.item[i]]])

\* Strings that do not start with a number are left out, "0" is one.
create_numlist_from_iplist(list) ==
  LET numeric(s) == Strtol[s] > 0 \/ s = Itoa[0]
      read       == Dropping(list.item, {s \in Strings : ~numeric(s)})
      nums       == [i \in DOMAIN read |-> Strtol[read[i]]]
  IN  List(IF list.multiple THEN nums ELSE Deduplicated(nums), list.multiple)

-----------------------------------------------------------------------------
(* Link lists: a list for every index.                                     *)

LinkIds == 0 .. LinkSize

\* Two blanks together have the blank word between them.  Another word that is not a
\* number, a colon and at least one character is where sscanf stops.
Blank == <<NoId, <<Empty>>>>
Broken(word) == word # Blank /\ (word[1] = NoId \/ word[2] \in {<<>>, <<Empty>>})

\* What is read of a text ends before the first broken word.  A later word replaces an
\* earlier one with the same number, numbers that are out of range are ignored.
create_linkiplist(words) ==
  LET read == [i \in DOMAIN words |->
                 IF \E j \in 1 .. i : Broken(words[j]) THEN Blank ELSE words[i]]
  IN  FoldLeft(LAMBDA link, word :
                 IF word[1] \in LinkIds
                   THEN [link EXCEPT ![word[1]] = create_iplist(word[2])] ELSE link,
               [id \in LinkIds |-> List(<<>>, FALSE)], read)

insert_linkiplist(link, id, ip) == [link EXCEPT ![id] = insert_iplist(@, ip)]
remove_linkiplist(link, id, ip) == [link EXCEPT ![id] = remove_iplist(@, ip)]

\* A mutant: the new list allows multiple entries.
clear_linkiplist_Multiple(link, id) == [link EXCEPT ![id] = List(<<>>, TRUE)]

clear_linkiplist(link, id) == [link EXCEPT ![id] = List(<<>>, FALSE)]

\* A string follows others, with a separator or, if it is the first, right behind the
\* colon: its first word goes on where the last one ended.
Joined(words, s) ==
  LET last == Last(words)
  IN  Front(words) \o << <<last[1], last[2] \o LinkWords[s][1][2]>> >> \o Tail(LinkWords[s])

LinkText(id, strings) == FoldLeft(Joined, << <<id, <<>>>> >>, strings)

\* Lists whose text is empty are left out.
serialize_linkiplist(link) ==
  LET ids == Dropping([i \in 1 .. LinkSize + 1 |-> i - 1],
                      {id \in LinkIds : serialize_iplist(link[id]) = <<>>})
  IN  FlattenSeq([i \in DOMAIN ids |-> LinkText(ids[i], link[ids[i]].item)])
=============================================================================
