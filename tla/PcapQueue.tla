------------------------------ MODULE PcapQueue ------------------------------
(***************************************************************************)
(* The queues of captured packets in shared memory: testCases/             *)
(* shared_memory/writer2_common.c, and writer2.c, which fills the free     *)
(* queue.  Free, allocated and send queue are three lists threaded through *)
(* one table by the next index of its entries.                             *)
(*                                                                         *)
(* PcapSHMLock is an empty macro and a node is moved by three calls, Get,  *)
(* Remove and Add, so nothing but the discipline of the callers keeps the  *)
(* lists whole.  The discipline modelled is the weakest that does: every   *)
(* queue has one mover that takes nodes from it; any number may add to it. *)
(* A call is one action: this is one process whose activities interleave   *)
(* between their calls, or several once the macro locks something.         *)
(***************************************************************************)
EXTENDS Integers, Sequences, FiniteSets, SequencesExt

CONSTANTS
  MaxNodes,   \* PCAP_PACKET_QUEUE_MAX
  Queues,     \* free_queue, allocated_queue and send_queue
  Free,       \* the one writer2 fills
  Movers,     \* the processes that move nodes
  From, To    \* the queues each of them takes from and adds to

ASSUME PcapAssumption ==
  /\ MaxNodes \in Nat
  /\ Free \in Queues
  /\ From \in [Movers -> Queues] /\ To \in [Movers -> Queues]
  /\ \A m, n \in Movers : From[m] = From[n] => m = n

VARIABLES
  next,      \* entryTable[i].next
  first,     \* the headers of the queues
  end,
  count,
  filled,    \* how many nodes writer2 has put on the free queue
  pc,        \* the call each mover makes next
  got,       \* the index it got, None before that
  content    \* the nodes of each queue, in order (history)

header == <<first, end, count>>
vars == <<next, header, filled, pc, got, content>>

Nodes == 0 .. MaxNodes - 1
Nil   == -1        \* the -1 of the program
None  == MaxNodes

Init ==
  /\ next = [i \in Nodes |-> Nil]
  /\ first = [q \in Queues |-> Nil]
  /\ end = [q \in Queues |-> Nil]
  /\ count = [q \in Queues |-> 0]
  /\ filled = 0
  /\ pc = [m \in Movers |-> "get"]
  /\ got = [m \in Movers |-> None]
  /\ content = [q \in Queues |-> <<>>]

-----------------------------------------------------------------------------
\* The next index of the last node is set, that of the new one is left alone.
Thread_NoEnd(q, n) ==
  next' = IF end[q] # Nil THEN [next EXCEPT ![end[q]] = n] ELSE next

Thread(q, n) ==
  next' = [(IF end[q] # Nil THEN [next EXCEPT ![end[q]] = n] ELSE next) EXCEPT ![n] = Nil]

\* The three *NodeAdd functions.
NodeAdd(q, n) ==
  /\ first' = IF first[q] = Nil THEN [first EXCEPT ![q] = n] ELSE first
  /\ Thread(q, n)
  /\ end' = [end EXCEPT ![q] = n]
  /\ count' = [count EXCEPT ![q] = @ + 1]
  /\ content' = [content EXCEPT ![q] = Append(@, n)]

\* The end of the queue is not reset with its first.
Unend_Never(q, n) == UNCHANGED end

Unend(q, n) == end' = IF end[q] = n THEN [end EXCEPT ![q] = Nil] ELSE end

\* The three *NodeRemove functions: nothing is removed if n is not the first.
NodeRemove(q, n) ==
  IF first[q] = n
  THEN /\ first' = [first EXCEPT ![q] = next[n]]
       /\ Unend(q, n)
       /\ count' = [count EXCEPT ![q] = @ - 1]
       /\ content' = [content EXCEPT ![q] = Tail(@)]
  ELSE UNCHANGED <<header, content>>

\* The loop of writer2's main.
Fill_OneMore ==
  /\ filled <= MaxNodes
  /\ NodeAdd(Free, filled)
  /\ filled' = filled + 1
  /\ UNCHANGED <<pc, got>>

Fill ==
  /\ filled < MaxNodes
  /\ NodeAdd(Free, filled)
  /\ filled' = filled + 1
  /\ UNCHANGED <<pc, got>>

\* The node that the three *NodeGet functions return.
Offered_Newest(q) == end[q]

Offered(q) == first[q]

\* A queue with one node counts as empty.
Available_NotLast(q) == first[q] # end[q]

Available(q) == first[q] # Nil

\* A mover tries until the queue it takes from has a node.
GetNode(m) ==
  /\ pc[m] = "get" /\ Available(From[m])
  /\ got' = [got EXCEPT ![m] = Offered(From[m])]
  /\ pc' = [pc EXCEPT ![m] = "remove"]
  /\ UNCHANGED <<next, header, filled, content>>

\* The test for an empty queue follows the removal.
RemoveNode_TestAfter(m) ==
  /\ pc[m] = "remove"
  /\ NodeRemove(From[m], got[m])
  /\ pc' = [pc EXCEPT ![m] = IF end'[From[m]] = Nil THEN "get" ELSE "add"]
  /\ UNCHANGED <<next, filled, got>>

\* *NodeRemove fails on an empty queue only; it returns SUCCESS, and the mover
\* goes on to add its node, also if the node was not the first.
RemoveNode(m) ==
  /\ pc[m] = "remove"
  /\ NodeRemove(From[m], got[m])
  /\ pc' = [pc EXCEPT ![m] = IF end[From[m]] = Nil THEN "get" ELSE "add"]
  /\ UNCHANGED <<next, filled, got>>

AddNode(m) ==
  /\ pc[m] = "add"
  /\ NodeAdd(To[m], got[m])
  /\ got' = [got EXCEPT ![m] = None]
  /\ pc' = [pc EXCEPT ![m] = "get"]
  /\ UNCHANGED filled

Next == Fill \/ \E m \in Movers : GetNode(m) \/ RemoveNode(m) \/ AddNode(m)

Spec == Init /\ [][Next]_vars

\* Every process runs: a mover that finds a node takes it along.
FairSpec ==
  Spec /\ \A m \in Movers : WF_vars(GetNode(m) \/ RemoveNode(m) \/ AddNode(m))

-----------------------------------------------------------------------------
(* Properties                                                              *)

\* Every variable has its type, and a mover holds a node from Get to Add.
TypeOK ==
  /\ next \in [Nodes -> Nodes \cup {Nil}]
  /\ first \in [Queues -> Nodes \cup {Nil}]
  /\ end \in [Queues -> Nodes \cup {Nil}]
  /\ count \in [Queues -> Nat]
  /\ filled \in 0 .. MaxNodes
  /\ pc \in [Movers -> {"get", "remove", "add"}]
  /\ got \in [Movers -> Nodes \cup {None}]
  /\ content \in [Queues -> Seq(Nodes)]
  /\ \A m \in Movers : pc[m] # "get" => got[m] \in Nodes

\* The header and the next indices of every queue describe one list, the nodes
\* in the order they were added, however the calls of the movers interleave.
Linked ==
  \A q \in Queues :
    LET c == content[q]
    IN  /\ count[q] = Len(c)
        /\ first[q] = IF c = <<>> THEN Nil ELSE c[1]
        /\ end[q] = IF c = <<>> THEN Nil ELSE c[Len(c)]
        /\ \A i \in DOMAIN c : next[c[i]] = IF i < Len(c) THEN c[i + 1] ELSE Nil

\* No packet is in two places: no node is in two queues, or twice in one, or
\* both in a queue and between the Remove and the Add of a mover.
OnePlace ==
  /\ \A q, r \in Queues : \A i \in DOMAIN content[q], j \in DOMAIN content[r] :
       content[q][i] = content[r][j] => q = r /\ i = j
  /\ \A m \in Movers : pc[m] = "add" =>
       /\ \A q \in Queues : \A i \in DOMAIN content[q] : content[q][i] # got[m]
       /\ \A n \in Movers : pc[n] = "add" /\ got[n] = got[m] => m = n
  /\ \A q \in Queues : \A i \in DOMAIN content[q] : content[q][i] < filled
  /\ \A m \in Movers : pc[m] = "add" => got[m] < filled

\* The node a mover got is still the first when it removes it: so the branch
\* of *NodeRemove that removes nothing and reports SUCCESS (lines 63-68) is not
\* taken, although other movers add to and take from the lists in between.
RemoveFindsFirst ==
  \A m \in Movers : pc[m] = "remove" => first[From[m]] = got[m]

\* The inductive invariant.
IInv == TypeOK /\ Linked /\ OnePlace /\ RemoveFindsFirst

\* No node is ever lost: what writer2 put in is in a queue or on its way.
NothingLost ==
  \A n \in 0 .. filled - 1 :
    \/ \E q \in Queues : n \in ToSet(content[q])
    \/ \E m \in Movers : pc[m] = "add" /\ got[m] = n

\* No packet waits for ever: a node leaves any queue that has a mover, although
\* others keep being added behind it.
NodeMovesOn ==
  \A m \in Movers, n \in Nodes :
    n \in ToSet(content[From[m]]) ~> n \notin ToSet(content[From[m]])
=============================================================================
