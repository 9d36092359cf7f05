# TLA+ models and proofs of test_git_project

The repository is a collection of small C programs under `testCases/`, most of
them the test bed of a library used elsewhere. This directory holds TLA+ models
of the ones that have concurrency, re-entrancy or shared structures of their
own, TLC configurations that check them on small instances, and TLAPS proofs of
their most important invariants for every value of the constants.

Run `tlc -config X.cfg M` for a row of the table of runs and `tlapm M.tla` for a
module whose name ends in `Proofs` (or `SequenceFacts`).

## 1. Inventory

| Part (under `testCases/`) | State | Operations | What is hard | Status |
|---|---|---|---|---|
| `timer (wtp)/wtp_timerlib.c` | sorted queue of timers, one interval timer, pending SIGALRM | `timer_init`, `timer_add`, `timer_rem`, `timer_destroy`, the ticker thread | two stretches in which the ticker has no lock, stale signals, time arithmetic, cancellation | modelled |
| `timer (cwmpc)/event.c`, timers and listeners | timer queue, listener list, select sets | `setTimer`, `stopTimer`, `stopAllTimers`, `stepTime`, `setListenerType`, `stopListener`, `closeAllFds`, `eventLoop` | handlers change the lists the loop walks; a clock put together from two | modelled |
| `timer (cwmpc)/event.c`, callbacks | tables of targets, callbacks, active targets; scheduled targets | `setCallback`, `stopCallback`, `notifyCallbacks`, `notifyCallbacksAndWait`, the dispatch | re-entrant dispatch, deferred deletion, fixed tables | modelled |
| `shared_memory/writer2*` | three index-linked queues in one shared table | Get, Add and Remove of a node per queue | three calls per move, empty locks, several processes | partly |
| `taglist/numlist.c`, `ddm.h` | growing array of numbers, with or without repetitions | create, insert (at the end, at a place), remove, union, intersect, except, unique, sort, reorder, free number, text | in-place loops, a map of bits that decides what is a duplicate, boundaries | modelled |
| `taglist/iplist.c` | growing array of strings; link lists, an array of them | the same, and conversion to and from numbers | the same | modelled |
| `taglist/taglist.c` | list of tagged lines, its timestamps, its file and temporary files | change, search, sort, compare; load, reload, save in three modes | several processes without a lock, reload by mtime, save by rename, failing calls, kills | modelled |
| `dns_lookup3/dns_query.c` | name servers, the user's server, query, socket, answer | two lookups with retries, over UDP and TCP; encode and decode | silence, errors, cut answers, state left from the attempt before, compressed names | partly |
| `file-lock(flock)` | a file and its lock | lock, truncate, write; readers started by the writer | blocking while holding a lock | not modelled |
| `callFreqency/main.c` | ring of call times | count calls in a window | growth of the ring | not modelled |
| `sigsuspend_sigwait/main.c` | signal masks of parent and child | signal, wait | signal before wait | not modelled |
| `shared_memory/writer.c`, `reader.c`, `dns_lookup`, `dns_lookup2`, `dns_lookup4`, `file-lock(fcntl)`, `file-lock(lockf)`, `popen`, `testCfunc`, `test_libubox`, `traceroute6_parsing` | none that outlives a call | one system or library call each, or text parsing | nothing to interleave | not modelled |
| `parameter_tree1`, `parameter_tree2` | static tables | lookup by path | data only; the second lacks headers and does not build | not modelled |
| `uClibc-*` | - | archives of a third-party library, build notes | - | not modelled |

Where the parts meet: the programs are separate and share no state, except that
tag lists, string lists and number lists are one library: a string list is made of a
number list and back, and `taglist.c` uses the growing arrays of the others. Inside
`event.c` the callbacks use one timer of the loop (`callbackTimer`), and
handlers, listeners and callbacks all call the public functions. In the wtp
library the calling threads, the ticker and the kernel's interval timer share
the queue (under a mutex), the alarm and the pending signal (under none).

What makes each part correct:

- wtp: a removed timer never fires, none fires twice, handlers run one at a time
  in order of timeout; an argument is freed or handed over once; the ticker never
  reads a freed timer and never sleeps on work; every timer leaves the queue.
- event loop: the queue is sorted whatever is set, stopped or stepped; timers are
  displaced by a bounded amount; no ready descriptor is overlooked.
- callbacks: every table entry is in one list; the dispatcher stands on a linked
  entry; a stopped callback is dead; notifications are served once, in order; a
  dispatch ends.
- number, string and link lists: an operation does to the members what its header
  says of sets, to the order what it says of sequences, and repetitions appear
  only where they are allowed; a text is read back as its list wherever the text determines it.
- tag lists: a map, whether kept in order or not. Their file: always a complete
  list; what a save reports is what it did; a reload never takes a changed file for
  unchanged; no temporary file stays without a cause.
- DNS: the right servers are asked in turn for the right name, over TCP with the
  right length; what the lookup opens and allocates it gives back; what is
  reported is what the server has.
- packet queues: header and indices describe one list; no node is lost or in two
  places; `Remove` finds what `Get` returned; no packet waits for ever.

## 2. The modules

| Module | Models | Rests on |
|---|---|---|
| `TimerService` | what `wtp_timerlib.h` promises a caller | - |
| `WtpTimer` | `timer_add`, `timer_rem`, `cronometer` and the kernel | refines `TimerService` |
| `WtpLifecycle` | `timer_init`, `timer_destroy` and thread cancellation | extends `WtpTimer` |
| `EventLoop` | timers, listeners, `gettime`, `eventLoop` | - |
| `NotifyQueue` | what `notifyCallbacks` promises | - |
| `EventCallbacks` | callbacks, notification, dispatch, sweep | refines `NotifyQueue` |
| `PcapQueue` | the queue functions of `writer2_common.c`, `writer2`'s set-up, processes that move nodes | - |
| `NumList` | `numlist.c` and `ddm.h`, an operator per function | - |
| `IpList` | `iplist.c`: string lists and link lists | extends `NumList` |
| `TagList` | `taglist.c` in memory | - |
| `Lists` | a program that calls all of these in any order | extends `IpList`, `TagList` |
| `TagStore` | processes that load, reload, change and save one file | extends `TagList` |
| `DnsMessage` | messages and names, octet by octet | - |
| `DnsQuery` | the lookups of `main`, and the name servers as their environment | extends `DnsMessage` |
| `SeqDrop` | the loop that unlinks entries from a list | used by `EventLoop`, `EventCallbacks`, `NumList` and `DnsMessage` |
| `SeqSort` | what `qsort` leaves of an array | used by `NumList`, `IpList` and `TagList` |
| `SequenceFacts` | lemmas on least and greatest elements, sequences, folds, sorting and `Dropping` | - |
| `WtpTimerProofs`, `PcapQueueProofs`, `TagStoreProofs`, `EventLoopProofs`, `EventCallbacksProofs`, `DnsQueryProofs`, `ListsProofs` | theorems and proofs | the module named |
| `MC*` | constants for TLC | the module named |

Operators whose names carry a suffix after the name of the definition that
follows them (`Position_EqualFirst` before `Position`) are deliberate errors:
putting one in the place of the definition must break the property named with it
in `PROJECT.json`, which shows that the property depends on the code it is about.

### WtpTimer

The mutex makes each critical section one action. `queue` is the linked list by
ids; `timeout`, `in_use`, `cancelled` and `handler_arg` are the fields of
`struct timer`; `alarm` and `sigalrm` are ITIMER_REAL and the pending signal,
which `setitimer` does not withdraw. `ticker` says where `cronometer` is:

| `ticker` | code |
|---|---|
| `lock` | before line 178 |
| `cond_wait` | in `pthread_cond_wait`, line 181 |
| `sigwait` | line 189, the head armed and active, no lock held |
| `relock` | between `sigwait` and line 203 |
| `handler` | in `hdl`, line 225, no lock held |

`timer_add` and `timer_rem` can happen in any of them; a handler is one more
thread as far as the queue is concerned. `removed` and `handed` are history. A
call that fails (bad arguments, no memory) changes nothing and is left out.
Time is a number of ticks; `UsecPerSec` says how many make a second, so that
`TV_MINUS` is modelled with its borrow. `lag` in `timer_add` is the time that
passes between its reading of the clock and that of `timer_start`. A spurious return
of `pthread_cond_wait` only makes the loop test the queue again and is left out.

### WtpLifecycle

Adds the main thread, the owner of the mutex (only main in `timer_init` and a
cancelled ticker keep it from one step to the next), cancellation at the
cancellation points, and whether the ticker has read a freed timer. It exists for
one documented promise that does not hold (section 5).

### EventLoop

`pc` is the place in `eventLoop`; user code may call every public function when
`pc` is `outside`, `timer` or `listener`, that is before the loop or in a
handler. `select` reports any subset of the bits of the descriptors it was given;
`res` counts bits, as the kernel does, while the loop counts descriptors. The
uptime is `uptime`, the wall clock's fraction of a second is ahead by `skew`;
`gettime` pairs the one's seconds with the other's fraction. `due` and `moved` are
history: when a timer is due by the uptime, and whether the clock was set since.

### EventCallbacks

`frames` is the C stack of dispatches: for each the targets still to serve, the
`Callback` that `callCallbacks` stands on and whether its function runs. Between
`Call` and `Return` the function makes up to `MaxCalls` calls of the library,
among them `notifyCallbacksAndWait`, which pushes a frame. Entries are slots of a
table; `Succ` is the next pointer of an entry in whatever list it is linked into
at that moment, which is what line 450 reads. Deletion marks, `Served` sweeps.

### PcapQueue

The nine functions are three, applied to one of `Queues`. The calls are atomic,
although `PcapSHMLock` is an empty macro: the model is right for one process
that interleaves several activities between its calls, or for processes once the
macro is filled in. Nothing in the repository but `writer2` calls the
functions; the movers are reconstructed from the interface (`Get`, `Remove`, then
`Add` elsewhere) under the one discipline that the interface needs: a queue has
one mover that takes from it (`PcapAssumption`). `content` is history.

### NumList, IpList, TagList and Lists

These libraries are sequential; what is hard in them is what a loop that works in
place does at its ends, and long sequences of legal calls. Every function is an operator
of its arguments: the loop as a fold where it carries something along (the map
of bits, the list so far), as a set or sequence expression where it does not.
`Lists` holds one list (`obj`, of the library `kind`) and calls anything with any
argument; `call` keeps the last call, the list before it and what it returned, until
`Return`. The properties compare the two, in the words of the headers: sets
for `insert`, `remove`, `union`, `intersect`, `except`; positions for `reorder` and
`insert_at`; maps for tag lists.

`DdmBits` is the map of `ddm.h`: a number has a slot and a bit in it, but the constant
that is shifted is an `int`, so bit 31 stands for all above it and higher shifts come
round. `OwnBit` says which numbers escape that, and the properties say what happens to
the others. `resultz` is the size of the buffer that `serialize_numlist` fills, and
what does not fit is cut, as the code would. Memory is always granted.

The text of a number or string list is the sequence of its tokens, which is not the list:
a string that holds separators makes several tokens, and blanks around a token are lost
(`Pieces`; `Plain` are the strings that are one token). The text of a link list is the
sequence of its words, each with the number `sscanf` reads before the colon, or `NoId`
(`LinkWords`; `OneWord` are the strings without separator and blank). `create_linkiplist` stops
for good at the first word that is not a number, a colon and something (`Broken`,
iplist.c:476-478), so one string with a blank can cost all links behind it.

### TagStore

A step is a system call with the computation that follows it:

| `pc` | code |
|---|---|
| `time`, `open`, `read` | `reload_taglist` after `stat`; then `fopen` and the loop over lines |
| `try` | a turn of the loops of `save_taglist_ex` |
| `write`, `rename`, `unlink` | `__save_taglist_atomic` after `mkstemp`: dump with `fclose`, `rename`, the way out |
| `overwrite` | `__save_taglist_quick` after `fopen` has cut the file |
| `done` | `save_taglist_ex` returns `is_success` |

`disk` maps inodes to contents, `file` is the one with the name, `tmp` and `fd` are those
of a process. An inode without name or descriptor is gone (`Settle`). Every call
but the reading of an open file can fail: `stat`, `fopen`, `mkstemp`, `fdopen`, the dump, `rename` and
`unlink`. A dump can stop short with or without
`fprintf` noticing (the rest of the buffer is written by `fclose`, whose result is
ignored). An `fdopen` or `unlink` that fails leaves the temporary file behind; `left` counts
these, bounded by `MaxLeft`. `Kill` stops a saver between any two steps or in the middle of a dump, and
starts it again with an empty list. `of`, `harm` and `late` of an inode, `stat.lines`,
`mem.base` and `did` (by what a save changed the file, with which lines, and whether `fclose` lost
some) are history. The clock counts seconds, as `time` and
`st_mtime` do, and is not set back. A reader's loop over the lines is one step; lines
that hold no item are left out.

Mode quick is what the code makes of it: it falls into the `default` of the first `switch`, tries
`__save_taglist_atomic` up to `max_retry` times, and finds no try left for the loop
at line 572. So it never overwrites, and does the same as mode atomic. Only mode auto, whose
count is set anew (line 569), falls back on overwriting.

### DnsMessage and DnsQuery

`DnsMessage` writes and reads messages as the program does, with its offsets: header,
names with labels and pointers, questions, records. Sizes are parameters. `parse_reply` reports
the records of which something is printed (`Shown`): it says nothing of a type that is not in its
switch, nor of an empty text, and stops with -1, which `nslookup_ipv4` and `nslookup_ipv6` ignore,
at a record of the wrong length. libc's `ns_parserr` and `ns_name_uncompress` are taken to find
the records and the names in their data.
`DnsQuery` is `main`: two lookups, each `__dns_lookup` over UDP and, if the answer was
cut, `res_query_tcp`. `pc` is the place in an attempt (`try`, `send`, `poll`, `body`). Every
call can fail or time out (`CannotConnect`, `NoAnswer`), which leaves through the same
code (`NextServer`). Name servers are external: they send, or do not send, a well-formed
answer, an error, an answer to another query, or (over UDP) one that was cut. `tried`,
`announced`, `reread`, `records` and `closed` are history.

Both branches of the `#if` of `main` are in `Plans`: `gethostbyname2` and
`nslookup_ipv4`/`nslookup_ipv6`.

## 3. What the runs check

| Run | Question | Answer |
|---|---|---|
| `WtpTimer_safety` | is `IInv` invariant, does the library implement `TimerService`? | yes |
| `WtpTimer_live` | does every timer leave the queue? | yes, away from full seconds |
| `WtpTimer_boundary` | is every timer served also across a full second? | **no** |
| `WtpLifecycle_destroy` | is nothing read after `timer_destroy` freed it? | **no** |
| `EventCallbacks_nested` | do the tables stay whole, are stops effective, notifications in order, with nested dispatches? | yes |
| `EventCallbacks_flat` | without nesting: does the dispatcher stay on linked entries, does a dispatch end? | yes |
| `EventCallbacks_freed` | with nesting: does the dispatcher stay on linked entries, if a callback is stopped by the dispatch that it started? | **no** |
| `EventLoop_safety` | sorted queue, bounded displacement, all ready descriptors served? | yes |
| `PcapQueue_pipeline` | lists whole, nothing lost or doubled, no packet stuck? | yes, with one taker for each queue |
| `Lists_calls` | does every call do what its header says, after any calls before it? | yes, with the exceptions below |
| `TagStore_saves` | file whole, saves reported truly, reloads complete, no temporary file left that could be removed, whatever fails? | yes, with the exceptions below |
| `Dns_query` | right server, right query, nothing leaked, answer reported? | yes, with the exceptions below |

Three of the answers are "yes" only because the property spells out where the code
departs from its header or comment; section 5 lists those places. Each exception is as
narrow as TLC allows: without it the run finds a counterexample.

### Bounds and why they are enough

- `WtpTimer`: three timers give every insertion (empty queue, new head, middle,
  end), a cancelled head with timers behind it, and a head that is replaced while
  its signal is pending. Delays 1 and 3, a lag of 2 and a horizon of 5 give ties,
  timeouts that pass inside `timer_add`, and (with three ticks to a second) both
  branches of `TV_MINUS`. Ids are bounded by `MaxTimers`, the clock and the
  timeouts by `Horizon`. `WtpTimer_live` has 100 ticks in a second, so no second
  ends within its horizon; `WtpTimer_boundary` is the same question with two.
- `WtpLifecycle`: one timer; the finding is about two threads and one of it.
- `EventCallbacks`: two targets, two callbacks and three entries, so that the
  table can be exhausted, an entry be reused for another target, and one callback be in
  a list dead and alive; two active targets; two nested dispatches; two calls per
  callback (stop and notify, stop and set). Depth 1 is the program that never calls
  `notifyCallbacksAndWait` from a callback.
- `EventLoop`: three timers and three descriptors with up to two bits each on tables
  of two entries, so that both orders and a full table occur; delays 0 and 3 of two
  ticks per second; a horizon of two seconds. Timers and descriptors are alike
  (SYMMETRY; the properties of the run are invariants and action properties).
- `PcapQueue`: four nodes, so that a queue can be empty, hold one node, or more,
  while each of three movers holds one; the proof has no bound.
- `Lists`: number lists of up to four numbers, string lists of up to three strings,
  arguments of up to two, texts of up to three tokens; among the strings of which lists are made
  one with a separator and one with a blank and a colon, which is a broken word and a good one in the text of a
  link list; a map of three slots with
  four bits and an `int` of two bits, so that among the numbers 0, 1, 2, 6 and 12
  two share a bit and one is not covered. A list of four has a first, a last and two
  inner places, which is what the loops distinguish. Four tags give binary search three
  levels.
- `TagStore`: two savers and a reader, one tag (what is compared is the whole list),
  two saves, one kill, two temporary files left behind by failing calls, two seconds,
  two attempts by renaming in mode quick, one by renaming and one by overwriting in mode auto
  (atomic does what quick does). The file does not exist at first. Two saves are what it takes
  for a file to change twice within the second in which it is read. Six inodes are enough: the
  file, the temporary ones of the savers, one that is still open and those left
  behind. Savers are alike (SYMMETRY; all
  properties are invariants). The proofs have no bound.
- `DnsQuery`: labels of up to three octets, packets and names of up to 48, so that a name can
  have a label that is too long, a name can fail to fit, and an answer can be cut; lists of two
  addresses, so that an answer can fill one; answers with up to seven records of four
  types, one with a type that is not printed and an empty text, and ones that end at a wrong length; resolv.conf with up to three servers, an invalid one, none, or not readable; two attempts as
  in the program.

`CHECK_DEADLOCK FALSE` stands where callers may stop calling, bounded clocks
run out, or `main` ends. `PcapQueue` and `Lists` are checked
for deadlock: there is always something to do.

### Fairness

`WtpTimer!FairSpec`: weak fairness of the ticker, of handlers returning, of the
clock and of the delivery of an alarm that is due: what a preemptive scheduler and
the kernel give. None on `timer_add` and `timer_rem`. `EventCallbacks!FairSpec`:
weak fairness of the dispatch, a loop in one thread, whose callbacks return after
at most `MaxCalls` calls. `PcapQueue!FairSpec`: weak fairness of each mover, which
polls its queue. The other specifications state no fairness; only safety is
asked of them.

## 4. What is proved

`WtpTimerProofs`, for any number of timers, any length of a second, any delays and
lags (`WtpAssumption`: naturals, delays positive because `timer_add` refuses the
others):

- `Invariance`: `Spec => []IInv`, and from it `TypeCorrect`, `QueueSorted`,
  `HeadStays`, `WakeupReaches`, `NoDoubleFree`, `MarksAreRight`. No part
  of `IInv` is inductive alone. That line 205 finds its head (`ActiveHead`)
  needs that `timer_rem` never unlinks an active timer; that an argument is handed
  out once needs that the argument of a queued timer was not (`Bookkeeping`) and that
  an id is queued once (`QueueOrder`); the order needs ids below `cur_id`.
- `Refinement`: `Spec => ServiceSpec`. The pending timers of the service are the
  queued ones not yet removed; a cancelled head that the ticker drops is a stutter;
  the head is the earliest by `QueueOrder`, and an uncancelled one is not removed
  by `Bookkeeping`.
- `MinusShort`: `TV_MINUS` is exact without a borrow and one short with it.

`PcapQueueProofs`, for any table and queues and any movers of which no two take from one
queue (`PcapAssumption`; with two takers the second may remove nothing and add a node that
is still linked, and none of this holds): `Invariance`, and from it `TypeCorrect`, `ListsStayWhole`,
`NodesInOnePlace`, `RemoveNeverMisses` and `NodesKept`. `Linked` is preserved by an append
only if the node is in no list (`OnePlace`), `OnePlace` by a removal only if the node
removed is the one held (`RemoveFindsFirst`), and that only because nobody else
takes from the queue. That no node is lost is inductive only together with these.

`TagStoreProofs`, for any readers and savers, any modes, numbers of tries and bounds, and
whatever the operations on lists do (nothing about them is used): `Invariance`, and
from it `TypeCorrect`, `FileWhole`, `ReportTrue` and `LitterBounded`. Two halves of
`IInv` are proved apart. `Account`, with the types of `pc`, `job`, `ok` and `did`, says
how far a save has come and needs nothing of the disk; `ReportTrue` follows from it. For
the file, `WholeFile` survives a rename only if what is renamed is whole (`Progress`),
which holds because the temporary file is that of one process alone (`Apart`), so that nobody
else's dump, truncation or kill can touch it; and `Apart` needs that an inode taken for a
new file is free, which is what `NoLitter` and `Settle` say of the disk. `LitterBounded`
counts: a kill, an `fdopen` that fails and an `unlink` that fails add to `litter`, one file each, and
nothing else does. `ReportTrue` rests on `Given`: what a save has put in place when it reports success is
the list it was called with, or `fclose` has lost some of it; this needs that what is
renamed is what was dumped (`Progress`), and that the list does not change while it is saved.

`NeverStale`, that `reload_taglist` takes no changed file for unchanged, rests on a second
invariant, `TimesInv`: what a process has noted (`Noted`) is not in the future, and if the time
of the file that it noted lies before that of its reading, then the file with that time still
has what it read (`Current`), unless it was renamed late. No step can break that afterwards
(`CurrentKept`): what is written gets the present time, which is past the one noted
(`Aging`), and only a rename can bring an older one, which `late` records. (A `stat` that fails
counts as time 0, an exception of its own.) That it is a
past second is what the comparison `fts # rts` is for.

`EventLoopProofs`, for any handlers, descriptors and table sizes, any delays and any
number of ticks in a second (`LoopAssumption`): `Invariance`, and from it `TypeCorrect`,
`QueueSorted`, `DisplacementBounded` and `ReadyServed`. That the queue is sorted is
inductive because `addMs` and `subTime` keep normal form up to a full fraction
(`SteppedFacts`) and `stepTime` moves all times alike, so it keeps their order
(`SteppedOrder`). The displacement needs more than the queue: `Displaced` says of every timer by
how much its place differs from its time by the uptime, which is what `gettime`, with the
seconds of one clock and the fraction of another, was ahead when it was set (`GettimeFacts`):
one of two amounts until the wall clock is set, and always less than a second. `FireTimer` reads that clock once
more, which is off by as little. `ReadyServed`
rests on `Counted`: the count of select is at least the number of descriptors left, because a
descriptor is counted once for every bit.

`EventCallbacksProofs`, for any targets and callbacks, any sizes of the tables, any number
of calls, and dispatches nested to any depth (`EventAssumption`): `Invariance`, and from it
`TypeCorrect`, `EntriesInOneList`, `StopEffective` and `ServedInOrder`, the refinement of
`NotifyQueue`. The invariant has two halves. Of the lists, `OnePlace` says that no entry is in two
places; a sweep keeps it because the swept entries are exactly those that leave their
lists. `LiveFirst` says that the live entry of a func and handle comes before the dead ones,
which is why it is enough that `stopCallback` marks the first; it needs that `setCallback`
links at the head, and `OnePlace`, lest a new entry is in another list under its old
name. Of the dispatches, `SomethingToServe` says that the timer is set only for targets and that every
dispatch has one. `Moves` classifies what a step does to the stack in six ways; the types
and the refinement both follow from that. `StandsWhenFlat` proves `StandsOnLinked` under the one
assumption that makes it true, `MaxDepth <= 1`; `EventCallbacks_freed` shows that it
is needed.

`DnsQueryProofs`, for any servers, names, plans and any contents of resolv.conf
(`QueryAssumption`, `MessageAssumption`): `Invariance`, and from it `TypeCorrect` (a socket is
open and a packet allocated exactly while an attempt is under way) and `AsksRight`. `Counted`
ties `idx` and `retry` to the attempts made so far, from which `InTurn` follows; `OnlyUser` says
that the list of servers is the user's one alone until the first lookup closes, and `LengthKept`
that `len` is the length of the query until one of an answer is read into it. The exception
in `LengthRight` (`reread`) is needed for exactly that. Nothing is used there of how a name or an
answer is coded, only that the result is a packet.

`ReportsRight` (`Spec => []Reports`) is the rest: what goes out and what comes back survive
`encode_dotted`, `decode_dotted` and the records. Its second invariant, `AnswerInv`, says that a packet
whose answer is awaited is the query for the name (`PacketKept`, which over TCP needs that the
attempts share one packet) and that a message whose header is right is the server's whole answer to it
(`MessageKept`). The coding is then treated in three layers. *Names*: `encode_dotted` leaves
`marks`, the places where a label begins; `Labelled` says that each mark's octet leads to the next
mark, `Spells` what stands between them (`NameCoded`). `decode_dotted` goes from mark to mark and collects the name
(`NameRead`, along the marks from the last back); behind a pointer to the question the place counts as
two octets (`NameDecoded`). *Messages*: `HeaderIs`, `AskedPacket` and `RecordIs` give the octets of what
is written; `ReplyIs` says where in an answer each record begins (`LaidOut`) and `ReplyRead` that decoding it
there gives the record and the length to the next. *Answers*: the loops of `gethostbyname2` and of
libc go over the records turn by turn (`AddrsRead`, `RowsRead`), and `parse_reply` labels those it shows
(`ShownRows`, `ReplyParsed`). `decode_dotted` is a function that follows pointers and need not end; that
such a function exists is proved (`LoopsExist`: it is a choice where its loop does not stop), and that it ends on
these messages is part of `NameRead`. Two assumptions are for this proof: a packet
is no longer than a decoded name may be (`PacketSize <= NameMax`, 512 and 1025 in the program), and types, counts and
lengths in an answer are numbers of two octets (`Word`), as they are fields of a message.

`ListsProofs`, for any numbers, strings and tags, lists up to any length and any sequence of
calls: `Invariance`, and from it `TypeCorrect`, `NeverTwice`, `RightMembers`, `RightPlace`,
`RightOrder`, `ReallyFree` and `RightMap`. The invariant has two parts: the list is one of
its kind (`Holds`: no repetitions where none are allowed, at most the one that `unique_iplist`
leaves in a string list, one item for a tag, in order if sorted), and the last call did what
the properties say (`Told`). The second is not inductive and need not be: each call follows
from what its function returns for *any* list that `Holds` and any argument. So
most of the module is one lemma per function of the libraries. A loop of the
code is a fold; `LeftRuns` and `RunKeeps` turn a fold into a run of turns, of which a lemma
proves what one turn keeps (`PassKeeps`: the map of bits holds a bit of every number that was
kept and is covered, so that no number is kept twice; `Unites`, `Sieves`, `UniqueTurn`
and so on). `reorder_numlist` is done in three steps, as the code does it: the fragment
that is on the list (`Chain`), the last reference that is not in it (`LastReference`), and what
the list is when the fragment is put there. Sorted tag lists need that `bsearch_pos` ends at
the place of the tag or where it belongs, which is proved of the function as it halves its
interval. `ListsAssumption` has three conjuncts for the proofs: an argument is shorter than the
greatest list (`MaxArg < MaxNumLen + MaxIpLen`, a bound of the model: the program has none), and
the numbers contain zero and all that the strings stand for, so that conversions stay in
the model.

`ReadBack` (`Spec => []RoundTrip`): with `IInv`, `RoundTrip` is inductive. It is proved per kind of text.
`serialize_numlist` writes a number only if it fits what is left of the buffer (`resultz`, the width of the
greatest number for each), so all get in (`Serializes`) because a smaller number is not wider
(`WidthsGrow`, an induction along the digits in the base). The parser keeps all of them if no two share a bit of the map
(`AllKept`, `NumbersReadBack`). The tokens of a text are taken up one by one where
repetitions are allowed (`TokensKept`), and otherwise all but the empty ones (`TokensSieved`). That gives the list
if the tokens are its strings. If they are not, the list that is read differs from the one that was
written, since all its strings are single tokens (`PlainText`): so `StringsReadBack` is an equivalence.
For links, the text is a run over the strings (`TextRuns`), which stand in it as they are if they are words of
their own (`TextAsIs`, `CleanLinksReadBack`), and are not read back otherwise (`LinksReadBack`). `NumbersComeBack` is the way over strings.

`SequenceFacts` states once what these modules need: the least and greatest of a set
of positions, what `InsertAt`, `RemoveAt` and `Dropping` return, that sorting a
sequence permutes it, that an injection needs as many places as it has values
(`Pigeonhole`), what a list with one repetition is (`OneToSpare`), how folds run, where
the parts of a flattened sequence are (`FlattenProps`), and when a function that calls itself exists (`LoopsExist`). A
recursive function has an induction
about a set of numbers (`UpTo`), as the prover cannot instantiate an induction theorem
about a predicate; invariants of folds and of loops are therefore sets of states, not predicates.

Only model-checked:

- liveness (`TimersLeave`, `DispatchEnds`, `NodeMovesOn`), which the prover cannot do
  under fairness.

Every invariant and every action property that a passing run checks is proved.

No module declares a RECURSIVE operator.

## 5. Findings

Checked by a run that TLC answers with a counterexample:

1. `WtpTimer_boundary`: `TV_MINUS` is a microsecond short after a borrow; one
   microsecond before a timeout on a full second it yields zero, which disarms the
   timer, and nothing fires any more until a new head arrives.
2. `WtpLifecycle_destroy`: `timer_destroy` cannot join the detached ticker and frees
   the queue under it.
3. `EventCallbacks_freed`: a callback calls `notifyCallbacksAndWait`, a callback of the nested
   dispatch stops it, and the sweep at the end of that dispatch frees the entry on which the
   outer one stands, which then follows its next pointer. A callback that stops itself before
   it calls `notifyCallbacksAndWait` is not swept there: `callback_deleted` is reset at line 481.

Written into a property as an exception, at the place named:

- `wtp_timerlib.c:189` (`ServiceSpec`): a SIGALRM that is pending when a new head takes over
  fires that head before its time. A timer of the service may fire early.
- `wtp_timerlib.c:283` (no property): on a time-out `timer_init` joins the ticker while it
  holds the mutex that the ticker waits for, and does not return. `WtpLifecycle` contains
  the step.
- `event.c:396` (`BoundedDisplacement`): the comment gives one second as the worst case;
  it is almost two if the time of day is set while the timer runs.
- `numlist.c:183` (`Members`): `unique_numlist` never looks at the last number and drops it.
- `ddm.h:31` (`OwnBit` in `Members`, `RoundTrip`): from 31744 on, numbers share bits of the map and
  may be dropped as repetitions of others.
- `numlist.c:385` (`Placed`): `insert_numlist_at_pos` moves a number that is already on a
  list without repetitions, where the header says that nothing happens.
- `iplist.c:304` (`NoDuplicates`, `Members`): `unique_iplist` takes the index of an earlier
  equal string for a truth value: strings without one are dropped, and a repetition of the
  first is kept.
- `iplist.c:476` (`RoundTrip`): a string with a separator or with blanks at an end is not what is
  read back from the text of its list; in a link list a blank inside a string ends the reading of
  all that follows, unless a number and a colon come next.
- `taglist.c`, `compare_taglist` (`TagsAreMap`): without order, a tag that is missing equals
  one with an empty value.
- `taglist.c:528` (`WholeFile`): the result of `fclose` is ignored, so a list cut short by a
  full disk is renamed over the good one and reported as saved.
- `taglist.c:572` (`SaveReported`): mode quick, "simple open/write (overwrite) existing file" in
  `taglist.h:9`, never overwrites: `max_retry` is used up by the atomic tries before.
- `taglist.c:533` (`NoLitter`): the result of `unlink` is ignored. Where the directory may
  not be written, `unlink` fails as `rename` did; likewise `fdopen` may fail after `mkstemp`.
  Each such try leaves a temporary file.
- `taglist.c:78` (`NoStaleList`): a `stat` that fails gives time 0; a list read after that counts
  as unchanged as long as `stat` fails.
- `taglist.c:531` (`NoStaleList`): a file dumped in one second and renamed in the next has the
  mtime of the first; a reader that read the old file in the second can take it for unchanged.
- `dns_query.c:287` (`UserFirst`): the server that the user gave is forgotten at the end of the
  first lookup; the second asks those of resolv.conf.
- `dns_query.c:761` (`LengthRight`): over TCP, `len` is overwritten by the length of a response;
  the next server gets the query with that length.
- `dns_query.c:940` (`Reports`): the terminator of a full address list is written behind it.
- `parse_reply` (`Reports`): `format` is set by the first record with a name and labels every
  later one.

## 6. Not modelled, and what could come next

Left out of modules that exist:

- running out of memory in the lists and the resolver: every function has its own exits for
  it, which free what they made; nothing else happens there.
- messages that cannot be parsed, and names in the data of a record that cannot be
  uncompressed. The decoders are translated with their error exits, the servers do not
  exercise them; records of a wrong length and of types that are not handled are among the
  contents.
- what is printed of the data of MX, TXT and SOA records, and the layout of all printing.
- `iplist_to_string` and the quoted text, which are `serialize_iplist` with other separators,
  and `bsearch_fast`, which nothing calls (it adds an index as a number of bytes).
- mode `LIBSTRUTILS_TAGLIST_STDOUT` of `save_taglist_ex`, which touches no file.
- in `TagStore`, two savers that load before they save: the last one wins, as nothing
  locks the file; no comment promises more.

Parts that have no module:

- `PcapRaces`, the queue functions statement by statement without the lock: the macros are
  empty and everything can go wrong there at once; a property of it would say only that.
- `file-lock(flock)`, `callFreqency`, `sigsuspend_sigwait`: small programs with a real
  question each (a reader started under the lock; the growth of a ring that has wrapped; a
  signal before the wait). They are the next to be modelled.
- `shared_memory/writer.c` and `reader.c`, the resolver wrappers, the lock demonstrations,
  `popen`, `testCfunc`, `test_libubox`, `traceroute6_parsing`: one library call each, or
  text parsing; nothing outlives a call.
- `parameter_tree1` and `parameter_tree2`: static tables and a lookup by path; the second
  lacks headers and does not build.
- `uClibc-*`: archives of a third-party library.
