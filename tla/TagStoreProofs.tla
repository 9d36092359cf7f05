--------------------------- MODULE TagStoreProofs ---------------------------
(***************************************************************************)
(* Proofs about TagStore, for any number of readers and savers, any clock  *)
(* and any number of failures and kills.  Nothing about the operations on  *)
(* lists is used.                                                          *)
(***************************************************************************)
EXTENDS TagStore, FiniteSetTheorems, TLAPS

\* The inodes that a name in use or a stream refers to.
Used == {file} \cup {fd[p] : p \in Procs} \cup {tmp[p] : p \in Procs}

\* What is settled keeps its inodes as far as they are used.
LEMMA SettleFacts ==
  ASSUME NEW d, Settle(d)
  PROVE  /\ disk' = [i \in DOMAIN disk' |-> disk'[i]]
         /\ \A i : i \in DOMAIN disk' <=> i \in DOMAIN d /\ i \in Used'
         /\ \A i \in DOMAIN disk' : disk'[i] = d[i]
BY DEF Settle, Used

\* The same for a step that adds an inode.
LEMMA WithFacts ==
  ASSUME NEW i, NEW inode, disk' = With(i, inode)
  PROVE  /\ disk' = [j \in DOMAIN disk' |-> disk'[j]]
         /\ DOMAIN disk' = DOMAIN disk \cup {i}
         /\ disk'[i] = inode
         /\ \A j \in DOMAIN disk : j # i => disk'[j] = disk[j]
BY DEF With

\* What is made is an inode, and has the fields it is given.
LEMMA InodeFacts ==
  ASSUME NEW lines, NEW mtime, NEW of, NEW harm
  PROVE  /\ IsInode(Inode(lines, mtime, of, harm))
         /\ Inode(lines, mtime, of, harm).lines = lines
         /\ Inode(lines, mtime, of, harm).of = of
         /\ Inode(lines, mtime, of, harm).harm = harm
BY DEF Inode, IsInode

LEMMA CutFacts ==
  ASSUME NEW inode, IsInode(inode), NEW lines, NEW k
  PROVE  /\ IsInode(Dumped(inode, lines)) /\ Dumped(inode, lines).lines = lines
         /\ Dumped(inode, lines).of = inode.of /\ Dumped(inode, lines).harm = inode.harm
         /\ IsInode(Cut(inode, lines, k))
         /\ Cut(inode, lines, k).of = inode.of /\ Cut(inode, lines, k).harm = inode.harm
<1>1. ASSUME NEW l
      PROVE  /\ IsInode(Dumped(inode, l)) /\ Dumped(inode, l).lines = l
             /\ Dumped(inode, l).of = inode.of /\ Dumped(inode, l).harm = inode.harm
  BY DEF IsInode, Dumped
<1>2. QED
  BY <1>1 DEF Cut

LEMMA FlushedFacts ==
  ASSUME NEW inode, IsInode(inode)
  PROVE  IsInode(Flushed(inode)) /\ Flushed(inode).of = inode.of /\ Flushed(inode).harm # "none"
<1> DEFINE h == IF inode.harm = "none" THEN "flush" ELSE inode.harm
<1>1. h # "none"
  OBVIOUS
<1> HIDE DEF h
<1>2. Flushed(inode) = [inode EXCEPT !.harm = h]
  BY DEF Flushed, h
<1>3. QED
  BY <1>1, <1>2 DEF IsInode

\* What can become of an inode that is dumped to: what it is meant to hold stays, and
\* so does harm, and it is whole if fprintf and fclose report no error.
LEMMA DumpFacts ==
  ASSUME NEW inode, IsInode(inode), NEW lines, NEW d \in Dumps(inode, lines)
  PROVE  /\ IsInode(d[1]) /\ d[1].of = inode.of
         /\ inode.harm # "none" => d[1].harm # "none"
         /\ d[2] \in BOOLEAN
         /\ d[2] => d[1].lines = lines \/ (d[3] /\ d[1].harm # "none")
<1>1. \/ d = <<Dumped(inode, lines), TRUE, FALSE>>
      \/ \E k : d = <<Cut(inode, lines, k), FALSE, FALSE>>
      \/ \E k : d = <<Flushed(Cut(inode, lines, k)), TRUE, TRUE>>
  BY DEF Dumps
<1>2. CASE d = <<Dumped(inode, lines), TRUE, FALSE>>
  BY <1>2, CutFacts
<1>3. ASSUME NEW k, d = <<Cut(inode, lines, k), FALSE, FALSE>>
      PROVE  IsInode(d[1]) /\ d[1].of = inode.of /\ d[1].harm = inode.harm /\ d[2] = FALSE
  BY <1>3, CutFacts
<1>4. ASSUME NEW k, d = <<Flushed(Cut(inode, lines, k)), TRUE, TRUE>>
      PROVE  /\ IsInode(d[1]) /\ d[1].of = inode.of /\ d[1].harm # "none"
             /\ d[2] = TRUE /\ d[3] = TRUE
  BY <1>4, CutFacts, FlushedFacts
<1>5. QED
  BY <1>1, <1>2, <1>3, <1>4

LEMMA RenamedFacts ==
  ASSUME NEW inode, IsInode(inode)
  PROVE  /\ IsInode(Renamed(inode)) /\ Renamed(inode).lines = inode.lines
         /\ Renamed(inode).of = inode.of /\ Renamed(inode).harm = inode.harm
BY DEF IsInode, Renamed

-----------------------------------------------------------------------------
(* What a save has done and reports                                        *)

Accounts ==
  /\ pc \in [Procs -> PCs]
  /\ job \in [Procs -> [mode : {"none", "atomic", "quick", "auto"}, over : BOOLEAN, tries : Int]]
  /\ ok \in [Procs -> BOOLEAN]
  /\ did = [p \in Procs |-> did[p]] /\ \A p \in Procs : IsDeed(did[p])
  /\ Account

\* What a save has done is a record with these fields.
LEMMA DeedFacts ==
  ASSUME NEW by, NEW lines, NEW lost
  PROVE  /\ IsDeed(Deed(by, lines, lost))
         /\ Deed(by, lines, lost).by = by /\ Deed(by, lines, lost).lines = lines
         /\ Deed(by, lines, lost).lost = lost
BY DEF IsDeed, Deed

\* Only one process does anything.
LEMMA DeedPut ==
  ASSUME did = [q \in Procs |-> did[q]], \A q \in Procs : IsDeed(did[q]),
         NEW p \in Procs, NEW by, NEW lines, NEW lost,
         did' = [did EXCEPT ![p] = Deed(by, lines, lost)]
  PROVE  /\ did' = [q \in Procs |-> did'[q]] /\ \A q \in Procs : IsDeed(did'[q])
         /\ did'[p].by = by /\ did'[p].lines = lines /\ did'[p].lost = lost
         /\ \A q \in Procs : q # p => did'[q] = did[q]
<1> DEFINE deed == Deed(by, lines, lost)
<1>1. IsDeed(deed) /\ deed.by = by /\ deed.lines = lines /\ deed.lost = lost
  BY DeedFacts
<1> HIDE DEF deed
<1>2. did' = [did EXCEPT ![p] = deed]
  BY DEF deed
<1>3. QED
  BY <1>1, <1>2

\* A try that fails changes neither the file nor what is reported of it.
LEMMA FailedAccounts ==
  ASSUME Accounts, NEW p \in Procs, NEW from, Failed(p, from), pc[p] # "done",
         did' = [q \in Procs |-> did'[q]],
         \A q \in Procs : IsDeed(did'[q]) /\ did'[q].by = did[q].by
  PROVE  Accounts'
<1>1. CASE /\ job[p].tries > 1
           /\ job' = [job EXCEPT ![p].tries = @ - 1]
           /\ Go(p, from, "try") /\ UNCHANGED ok
  BY <1>1 DEF Accounts, Account, Go, PCs
<1>2. CASE /\ job[p].tries = 1 /\ job[p].mode = "auto" /\ ~job[p].over
           /\ job' = [job EXCEPT ![p] = [mode |-> "auto", over |-> TRUE, tries |-> AutoRetry]]
           /\ Go(p, from, "try") /\ UNCHANGED ok
  <2>1. AutoRetry \in Int
    BY StoreAssumption
  <2>2. job' \in [Procs -> [mode : {"none", "atomic", "quick", "auto"}, over : BOOLEAN, tries : Int]]
    BY <1>2, <2>1 DEF Accounts
  <2>3. pc' \in [Procs -> PCs] /\ \A q \in Procs : pc'[q] = IF q = p THEN "try" ELSE pc[q]
    BY <1>2 DEF Accounts, Go, PCs
  <2>4. \A q \in Procs : job'[q].mode = job[q].mode
                         /\ job'[q].over = (job[q].over \/ q = p)
    BY <1>2 DEF Accounts
  <2>5. QED
    BY <1>2, <2>2, <2>3, <2>4 DEF Accounts, Account
<1>3. CASE /\ job[p].tries = 1 /\ (job[p].mode # "auto" \/ job[p].over)
           /\ Go(p, from, "done") /\ UNCHANGED <<job, ok>>
  BY <1>3 DEF Accounts, Account, Go, PCs
<1>4. QED
  BY <1>1, <1>2, <1>3 DEF Failed

\* Of a save that is over, or whose process is killed, nothing is told any more.
LEMMA ForgottenAccounts ==
  ASSUME Accounts, NEW p \in Procs,
         pc' = [pc EXCEPT ![p] = "idle"], job' = [job EXCEPT ![p] = NoJob],
         ok' = [ok EXCEPT ![p] = FALSE], did' = [did EXCEPT ![p] = NoDeed]
  PROVE  Accounts'
<1>1. IsDeed(NoDeed) /\ NoDeed.by = "nothing"
  BY DEF NoDeed, Deed, IsDeed
<1>2. /\ did' = [q \in Procs |-> did'[q]] /\ \A q \in Procs : IsDeed(did'[q])
      /\ did'[p].by = "nothing" /\ \A q \in Procs : q # p => did'[q] = did[q]
  BY <1>1 DEF Accounts
<1>3. QED
  BY <1>2 DEF Accounts, Account, PCs, NoJob

LEMMA AccountsKept ==
  ASSUME Accounts, [Next]_vars
  PROVE  Accounts'
<1>1. CASE UNCHANGED <<pc, job, ok, did>>
  BY <1>1 DEF Accounts, Account
<1>2. ASSUME NEW p \in Procs, Reload(p)
      PROVE  Accounts'
  <2>1. UNCHANGED <<job, ok, did>>
    BY <1>2 DEF Reload, Stat, CannotStat, Time, Open, CannotOpen, Read, local, store
  <2>2. \E to \in {"idle", "time", "open", "read"} :
          pc' = [pc EXCEPT ![p] = to]
    BY <1>2 DEF Reload, Stat, CannotStat, Time, Open, CannotOpen, Read, Go
  <2>3. pc[p] \in {"idle", "time", "open", "read"}
    BY <1>2 DEF Reload, Stat, CannotStat, Time, Open, CannotOpen, Read, Go
  <2>4. QED
    BY <2>1, <2>2, <2>3 DEF Accounts, Account, PCs
<1>3. ASSUME NEW p \in Procs, BeginSave(p)
      PROVE  Accounts'
  <2>1. PICK mode \in Modes :
          job' = [job EXCEPT ![p] = [mode |-> mode, over |-> FALSE,
                                     tries |-> IF mode = "auto" THEN AutoRetry ELSE MaxRetry]]
    BY <1>3 DEF BeginSave
  <2> DEFINE tries == IF mode = "auto" THEN AutoRetry ELSE MaxRetry
  <2>2. mode \in {"none", "atomic", "quick", "auto"} /\ tries \in Int
    BY StoreAssumption
  <2>3. job' = [job EXCEPT ![p] = [mode |-> mode, over |-> FALSE, tries |-> tries]]
    BY <2>1
  <2> HIDE DEF tries
  <2>4. /\ pc[p] = "idle" /\ pc' = [pc EXCEPT ![p] = "try"] /\ UNCHANGED <<ok, did>>
    BY <1>3 DEF BeginSave, Go
  <2>5. job' \in [Procs -> [mode : {"none", "atomic", "quick", "auto"}, over : BOOLEAN, tries : Int]]
    BY <2>2, <2>3 DEF Accounts
  <2>6. \A q \in Procs : job'[q].over = (IF q = p THEN FALSE ELSE job[q].over)
                         /\ job'[q].mode = (IF q = p THEN mode ELSE job[q].mode)
    BY <2>3 DEF Accounts
  <2>7. QED
    BY <2>2, <2>4, <2>5, <2>6 DEF Accounts, Account, PCs
<1>4. ASSUME NEW p \in Procs, CannotStart(p) \/ CannotFdopen(p)
      PROVE  Accounts'
  <2>1. Failed(p, "try") /\ pc[p] = "try" /\ UNCHANGED did
    BY <1>4 DEF CannotStart, CannotFdopen
  <2>2. QED
    BY <2>1, FailedAccounts DEF Accounts
<1>5. ASSUME NEW p \in Procs, Unlink(p) \/ CannotUnlink(p)
      PROVE  Accounts'
  <2>1. Failed(p, "unlink") /\ pc[p] = "unlink" /\ UNCHANGED did
    BY <1>5 DEF Unlink, CannotUnlink, Failed, Go
  <2>2. QED
    BY <2>1, FailedAccounts DEF Accounts
<1>6. ASSUME NEW p \in Procs, Overwrite(p)
      PROVE  Accounts'
  <2>1. PICK lines, lost : did' = [did EXCEPT ![p] = Deed("overwriting", lines, lost)]
    BY <1>6 DEF Overwrite
  <2>2. /\ did' = [q \in Procs |-> did'[q]]
        /\ \A q \in Procs : IsDeed(did'[q]) /\ did'[q].by = did[q].by
        /\ pc[p] = "overwrite"
    <3>1. pc[p] = "overwrite" /\ did[p].by = "overwriting"
      BY <1>6 DEF Overwrite, Accounts, Account
    <3>2. QED
      BY <2>1, <3>1, DeedPut DEF Accounts
  <2>3. CASE Failed(p, "overwrite")
    BY <2>2, <2>3, FailedAccounts
  <2>4. CASE Go(p, "overwrite", "done") /\ ok' = [ok EXCEPT ![p] = TRUE] /\ UNCHANGED job
    BY <2>2, <2>4 DEF Accounts, Account, Go, PCs
  <2>5. QED
    BY <1>6, <2>3, <2>4 DEF Overwrite
<1>7. ASSUME NEW p \in Procs,
             Mkstemp(p) \/ Write(p) \/ CannotRename(p)
      PROVE  Accounts'
  <2>1. UNCHANGED <<job, ok, did>>
    BY <1>7 DEF Mkstemp, Write, CannotRename, local
  <2>2. /\ \E to \in {"write", "rename", "unlink"} : pc' = [pc EXCEPT ![p] = to]
        /\ pc[p] \in {"try", "write", "rename"}
    BY <1>7 DEF Mkstemp, Write, CannotRename, Go
  <2>3. QED
    BY <2>1, <2>2 DEF Accounts, Account, PCs
<1>8. ASSUME NEW p \in Procs, Rename(p)
      PROVE  Accounts'
  <2>1. PICK lines, lost : did' = [did EXCEPT ![p] = Deed("rename", lines, lost)]
    BY <1>8 DEF Rename
  <2>2. /\ did' = [q \in Procs |-> did'[q]] /\ \A q \in Procs : IsDeed(did'[q])
        /\ did'[p].by = "rename" /\ \A q \in Procs : q # p => did'[q] = did[q]
    BY <2>1, DeedPut DEF Accounts
  <2>3. QED
    BY <1>8, <2>2 DEF Rename, Go, Accounts, Account, PCs
<1>9. ASSUME NEW p \in Procs, Truncate(p)
      PROVE  Accounts'
  <2>1. did' = [did EXCEPT ![p] = Deed("overwriting", <<>>, FALSE)]
    BY <1>9 DEF Truncate
  <2>2. /\ did' = [q \in Procs |-> did'[q]] /\ \A q \in Procs : IsDeed(did'[q])
        /\ did'[p].by = "overwriting" /\ \A q \in Procs : q # p => did'[q] = did[q]
    BY <2>1, DeedPut DEF Accounts
  <2>3. QED
    BY <1>9, <2>2 DEF Truncate, Go, Accounts, Account, PCs
<1>10. ASSUME NEW p \in Procs, Leave(p)
       PROVE  Accounts'
  <2>1. /\ pc' = [pc EXCEPT ![p] = "idle"] /\ job' = [job EXCEPT ![p] = NoJob]
        /\ ok' = [ok EXCEPT ![p] = FALSE] /\ did' = [did EXCEPT ![p] = NoDeed]
    BY <1>10 DEF Leave, Go
  <2>2. QED
    BY <2>1, ForgottenAccounts
<1>11. ASSUME NEW p \in Procs, Kill(p)
       PROVE  Accounts'
  <2>1. /\ pc' = [pc EXCEPT ![p] = "idle"] /\ job' = [job EXCEPT ![p] = NoJob]
        /\ ok' = [ok EXCEPT ![p] = FALSE] /\ did' = [did EXCEPT ![p] = NoDeed]
    BY <1>11 DEF Kill
  <2>2. QED
    BY <2>1, ForgottenAccounts
<1>12. QED
  <2>1. CASE Tick \/ UNCHANGED vars
    BY <1>1, <2>1 DEF Tick, vars, local
  <2>2. ASSUME NEW p \in Procs, Update(p)
        PROVE  Accounts'
    BY <1>1, <2>2 DEF Update
  <2>3. QED
    BY <1>2, <1>3, <1>4, <1>5, <1>6, <1>7, <1>8, <1>9, <1>10, <1>11, <2>1, <2>2 DEF Next, Save

-----------------------------------------------------------------------------
(* The file and the inodes                                                 *)

Refs ==
  /\ file \in DOMAIN disk \cup {NoFile} /\ litter \subseteq Inodes
  /\ DOMAIN disk \subseteq Inodes
  /\ fd \in [Procs -> Inodes \cup {NoFile}] /\ tmp \in [Procs -> Inodes \cup {NoFile}]
  /\ \A p \in Procs :
       /\ fd[p] \in DOMAIN disk \cup {NoFile} /\ tmp[p] \in DOMAIN disk \cup {NoFile}
       /\ pc[p] \in {"read", "overwrite"} <=> fd[p] # NoFile
       /\ pc[p] \in {"write", "rename", "unlink"} <=> tmp[p] # NoFile
  /\ DOMAIN disk \subseteq Used

Disk ==
  /\ disk = [i \in DOMAIN disk |-> disk[i]] /\ \A i \in DOMAIN disk : IsInode(disk[i])
  /\ mem = [p \in Procs |-> mem[p]]

Counted ==
  /\ clock \in 1 .. MaxTime \cup {1}
  /\ crashes \in Nat /\ left \in Nat
  /\ IsFiniteSet(litter) /\ Cardinality(litter) <= crashes + left

Files == Counted /\ Refs /\ Disk /\ Apart /\ WholeFile /\ Progress

LEMMA IInvParts == IInv <=> Accounts /\ Files /\ Given
BY DEF IInv, Accounts, Files, TypeOK, Shape, NoLitter, Refs, Disk, Counted, Used

\* One more temporary file that was left behind.
LEMMA LitterGrows ==
  ASSUME Counted, NEW i, litter' = litter \cup {i}
  PROVE  /\ IsFiniteSet(litter') /\ Cardinality(litter') \in Nat /\ Cardinality(litter) \in Nat
         /\ Cardinality(litter') <= Cardinality(litter) + 1
<1>1. IsFiniteSet(litter) /\ Cardinality(litter) \in Nat
  BY FS_CardinalityType DEF Counted
<1>2. LET more == litter \cup {i}
      IN  IsFiniteSet(more) /\ Cardinality(more) \in {Cardinality(litter), Cardinality(litter) + 1}
  BY <1>1, FS_AddElement
<1>3. QED
  BY <1>1, <1>2

\* Litter is counted, by whichever of the two counters, when there is more of it.
LEMMA CountedKept ==
  ASSUME Counted, UNCHANGED clock, NEW i,
         \/ UNCHANGED <<litter, crashes, left>>
         \/ litter' = litter /\ crashes' = crashes + 1 /\ left' = left
         \/ /\ litter' = litter \cup {i}
            /\ \/ crashes' = crashes + 1 /\ left' = left
               \/ crashes' = crashes /\ left' = left + 1
  PROVE  Counted'
<1>1. CASE UNCHANGED <<litter, crashes, left>>
  BY <1>1 DEF Counted
<1>2. CASE litter' = litter /\ crashes' = crashes + 1 /\ left' = left
  <2>1. Cardinality(litter) \in Nat
    BY FS_CardinalityType DEF Counted
  <2>2. QED
    BY <1>2, <2>1 DEF Counted
<1>3. CASE /\ litter' = litter \cup {i}
           /\ \/ crashes' = crashes + 1 /\ left' = left
              \/ crashes' = crashes /\ left' = left + 1
  <2>1. /\ IsFiniteSet(litter') /\ Cardinality(litter') \in Nat /\ Cardinality(litter) \in Nat
        /\ Cardinality(litter') <= Cardinality(litter) + 1
    BY <1>3, LitterGrows
  <2>2. QED
    BY <1>3, <2>1 DEF Counted
<1>4. QED
  BY <1>1, <1>2, <1>3

\* A step that touches no inode, and takes no process to where it needs one.
LEMMA FilesStutter ==
  ASSUME Files, UNCHANGED <<file, disk, fd, tmp>>,
         Counted', litter' \subseteq Inodes, litter' \cap DOMAIN disk = {},
         mem' = [p \in Procs |-> mem'[p]],
         \A p \in Procs :
           \/ pc'[p] = pc[p] /\ (mem'[p] = mem[p] \/ pc[p] = "idle")
           \/ /\ pc[p] \in {"idle", "time", "open", "try", "done"}
              /\ pc'[p] \in {"idle", "time", "open", "try", "done"}
           \/ pc[p] = "rename" /\ pc'[p] = "unlink"
  PROVE  Files'
<1>1. Disk'
  BY DEF Files, Disk
<1>2. Refs'
  BY DEF Files, Refs, Used
<1>3. Apart' /\ WholeFile'
  BY DEF Files, Apart, WholeFile, Whole
<1>4. Progress'
  BY DEF Files, Progress, Whole, Lines, dump_taglist
<1>5. QED
  BY <1>1, <1>2, <1>3, <1>4 DEF Files

LEMMA FilesUntouched ==
  ASSUME Files, Accounts, NEW p \in Procs,
         \/ Stat(p) \/ CannotStat(p) \/ Time(p) \/ CannotOpen(p) \/ Update(p)
         \/ BeginSave(p) \/ CannotStart(p) \/ CannotRename(p) \/ Leave(p)
  PROVE  Files'
<1>1. /\ UNCHANGED <<file, disk, litter, fd, tmp, crashes, left, clock>>
      /\ UNCHANGED mem \/ (pc[p] = "idle" /\ Update(p) /\ UNCHANGED pc)
  BY DEF Stat, CannotStat, Time, CannotOpen, Update, BeginSave, CannotStart, CannotRename, Leave,
         store, local
<1>2. /\ Counted' /\ litter' \subseteq Inodes /\ litter' \cap DOMAIN disk = {}
      /\ mem = [q \in Procs |-> mem[q]] /\ pc \in [Procs -> PCs]
  BY <1>1 DEF Files, Counted, Disk, Accounts, Refs, Apart
<1>3. CASE Update(p)
  <2>1. PICK list : mem' = [mem EXCEPT ![p].list = list]
    BY <1>3 DEF Update
  <2>2. mem' = [q \in Procs |-> mem'[q]] /\ \A q \in Procs : q # p => mem'[q] = mem[q]
    BY <1>2, <2>1
  <2>3. pc[p] = "idle" /\ UNCHANGED pc
    BY <1>3 DEF Update
  <2>4. QED
    BY <1>1, <1>2, <2>2, <2>3, FilesStutter
<1>4. CASE ~Update(p)
  <2>1. UNCHANGED mem
    BY <1>1, <1>4
  <2>2. \E from, to : /\ pc[p] = from /\ pc' = [pc EXCEPT ![p] = to]
                      /\ \/ {from, to} \subseteq {"idle", "time", "open", "try", "done"}
                         \/ from = "rename" /\ to = "unlink"
    BY <1>4 DEF Stat, CannotStat, Time, CannotOpen, BeginSave, CannotStart, CannotRename, Leave,
                Go, Failed
  <2>3. QED
    BY <1>1, <1>2, <2>1, <2>2, FilesStutter
<1>5. QED
  BY <1>3, <1>4

LEMMA FilesTick ==
  ASSUME Files, Tick \/ UNCHANGED vars
  PROVE  Files'
<1>1. /\ UNCHANGED <<file, disk, litter, fd, tmp, crashes, left, mem, pc>>
      /\ clock' = clock \/ (clock < MaxTime /\ clock' = clock + 1)
  BY DEF Tick, vars, local, store
<1>2. clock' \in 1 .. MaxTime \cup {1} /\ mem = [q \in Procs |-> mem[q]]
  BY <1>1, StoreAssumption DEF Files, Counted, Disk
<1>3. Counted' /\ litter' \subseteq Inodes /\ litter' \cap DOMAIN disk = {}
  BY <1>1, <1>2 DEF Files, Counted, Refs, Apart
<1>4. QED
  BY <1>1, <1>2, <1>3, FilesStutter

\* fdopen fails on a temporary file that has just been made.
LEMMA FilesCannotFdopen ==
  ASSUME Files, Accounts, NEW p \in Procs, CannotFdopen(p)
  PROVE  Files'
<1>1. /\ UNCHANGED <<clock, file, disk, mem, fd, tmp, crashes>> /\ left' = left + 1
      /\ pc[p] = "try" /\ \E to \in {"try", "done"} : pc' = [pc EXCEPT ![p] = to]
  BY DEF CannotFdopen, Failed, Go
<1>2. PICK i \in Inodes \ DOMAIN disk : litter' = litter \cup {i}
  BY DEF CannotFdopen, IsFree
<1>3. Counted'
  BY <1>1, <1>2, CountedKept DEF Files
<1>4. litter' \subseteq Inodes /\ litter' \cap DOMAIN disk = {}
  BY <1>2 DEF Files, Refs, Apart
<1>5. mem' = [q \in Procs |-> mem'[q]]
  BY <1>1 DEF Files, Disk
<1>6. pc \in [Procs -> PCs]
  BY DEF Accounts
<1>7. QED
  BY <1>1, <1>3, <1>4, <1>5, <1>6, FilesStutter

LEMMA FilesOpen ==
  ASSUME Files, Accounts, NEW p \in Procs, Open(p)
  PROVE  Files'
<1>1. /\ UNCHANGED <<file, disk, litter, tmp, crashes, left, clock>>
      /\ pc[p] = "open" /\ fd' = [fd EXCEPT ![p] = file]
      /\ pc' = [pc EXCEPT ![p] = IF file = NoFile THEN "idle" ELSE "read"]
      /\ mem' = mem \/ mem' = [mem EXCEPT ![p] = Fresh]
  BY DEF Open, Go, store
<1>2. /\ \A q \in Procs : q # p => fd'[q] = fd[q] /\ pc'[q] = pc[q] /\ mem'[q] = mem[q]
      /\ fd'[p] = file /\ pc'[p] = IF file = NoFile THEN "idle" ELSE "read"
      /\ mem' = [q \in Procs |-> mem'[q]]
      /\ fd' \in [Procs -> Inodes \cup {NoFile}]
  BY <1>1 DEF Files, Refs, Disk, Accounts
<1>3. Counted' /\ Disk'
  BY <1>1, <1>2 DEF Files, Counted, Disk
<1>4. fd[p] = NoFile
  BY <1>1 DEF Files, Refs
<1>5. Refs'
  BY <1>1, <1>2, <1>4 DEF Files, Refs, Used
<1>6. Apart' /\ WholeFile'
  BY <1>1, <1>2 DEF Files, Apart, WholeFile, Whole
<1>7. Progress'
  BY <1>1, <1>2 DEF Files, Progress, Whole, Lines, dump_taglist
<1>8. QED
  BY <1>3, <1>5, <1>6, <1>7 DEF Files

\* What is settled is a disk again.
LEMMA SettledDisk ==
  ASSUME NEW d, Settle(d), \A i \in DOMAIN d : IsInode(d[i]), DOMAIN d \subseteq Inodes,
         mem' = [q \in Procs |-> mem'[q]]
  PROVE  Disk' /\ DOMAIN disk' \subseteq Inodes /\ DOMAIN disk' \subseteq Used'
BY SettleFacts DEF Disk

LEMMA FilesRead ==
  ASSUME Files, Accounts, NEW p \in Procs, Read(p)
  PROVE  Files'
<1>1. /\ UNCHANGED <<file, litter, tmp, crashes, left, clock>>
      /\ pc[p] = "read" /\ pc' = [pc EXCEPT ![p] = "idle"]
      /\ fd' = [fd EXCEPT ![p] = NoFile]
      /\ Settle(disk)
      /\ \E m : mem' = [mem EXCEPT ![p] = m]
  BY DEF Read, Go
<1>2. /\ \A q \in Procs : q # p => fd'[q] = fd[q] /\ pc'[q] = pc[q] /\ mem'[q] = mem[q]
      /\ fd'[p] = NoFile /\ pc'[p] = "idle"
      /\ mem' = [q \in Procs |-> mem'[q]]
      /\ fd' \in [Procs -> Inodes \cup {NoFile}]
  BY <1>1 DEF Files, Refs, Disk, Accounts
<1>3. Disk' /\ DOMAIN disk' \subseteq Inodes /\ DOMAIN disk' \subseteq Used'
  BY <1>1, <1>2, SettledDisk DEF Files, Refs, Disk
<1>4. /\ \A i : i \in DOMAIN disk' <=> i \in DOMAIN disk /\ i \in Used'
      /\ \A i \in DOMAIN disk' : disk'[i] = disk[i]
  BY <1>1, SettleFacts
<1>5. Counted'
  BY <1>1 DEF Files, Counted
<1>6. Refs'
  BY <1>1, <1>2, <1>3, <1>4 DEF Files, Refs, Used
<1>7. Apart'
  BY <1>1, <1>2, <1>4 DEF Files, Apart
<1>8. WholeFile'
  BY <1>1, <1>4, <1>6 DEF Files, WholeFile, Whole, Refs
<1>9. Progress'
  BY <1>1, <1>2, <1>4, <1>6 DEF Files, Progress, Whole, Lines, dump_taglist, Refs
<1>10. QED
  BY <1>3, <1>5, <1>6, <1>7, <1>8, <1>9 DEF Files

LEMMA FilesMkstemp ==
  ASSUME Files, Accounts, NEW p \in Procs, Mkstemp(p)
  PROVE  Files'
<1>1. /\ UNCHANGED <<clock, file, litter, mem, fd, crashes, left>>
      /\ pc[p] = "try" /\ pc' = [pc EXCEPT ![p] = "write"]
  BY DEF Mkstemp, Go
<1>2. PICK i \in Inodes \ (DOMAIN disk \cup litter) :
        /\ tmp' = [tmp EXCEPT ![p] = i]
        /\ disk' = With(i, Inode(<<>>, clock, Lines(p), "none"))
  BY DEF Mkstemp, IsFree
<1>3. /\ disk' = [j \in DOMAIN disk' |-> disk'[j]]
      /\ DOMAIN disk' = DOMAIN disk \cup {i}
      /\ \A j \in DOMAIN disk : disk'[j] = disk[j]
      /\ IsInode(disk'[i]) /\ disk'[i].of = Lines(p)
  <2> DEFINE node == Inode(<<>>, clock, Lines(p), "none")
  <2>1. IsInode(node) /\ node.of = Lines(p)
    BY InodeFacts
  <2> HIDE DEF node
  <2>2. disk' = With(i, node)
    BY <1>2 DEF node
  <2>3. QED
    BY <2>1, <2>2, <1>2, WithFacts
<1>4. /\ \A q \in Procs : q # p => tmp'[q] = tmp[q] /\ pc'[q] = pc[q]
      /\ tmp'[p] = i /\ pc'[p] = "write" /\ i # NoFile
      /\ tmp' \in [Procs -> Inodes \cup {NoFile}]
      /\ tmp[p] = NoFile /\ fd[p] = NoFile
  BY <1>1, <1>2, StoreAssumption DEF Files, Refs, Accounts
<1>5. Counted' /\ Disk'
  BY <1>1, <1>3 DEF Files, Counted, Disk
<1>6. Refs'
  BY <1>1, <1>2, <1>3, <1>4 DEF Files, Refs, Used
<1>7. i # file /\ i \notin litter /\ \A q \in Procs : fd[q] # i /\ tmp[q] # i
  BY <1>2, <1>4 DEF Files, Refs
<1>8. Apart'
  BY <1>1, <1>3, <1>4, <1>7 DEF Files, Apart
<1>9. WholeFile'
  BY <1>1, <1>3 DEF Files, WholeFile, Whole, Refs
<1>10. Progress'
  <2>1. ASSUME NEW q \in Procs, q # p
        PROVE  /\ pc'[q] = "overwrite" => disk'[fd'[q]].harm # "none"
               /\ pc'[q] \in {"write", "rename"} => disk'[tmp'[q]].of = Lines(q)'
               /\ pc'[q] = "rename" => Whole(disk'[tmp'[q]])
    BY <1>1, <1>3, <1>4, <2>1 DEF Files, Progress, Whole, Refs, Lines, dump_taglist
  <2>2. pc'[p] = "write" /\ disk'[tmp'[p]].of = Lines(p)'
    BY <1>1, <1>3, <1>4 DEF Lines, dump_taglist
  <2>3. QED
    BY <2>1, <2>2 DEF Progress, Whole
<1>11. QED
  BY <1>5, <1>6, <1>8, <1>9, <1>10 DEF Files

LEMMA FilesWrite ==
  ASSUME Files, Accounts, NEW p \in Procs, Write(p)
  PROVE  Files'
<1> DEFINE t == tmp[p]
<1>1. PICK d \in Dumps(disk[t], Lines(p)) :
        /\ disk' = [disk EXCEPT ![t] = d[1]]
        /\ pc' = [pc EXCEPT ![p] = IF d[2] THEN "rename" ELSE "unlink"]
  BY DEF Write, Go
<1>2. UNCHANGED <<clock, file, litter, mem, fd, tmp, crashes, left>> /\ pc[p] = "write"
  BY DEF Write
<1>3. t # NoFile /\ t \in DOMAIN disk /\ IsInode(disk[t])
  BY <1>2 DEF Files, Refs, Disk
<1>4. /\ IsInode(d[1]) /\ d[1].of = Lines(p)
      /\ d[2] \in BOOLEAN /\ (d[2] => Whole(d[1]))
  <2>1. disk[t].of = Lines(p)
    BY <1>2 DEF Files, Progress
  <2>2. /\ IsInode(d[1]) /\ d[1].of = disk[t].of /\ d[2] \in BOOLEAN
        /\ d[2] => d[1].lines = Lines(p) \/ d[1].harm # "none"
    BY <1>1, <1>3, DumpFacts
  <2>3. QED
    BY <2>1, <2>2 DEF Whole
<1>5. /\ DOMAIN disk' = DOMAIN disk /\ disk' = [j \in DOMAIN disk' |-> disk'[j]]
      /\ disk'[t] = d[1] /\ \A j \in DOMAIN disk : j # t => disk'[j] = disk[j]
  BY <1>1, <1>3
<1>6. /\ \A q \in Procs : q # p => pc'[q] = pc[q]
      /\ pc'[p] = IF d[2] THEN "rename" ELSE "unlink"
  BY <1>1 DEF Accounts
<1>7. t # file /\ \A q \in Procs : fd[q] # t /\ (q # p => tmp[q] # t)
  BY <1>3 DEF Files, Apart
<1>8. Counted' /\ Disk'
  BY <1>2, <1>4, <1>5 DEF Files, Counted, Disk
<1> HIDE DEF t
<1>9. Refs'
  BY <1>2, <1>5, <1>6 DEF Files, Refs, Used
<1>10. Apart' /\ WholeFile'
  BY <1>2, <1>5, <1>7 DEF Files, Apart, WholeFile, Whole, Refs
<1>11. Progress'
  <2>1. ASSUME NEW q \in Procs, q # p
        PROVE  /\ pc'[q] = "overwrite" => disk'[fd'[q]].harm # "none"
               /\ pc'[q] \in {"write", "rename"} => disk'[tmp'[q]].of = Lines(q)'
               /\ pc'[q] = "rename" => Whole(disk'[tmp'[q]])
    BY <1>2, <1>5, <1>6, <1>7, <2>1 DEF Files, Progress, Whole, Refs, Lines, dump_taglist
  <2>2. /\ disk'[tmp'[p]].of = Lines(p)'
        /\ pc'[p] = "rename" => Whole(disk'[tmp'[p]])
    BY <1>2, <1>4, <1>5, <1>6 DEF t, Lines, dump_taglist
  <2>3. QED
    BY <1>6, <2>1, <2>2 DEF Progress, Whole
<1>12. QED
  BY <1>8, <1>9, <1>10, <1>11 DEF Files

\* The temporary file is removed, or is litter.
LEMMA FilesUnlink ==
  ASSUME Files, Accounts, NEW p \in Procs, Unlink(p) \/ CannotUnlink(p)
  PROVE  Files'
<1>1. /\ UNCHANGED <<clock, file, mem, fd, crashes>> /\ Settle(disk)
      /\ tmp' = [tmp EXCEPT ![p] = NoFile]
      /\ pc[p] = "unlink" /\ \E to \in {"try", "done"} : pc' = [pc EXCEPT ![p] = to]
      /\ \/ UNCHANGED <<litter, left>>
         \/ litter' = litter \cup {tmp[p]} /\ left' = left + 1
  BY DEF Unlink, CannotUnlink, Failed, Go
<1>2. /\ \A q \in Procs : q # p => tmp'[q] = tmp[q] /\ pc'[q] = pc[q]
      /\ tmp'[p] = NoFile /\ pc'[p] \in {"try", "done"}
      /\ tmp' \in [Procs -> Inodes \cup {NoFile}]
  BY <1>1 DEF Files, Refs, Accounts
<1>3. Disk' /\ DOMAIN disk' \subseteq Inodes /\ DOMAIN disk' \subseteq Used'
  BY <1>1, SettledDisk DEF Files, Refs, Disk
<1>4. /\ \A i : i \in DOMAIN disk' <=> i \in DOMAIN disk /\ i \in Used'
      /\ \A i \in DOMAIN disk' : disk'[i] = disk[i]
  BY <1>1, SettleFacts
<1>5. Counted'
  BY <1>1, CountedKept DEF Files
<1>6. tmp[p] \in Inodes /\ tmp[p] \notin DOMAIN disk'
  <2>1. /\ tmp[p] # NoFile /\ tmp[p] \in Inodes /\ tmp[p] # file
        /\ \A q \in Procs : fd[q] # tmp[p] /\ (q # p => tmp[q] # tmp[p])
    BY <1>1 DEF Files, Refs, Apart
  <2>2. tmp[p] \notin Used'
    BY <1>1, <1>2, <2>1 DEF Used
  <2>3. QED
    BY <1>4, <2>1, <2>2
<1>7. Refs'
  BY <1>1, <1>2, <1>3, <1>4, <1>6 DEF Files, Refs, Used
<1>8. WholeFile'
  BY <1>1, <1>2, <1>4, <1>7 DEF Files, WholeFile, Whole, Refs
<1>9. Apart'
  BY <1>1, <1>2, <1>4, <1>6 DEF Files, Apart
<1>10. Progress'
  BY <1>1, <1>2, <1>4, <1>7 DEF Files, Progress, Whole, Lines, dump_taglist, Refs
<1>11. QED
  BY <1>3, <1>5, <1>7, <1>8, <1>9, <1>10 DEF Files

LEMMA FilesRename ==
  ASSUME Files, Accounts, NEW p \in Procs, Rename(p)
  PROVE  Files'
<1> DEFINE t == tmp[p]
           d == [disk EXCEPT ![t] = Renamed(@)]
<1>1. /\ UNCHANGED <<clock, litter, mem, fd, crashes, left>> /\ Settle(d)
      /\ file' = t /\ tmp' = [tmp EXCEPT ![p] = NoFile]
      /\ pc[p] = "rename" /\ pc' = [pc EXCEPT ![p] = "done"]
  BY DEF Rename, Go
<1>2. /\ \A q \in Procs : q # p => tmp'[q] = tmp[q] /\ pc'[q] = pc[q]
      /\ tmp'[p] = NoFile /\ pc'[p] = "done"
      /\ tmp' \in [Procs -> Inodes \cup {NoFile}]
  BY <1>1 DEF Files, Refs, Accounts
<1>3. t # NoFile /\ t \in DOMAIN disk /\ IsInode(disk[t]) /\ Whole(disk[t])
  BY <1>1 DEF Files, Refs, Disk, Progress
<1>4. /\ DOMAIN d = DOMAIN disk
      /\ \A j \in DOMAIN disk : j # t => d[j] = disk[j]
      /\ d[t] = Renamed(disk[t]) /\ IsInode(d[t]) /\ Whole(d[t])
  BY <1>3, RenamedFacts DEF Files, Disk, Whole
<1>5. t # file /\ \A q \in Procs : fd[q] # t /\ (q # p => tmp[q] # t)
  BY <1>3 DEF Files, Apart
<1> HIDE DEF t, d
<1>6. Disk' /\ DOMAIN disk' \subseteq Inodes /\ DOMAIN disk' \subseteq Used'
  BY <1>1, <1>4, SettledDisk DEF Files, Refs, Disk
<1>7. /\ \A i : i \in DOMAIN disk' <=> i \in DOMAIN disk /\ i \in Used'
      /\ \A i \in DOMAIN disk' : disk'[i] = d[i]
  BY <1>1, <1>4, SettleFacts
<1>8. Counted'
  BY <1>1 DEF Files, Counted
<1>9. Refs'
  BY <1>1, <1>2, <1>3, <1>6, <1>7 DEF Files, Refs, Used
<1>10. Apart'
  BY <1>1, <1>2, <1>4, <1>5, <1>7 DEF Files, Apart, t
<1>11. WholeFile'
  BY <1>1, <1>3, <1>4, <1>7, <1>9 DEF WholeFile, Whole, Refs
<1>12. Progress'
  BY <1>1, <1>2, <1>4, <1>5, <1>7, <1>9 DEF Files, Progress, Whole, Lines, dump_taglist, Refs
<1>13. QED
  BY <1>6, <1>8, <1>9, <1>10, <1>11, <1>12 DEF Files

LEMMA FilesTruncate ==
  ASSUME Files, Accounts, NEW p \in Procs, Truncate(p)
  PROVE  Files'
<1>1. /\ UNCHANGED <<clock, litter, mem, tmp, crashes, left>>
      /\ pc[p] = "try" /\ pc' = [pc EXCEPT ![p] = "overwrite"]
  BY DEF Truncate, Go
<1>2. PICK i \in Inodes :
        /\ IF file = NoFile THEN i \notin DOMAIN disk \cup litter ELSE i = file
        /\ file' = i /\ fd' = [fd EXCEPT ![p] = i]
        /\ disk' = With(i, Inode(<<>>, clock, Lines(p), "quick"))
  BY DEF Truncate, IsFree
<1>3. /\ disk' = [j \in DOMAIN disk' |-> disk'[j]]
      /\ DOMAIN disk' = DOMAIN disk \cup {i}
      /\ \A j \in DOMAIN disk : j # i => disk'[j] = disk[j]
      /\ IsInode(disk'[i]) /\ disk'[i].harm # "none"
  <2> DEFINE node == Inode(<<>>, clock, Lines(p), "quick")
  <2>1. IsInode(node) /\ node.harm # "none"
    BY InodeFacts
  <2> HIDE DEF node
  <2>2. disk' = With(i, node)
    BY <1>2 DEF node
  <2>3. QED
    BY <2>1, <2>2, WithFacts
<1>4. /\ \A q \in Procs : q # p => fd'[q] = fd[q] /\ pc'[q] = pc[q]
      /\ fd'[p] = i /\ pc'[p] = "overwrite" /\ i # NoFile
      /\ fd' \in [Procs -> Inodes \cup {NoFile}]
      /\ tmp[p] = NoFile /\ fd[p] = NoFile
  BY <1>1, <1>2, StoreAssumption DEF Files, Refs, Accounts
<1>5. Counted' /\ Disk'
  BY <1>1, <1>3 DEF Files, Counted, Disk
<1>6. Refs'
  BY <1>1, <1>2, <1>3, <1>4 DEF Files, Refs, Used
<1>7. i \notin litter /\ \A q \in Procs : tmp[q] # i
  <2>1. CASE file = NoFile
    BY <1>2, <1>4, <2>1 DEF Files, Refs
  <2>2. CASE file # NoFile
    BY <1>2, <1>4, <2>2 DEF Files, Refs, Apart
  <2>3. QED
    BY <2>1, <2>2
<1>8. Apart'
  BY <1>1, <1>2, <1>3, <1>4, <1>7 DEF Files, Apart
<1>9. WholeFile'
  BY <1>2, <1>3 DEF WholeFile, Whole
<1>10. Progress'
  <2>1. ASSUME NEW q \in Procs, q # p
        PROVE  /\ pc'[q] = "overwrite" => disk'[fd'[q]].harm # "none"
               /\ pc'[q] \in {"write", "rename"} => disk'[tmp'[q]].of = Lines(q)'
               /\ pc'[q] = "rename" => Whole(disk'[tmp'[q]])
    BY <1>1, <1>3, <1>4, <1>7, <2>1 DEF Files, Progress, Whole, Refs, Lines, dump_taglist
  <2>2. pc'[p] = "overwrite" /\ disk'[fd'[p]].harm # "none"
    BY <1>3, <1>4
  <2>3. QED
    BY <2>1, <2>2 DEF Progress, Whole
<1>11. QED
  BY <1>5, <1>6, <1>8, <1>9, <1>10 DEF Files

LEMMA FilesOverwrite ==
  ASSUME Files, Accounts, NEW p \in Procs, Overwrite(p)
  PROVE  Files'
<1> DEFINE f == fd[p]
<1>1. /\ UNCHANGED <<clock, file, litter, mem, tmp, crashes, left>>
      /\ pc[p] = "overwrite" /\ fd' = [fd EXCEPT ![p] = NoFile]
      /\ \E to \in {"try", "done"} : pc' = [pc EXCEPT ![p] = to]
  BY DEF Overwrite, Failed, Go
<1>a. PICK e \in Dumps(disk[f], Lines(p)) :
        \E lines : Settle([disk EXCEPT ![f] = [e[1] EXCEPT !.lines = lines]])
  BY DEF Overwrite
<1>2. PICK lines : Settle([disk EXCEPT ![f] = [e[1] EXCEPT !.lines = lines]])
  BY <1>a
<1> DEFINE node == [e[1] EXCEPT !.lines = lines]
           d == [disk EXCEPT ![f] = node]
<1>3. f # NoFile /\ f \in DOMAIN disk /\ IsInode(disk[f]) /\ disk[f].harm # "none"
  BY <1>1 DEF Files, Refs, Disk, Progress
<1>4. IsInode(node) /\ node.harm # "none"
  <2>1. IsInode(e[1]) /\ e[1].harm # "none"
    BY <1>a, <1>3, DumpFacts
  <2>2. QED
    BY <2>1 DEF IsInode
<1> HIDE DEF node
<1>5. Settle(d)
  BY <1>2 DEF node
<1>6. /\ DOMAIN d = DOMAIN disk /\ d[f] = node
      /\ \A j \in DOMAIN disk : j # f => d[j] = disk[j]
  BY <1>3
<1>7. /\ \A q \in Procs : q # p => fd'[q] = fd[q] /\ pc'[q] = pc[q]
      /\ fd'[p] = NoFile /\ pc'[p] \in {"try", "done"}
      /\ fd' \in [Procs -> Inodes \cup {NoFile}]
  BY <1>1 DEF Files, Refs, Accounts
<1>8. \A q \in Procs : tmp[q] # f
  BY <1>3 DEF Files, Apart
<1> HIDE DEF f, d
<1>9. Disk' /\ DOMAIN disk' \subseteq Inodes /\ DOMAIN disk' \subseteq Used'
  BY <1>1, <1>4, <1>5, <1>6, SettledDisk DEF Files, Refs, Disk
<1>10. /\ \A i : i \in DOMAIN disk' <=> i \in DOMAIN disk /\ i \in Used'
       /\ \A i \in DOMAIN disk' : disk'[i] = d[i]
  BY <1>5, <1>6, SettleFacts
<1>11. Counted'
  BY <1>1 DEF Files, Counted
<1>12. Refs'
  BY <1>1, <1>7, <1>9, <1>10 DEF Files, Refs, Used
<1>13. Apart'
  BY <1>1, <1>6, <1>7, <1>10 DEF Files, Apart
<1>14. WholeFile'
  BY <1>1, <1>4, <1>6, <1>10, <1>12 DEF Files, WholeFile, Whole, Refs
<1>15. Progress'
  BY <1>1, <1>4, <1>6, <1>7, <1>8, <1>10, <1>12
     DEF Files, Progress, Whole, Lines, dump_taglist, Refs
<1>16. QED
  BY <1>9, <1>11, <1>12, <1>13, <1>14, <1>15 DEF Files

LEMMA FilesKill ==
  ASSUME Files, Accounts, NEW p \in Procs, Kill(p)
  PROVE  Files'
<1> DEFINE open == IF pc[p] = "write" THEN tmp[p] ELSE IF pc[p] = "overwrite" THEN fd[p] ELSE NoFile
<1>1. /\ UNCHANGED <<clock, file, left>> /\ crashes' = crashes + 1
      /\ pc' = [pc EXCEPT ![p] = "idle"] /\ mem' = [mem EXCEPT ![p] = Fresh]
      /\ fd' = [fd EXCEPT ![p] = NoFile] /\ tmp' = [tmp EXCEPT ![p] = NoFile]
      /\ litter' = litter \cup ({tmp[p]} \ {NoFile})
  BY DEF Kill
<1>2. PICK k : Settle([i \in DOMAIN disk |->
                  IF i = open THEN Cut(disk[i], Lines(p), k) ELSE disk[i]])
  BY DEF Kill
<1> DEFINE d == [i \in DOMAIN disk |-> IF i = open THEN Cut(disk[i], Lines(p), k) ELSE disk[i]]
<1>3. /\ DOMAIN d = DOMAIN disk /\ Settle(d)
      /\ \A i \in DOMAIN disk : IsInode(d[i]) /\ d[i].harm = disk[i].harm
                                /\ (i # open => d[i] = disk[i])
  BY <1>2, CutFacts DEF Files, Disk
<1>4. /\ \A q \in Procs : q # p => /\ fd'[q] = fd[q] /\ tmp'[q] = tmp[q] /\ pc'[q] = pc[q]
                                   /\ mem'[q] = mem[q]
      /\ fd'[p] = NoFile /\ tmp'[p] = NoFile /\ pc'[p] = "idle"
      /\ fd' \in [Procs -> Inodes \cup {NoFile}] /\ tmp' \in [Procs -> Inodes \cup {NoFile}]
      /\ mem' = [q \in Procs |-> mem'[q]]
  BY <1>1 DEF Files, Refs, Disk, Accounts
<1>5. /\ open # NoFile => open = tmp[p] \/ (open \in DOMAIN disk /\ disk[open].harm # "none")
      /\ \A q \in Procs : q # p => open = NoFile \/ tmp[q] # open
      /\ tmp[p] # NoFile => tmp[p] # file
  BY DEF Files, Refs, Apart, Progress
<1> HIDE DEF open, d
<1>6. Disk' /\ DOMAIN disk' \subseteq Inodes /\ DOMAIN disk' \subseteq Used'
  BY <1>3, <1>4, SettledDisk DEF Files, Refs
<1>7. /\ \A i : i \in DOMAIN disk' <=> i \in DOMAIN disk /\ i \in Used'
      /\ \A i \in DOMAIN disk' : disk'[i] = d[i]
  BY <1>3, SettleFacts
<1>8. Counted'
  <2>1. litter' = litter \/ litter' = litter \cup {tmp[p]}
    BY <1>1
  <2>2. QED
    BY <1>1, <2>1, CountedKept DEF Files
<1>a. tmp[p] \in Inodes \cup {NoFile} /\ (tmp[p] # NoFile => tmp[p] \notin DOMAIN disk')
  <2>1. /\ tmp[p] \in Inodes \cup {NoFile}
        /\ tmp[p] # NoFile => /\ tmp[p] # file
                              /\ \A q \in Procs : fd[q] # tmp[p] /\ (q # p => tmp[q] # tmp[p])
    BY DEF Files, Refs, Apart
  <2>2. tmp[p] # NoFile => tmp[p] \notin Used'
    BY <1>1, <1>4, <2>1 DEF Used
  <2>3. QED
    BY <1>7, <2>1, <2>2
<1>9. Refs'
  BY <1>1, <1>4, <1>6, <1>7, <1>a DEF Files, Refs, Used
<1>10. Apart'
  BY <1>1, <1>3, <1>4, <1>5, <1>7, <1>a DEF Files, Apart
<1>11. WholeFile'
  <2>1. ASSUME file # NoFile
        PROVE  Whole(d[file])
    <3>1. file \in DOMAIN disk /\ Whole(disk[file])
      BY <2>1 DEF Files, Refs, WholeFile
    <3>2. CASE file = open
      BY <1>3, <1>5, <2>1, <3>1, <3>2 DEF Whole
    <3>3. CASE file # open
      BY <1>3, <3>1, <3>3
    <3>4. QED
      BY <3>2, <3>3
  <2>2. QED
    BY <1>1, <1>7, <1>9, <2>1 DEF WholeFile, Whole, Refs
<1>12. Progress'
  BY <1>1, <1>3, <1>4, <1>5, <1>7, <1>9 DEF Files, Progress, Whole, Lines, dump_taglist, Refs
<1>13. QED
  BY <1>6, <1>8, <1>9, <1>10, <1>11, <1>12 DEF Files

-----------------------------------------------------------------------------
(* What a save has given the file                                          *)

\* The part of Given that is about one process.
GivenOf(p) == ok[p] => did[p].by # "nothing" /\ (did[p].lines = Lines(p) \/ did[p].lost)

\* A step of a process that reports no success leaves what the others report.
LEMMA GivenStays ==
  ASSUME Given, NEW p \in Procs, ~ok'[p],
         \A q \in Procs : q # p => ok'[q] = ok[q] /\ did'[q] = did[q] /\ mem'[q] = mem[q]
  PROVE  Given'
BY DEF Given, Lines, dump_taglist

\* One that does reports of the list that it has had all the time.
LEMMA GivenPut ==
  ASSUME Given, Accounts, NEW p \in Procs, UNCHANGED mem,
         ok' = [ok EXCEPT ![p] = TRUE],
         NEW by, by # "nothing", NEW lines, NEW lost,
         did' = [did EXCEPT ![p] = Deed(by, lines, lost)],
         lines = Lines(p) \/ lost
  PROVE  Given'
<1>1. /\ did'[p].by = by /\ did'[p].lines = lines /\ did'[p].lost = lost
      /\ \A q \in Procs : q # p => did'[q] = did[q]
  <2>1. /\ did = [q \in Procs |-> did[q]] /\ \A q \in Procs : IsDeed(did[q])
        /\ p \in Procs /\ did' = [did EXCEPT ![p] = Deed(by, lines, lost)]
    BY DEF Accounts
  <2>2. QED
    BY ONLY <2>1, DeedPut
<1>2. \A q \in Procs : q # p => ok'[q] = ok[q]
  BY DEF Accounts
<1>3. ASSUME NEW q \in Procs
      PROVE  GivenOf(q)'
  <2>1. CASE q = p
    BY <1>1, <2>1 DEF GivenOf, Lines, dump_taglist
  <2>2. CASE q # p
    BY <1>1, <1>2, <2>2 DEF Given, GivenOf, Lines, dump_taglist
  <2>3. QED
    BY <2>1, <2>2
<1>4. QED
  BY <1>3 DEF Given, GivenOf

LEMMA GivenKept ==
  ASSUME Given, Accounts, Files, [Next]_vars
  PROVE  Given'
<1>1. CASE Tick \/ UNCHANGED vars
  BY <1>1 DEF Tick, vars, local, Given, Lines, dump_taglist
<1>2. ASSUME NEW p \in Procs, Reload(p) \/ Update(p)
      PROVE  Given'
  <2>1. UNCHANGED <<ok, did>> /\ \E m : mem' = mem \/ mem' = [mem EXCEPT ![p] = m]
    BY <1>2 DEF Reload, Stat, CannotStat, Time, Open, CannotOpen, Read, Update, local, store
  <2>2. pc[p] # "done"
    BY <1>2 DEF Reload, Stat, CannotStat, Time, Open, CannotOpen, Read, Update, Go
  <2>3. ~ok'[p]
    BY <2>1, <2>2 DEF Accounts, Account
  <2>4. \A q \in Procs : q # p => mem'[q] = mem[q]
    BY <2>1 DEF Files, Disk
  <2>5. QED
    BY <2>1, <2>3, <2>4, GivenStays
<1>3. ASSUME NEW p \in Procs, Rename(p)
      PROVE  Given'
  <2> DEFINE lines == disk[tmp[p]].lines
             lost == disk[tmp[p]].harm # "none"
             by == "rename"
  <2>1. /\ UNCHANGED mem /\ ok' = [ok EXCEPT ![p] = TRUE]
        /\ did' = [did EXCEPT ![p] = Deed(by, lines, lost)]
    BY <1>3 DEF Rename
  <2>2. by # "nothing" /\ (lines = Lines(p) \/ lost)
    BY <1>3 DEF Rename, Go, Files, Progress, Whole
  <2> HIDE DEF lines, lost, by
  <2>3. QED
    BY <2>1, <2>2, GivenPut
<1>4. ASSUME NEW p \in Procs, Overwrite(p)
      PROVE  Given'
  <2>1. pc[p] = "overwrite" /\ UNCHANGED mem
    BY <1>4 DEF Overwrite
  <2>2. IsInode(disk[fd[p]])
    BY <2>1 DEF Files, Refs, Disk
  <2>3. PICK d \in Dumps(disk[fd[p]], Lines(p)) :
          /\ did' = [did EXCEPT ![p] = Deed("overwriting", d[1].lines, d[3])]
          /\ IF d[2] THEN ok' = [ok EXCEPT ![p] = TRUE] ELSE Failed(p, "overwrite")
    BY <1>4 DEF Overwrite
  <2> DEFINE lines == d[1].lines
             lost == d[3]
             by == "overwriting"
  <2>4. CASE d[2]
    <3>1. lines = Lines(p) \/ lost
      BY <2>2, <2>4, DumpFacts
    <3>2. did' = [did EXCEPT ![p] = Deed(by, lines, lost)] /\ by # "nothing"
      BY <2>3
    <3>3. ok' = [ok EXCEPT ![p] = TRUE]
      BY <2>3, <2>4
    <3> HIDE DEF lines, lost, by
    <3>4. QED
      BY <2>1, <3>1, <3>2, <3>3, GivenPut
  <2>5. CASE ~d[2]
    <3>1. UNCHANGED ok
      BY <2>3, <2>5 DEF Failed
    <3>2. ~ok'[p]
      BY <2>1, <3>1 DEF Accounts, Account
    <3> HIDE DEF lines, lost, by
    <3>3. \A q \in Procs : q # p => did'[q] = did[q]
      BY <2>3 DEF Accounts
    <3>4. QED
      BY <2>1, <3>1, <3>2, <3>3, GivenStays
  <2>6. QED
    BY <2>4, <2>5
<1>5. ASSUME NEW p \in Procs, Save(p), ~Rename(p), ~Overwrite(p)
      PROVE  Given'
  <2>1. CASE Leave(p)
    <3>1. /\ UNCHANGED mem /\ ok' = [ok EXCEPT ![p] = FALSE] /\ did' = [did EXCEPT ![p] = NoDeed]
      BY <2>1 DEF Leave
    <3>2. QED
      BY <3>1, GivenStays DEF Accounts
  <2>2. CASE Truncate(p)
    <3>1. /\ UNCHANGED <<mem, ok>> /\ pc[p] = "try"
          /\ did' = [did EXCEPT ![p] = Deed("overwriting", <<>>, FALSE)]
      BY <2>2 DEF Truncate, Go
    <3>2. ~ok'[p] /\ \A q \in Procs : q # p => did'[q] = did[q]
      BY <3>1 DEF Accounts, Account
    <3>3. QED
      BY <3>1, <3>2, GivenStays
  <2>3. CASE ~Leave(p) /\ ~Truncate(p)
    <3>1. UNCHANGED <<mem, ok, did>>
      BY <1>5, <2>3
         DEF Save, BeginSave, CannotStart, Mkstemp, CannotFdopen, Write, CannotRename, Unlink,
             CannotUnlink, Failed, store, local
    <3>2. QED
      BY <3>1 DEF Given, Lines, dump_taglist
  <2>4. QED
    BY <2>1, <2>2, <2>3
<1>6. ASSUME NEW p \in Procs, Kill(p)
      PROVE  Given'
  <2>1. /\ mem' = [mem EXCEPT ![p] = Fresh] /\ ok' = [ok EXCEPT ![p] = FALSE]
        /\ did' = [did EXCEPT ![p] = NoDeed]
    BY <1>6 DEF Kill
  <2>2. /\ ~ok'[p]
        /\ \A q \in Procs : q # p => ok'[q] = ok[q] /\ did'[q] = did[q] /\ mem'[q] = mem[q]
    BY <2>1 DEF Accounts, Files, Disk
  <2>3. QED
    BY <2>2, GivenStays
<1>7. QED
  BY <1>1, <1>2, <1>3, <1>4, <1>5, <1>6 DEF Next

-----------------------------------------------------------------------------
LEMMA InitIInv == Init => IInv
<1> SUFFICES ASSUME Init PROVE IInv
  OBVIOUS
<1>1. Accounts
  <2>1. IsDeed(NoDeed) /\ NoDeed.by = "nothing"
    BY DEF NoDeed, Deed, IsDeed
  <2>2. QED
    BY <2>1 DEF Init, Accounts, Account, NoJob, PCs
<1>2. Progress /\ Apart /\ Given
  BY StoreAssumption DEF Init, Progress, Apart, Given
<1>3. Counted
  BY FS_EmptySet DEF Init, Counted
<1>4. Disk /\ WholeFile /\ Refs
  <2>1. CASE file = NoFile /\ disk = <<>>
    BY <2>1 DEF Init, Disk, WholeFile, Refs, Used
  <2>2. ASSUME NEW i \in Inodes, NEW lines,
               file = i, disk = [j \in {i} |-> Inode(lines, 1, lines, "none")]
        PROVE  Disk /\ WholeFile /\ Refs
    <3>1. DOMAIN disk = {i} /\ IsInode(disk[i]) /\ Whole(disk[i])
      BY <2>2, InodeFacts DEF Whole
    <3>2. QED
      BY <2>2, <3>1 DEF Init, Disk, WholeFile, Refs, Used
  <2>3. QED
    BY <2>1, <2>2 DEF Init
<1>5. QED
  BY <1>1, <1>2, <1>3, <1>4, IInvParts DEF Files

LEMMA NextIInv == IInv /\ [Next]_vars => IInv'
<1> SUFFICES ASSUME IInv, [Next]_vars PROVE IInv'
  OBVIOUS
<1>1. Accounts /\ Files /\ Given
  BY IInvParts
<1>2. Accounts'
  BY <1>1, AccountsKept
<1>3. Files'
  <2>1. CASE Tick \/ UNCHANGED vars
    BY <1>1, <2>1, FilesTick
  <2>2. ASSUME NEW p \in Procs, Reload(p) \/ Update(p) \/ Save(p) \/ Kill(p)
        PROVE  Files'
    BY <1>1, <2>2, FilesUntouched, FilesOpen, FilesRead, FilesMkstemp, FilesCannotFdopen,
       FilesWrite, FilesUnlink, FilesRename, FilesTruncate, FilesOverwrite, FilesKill
       DEF Reload, Save
  <2>3. QED
    BY <2>1, <2>2 DEF Next
<1>4. Given'
  BY <1>1, GivenKept
<1>5. QED
  BY <1>2, <1>3, <1>4
     DEF IInv, Accounts, Files, TypeOK, Shape, NoLitter, Refs, Disk, Counted, Used

\* The inductive invariant: temporary files are apart, what is renamed is whole and the
\* list of the save, and whatever fails is counted where it leaves a file behind.
THEOREM Invariance == Spec => []IInv
<1>1. QED
  BY InitIInv, NextIInv, PTL DEF Spec

\* Names, temporary names and streams stand for inodes that exist, and a process has
\* exactly the ones that its next step needs: no path leaves a stream open.
THEOREM TypeCorrect == Spec => []TypeOK
<1>1. IInv => TypeOK
  BY DEF IInv
<1>2. QED
  BY <1>1, Invariance, PTL

\* __save_taglist_atomic keeps the file whole through every failure that is noticed
\* and every kill, whatever other processes do.
THEOREM FileWhole == Spec => []WholeFile
<1>1. IInv => WholeFile
  BY DEF IInv
<1>2. QED
  BY <1>1, Invariance, PTL

\* save_taglist_ex returns 1 only if it has given the file its whole list, or all but
\* what fclose lost, and 0 only if it has renamed nothing.
THEOREM ReportTrue == Spec => []SaveReported
<1>1. IInv => SaveReported
  BY DEF IInv, Account, Given, SaveReported
<1>2. QED
  BY <1>1, Invariance, PTL

\* A temporary file is left behind only by a kill, one by each, and by an fdopen or an
\* unlink that fails.
THEOREM LitterBounded == Spec => []NoLitter
<1>1. IInv => NoLitter
  BY DEF IInv
<1>2. QED
  BY <1>1, Invariance, PTL

-----------------------------------------------------------------------------
(* The times of the file                                                   *)

\* What any step does to the clock and the times: the clock goes forward, an inode that is
\* written gets the present time, and so does the file if it changes, unless it gets an
\* older inode, which is then marked late.
FileKept ==
  file' = file /\ (file # NoFile => /\ disk'[file].lines = disk[file].lines
                                    /\ disk'[file].mtime = disk[file].mtime
                                    /\ disk'[file].late = disk[file].late)
FileNew == file' # NoFile /\ clock' = clock /\ (disk'[file'].mtime = clock \/ disk'[file'].late)
Aging ==
  /\ clock' \in {clock, clock + 1}
  /\ \A i \in DOMAIN disk' :
       (i \in DOMAIN disk /\ disk'[i].mtime = disk[i].mtime) \/ disk'[i].mtime = clock
  /\ FileKept \/ FileNew

\* What is written has the time of writing.
LEMMA DumpTimes ==
  ASSUME NEW inode, IsInode(inode), NEW lines
  PROVE  /\ \A d \in Dumps(inode, lines) : IsInode(d[1]) /\ d[1].mtime = clock
         /\ \A k : Cut(inode, lines, k).mtime = clock
<1>1. ASSUME NEW l
      PROVE  IsInode(Dumped(inode, l)) /\ Dumped(inode, l).mtime = clock
  BY DEF IsInode, Dumped
<1>2. ASSUME NEW k
      PROVE  IsInode(Cut(inode, lines, k)) /\ Cut(inode, lines, k).mtime = clock
  BY <1>1 DEF Cut
<1>3. ASSUME NEW k
      PROVE  Flushed(Cut(inode, lines, k)).mtime = clock
  <2> DEFINE c == Cut(inode, lines, k)
  <2>1. IsInode(c) /\ c.mtime = clock
    BY <1>2
  <2> HIDE DEF c
  <2> DEFINE h == IF c.harm = "none" THEN "flush" ELSE c.harm
  <2>2. Flushed(c) = [c EXCEPT !.harm = h]
    BY DEF Flushed
  <2> HIDE DEF h
  <2>3. Flushed(c).mtime = clock
    BY <2>1, <2>2 DEF IsInode
  <2>4. QED
    BY <2>3 DEF c
<1>4. ASSUME NEW d \in Dumps(inode, lines)
      PROVE  IsInode(d[1]) /\ d[1].mtime = clock
  <2>1. \/ d = <<Dumped(inode, lines), TRUE, FALSE>>
        \/ \E k : d = <<Cut(inode, lines, k), FALSE, FALSE>>
        \/ \E k : d = <<Flushed(Cut(inode, lines, k)), TRUE, TRUE>>
    BY DEF Dumps
  <2>2. IsInode(d[1])
    BY DumpFacts
  <2>3. d[1].mtime = clock
    <3>1. CASE d = <<Dumped(inode, lines), TRUE, FALSE>>
      BY <1>1, <3>1
    <3>2. ASSUME NEW k, d = <<Cut(inode, lines, k), FALSE, FALSE>>
          PROVE  d[1].mtime = clock
      BY <1>2, <3>2
    <3>3. ASSUME NEW k, d = <<Flushed(Cut(inode, lines, k)), TRUE, TRUE>>
          PROVE  d[1].mtime = clock
      BY <1>3, <3>3
    <3>4. QED
      BY <2>1, <3>1, <3>2, <3>3
  <2>4. QED
    BY <2>2, <2>3
<1>5. QED
  BY <1>2, <1>4

\* A rename within the second of writing gives the file a time that is now.
LEMMA RenamedTimes ==
  ASSUME NEW inode, IsInode(inode)
  PROVE  /\ Renamed(inode).mtime = inode.mtime
         /\ Renamed(inode).mtime = clock \/ Renamed(inode).late
BY DEF IsInode, Renamed

\* Steps that leave the inodes alone, or remove some that have no name.
LEMMA AgingSettled ==
  ASSUME Files, UNCHANGED <<clock, file>>, Settle(disk)
  PROVE  Aging
<1>1. /\ \A i : i \in DOMAIN disk' <=> i \in DOMAIN disk /\ i \in Used'
      /\ \A i \in DOMAIN disk' : disk'[i] = disk[i]
  BY SettleFacts
<1>2. FileKept
  BY <1>1 DEF Files, Refs, Used, FileKept
<1>3. QED
  BY <1>1, <1>2 DEF Aging

\* Steps that change neither the name nor an inode.
LEMMA AgingUntouched ==
  ASSUME clock' \in {clock, clock + 1}, UNCHANGED <<file, disk>>
  PROVE  Aging
BY DEF Aging, FileKept

\* An inode that is made has the time of its making, be it the file or a temporary one.
LEMMA AgingNew ==
  ASSUME Files, NEW p \in Procs, Mkstemp(p) \/ Truncate(p)
  PROVE  Aging
<1>a. PICK i \in Inodes :
        /\ \E lines, harm : disk' = With(i, Inode(<<>>, clock, lines, harm))
        /\ i = file' \/ (i \notin DOMAIN disk /\ UNCHANGED file)
  BY DEF Mkstemp, Truncate, IsFree
<1>1. PICK lines, harm : disk' = With(i, Inode(<<>>, clock, lines, harm))
  BY <1>a
<1>2. UNCHANGED clock
  BY DEF Mkstemp, Truncate
<1> DEFINE node == Inode(<<>>, clock, lines, harm)
<1>3. node.mtime = clock
  BY DEF Inode
<1> HIDE DEF node
<1>4. /\ DOMAIN disk' = DOMAIN disk \cup {i}
      /\ disk'[i] = node
      /\ \A j \in DOMAIN disk : j # i => disk'[j] = disk[j]
  <2>1. disk' = With(i, node)
    BY <1>1 DEF node
  <2>2. QED
    BY <2>1, WithFacts
<1>5. FileKept \/ FileNew
  <2>1. i # NoFile
    BY StoreAssumption
  <2>2. QED
    BY <1>a, <1>2, <1>3, <1>4, <2>1 DEF FileKept, FileNew, Files, Refs
<1>6. QED
  BY <1>2, <1>3, <1>4, <1>5 DEF Aging

LEMMA AgingWrite ==
  ASSUME Files, NEW p \in Procs, Write(p)
  PROVE  Aging
<1> DEFINE t == tmp[p]
<1>1. PICK d \in Dumps(disk[t], Lines(p)) : disk' = [disk EXCEPT ![t] = d[1]]
  BY DEF Write
<1>2. UNCHANGED <<clock, file>> /\ pc[p] = "write"
  BY DEF Write
<1>3. t # NoFile /\ t \in DOMAIN disk /\ IsInode(disk[t]) /\ t # file
  BY <1>2 DEF Files, Refs, Disk, Apart
<1>4. d[1].mtime = clock
  BY <1>1, <1>3, DumpTimes
<1>5. /\ DOMAIN disk' = DOMAIN disk
      /\ disk'[t] = d[1] /\ \A j \in DOMAIN disk : j # t => disk'[j] = disk[j]
  BY <1>1, <1>3
<1> HIDE DEF t
<1>6. QED
  BY <1>2, <1>3, <1>4, <1>5 DEF Aging, FileKept, Files, Refs

LEMMA AgingRename ==
  ASSUME Files, NEW p \in Procs, Rename(p)
  PROVE  Aging
<1> DEFINE t == tmp[p]
           d == [disk EXCEPT ![t] = Renamed(@)]
<1>1. UNCHANGED clock /\ Settle(d) /\ file' = t /\ pc[p] = "rename"
  BY DEF Rename, Go
<1>2. t # NoFile /\ t \in DOMAIN disk /\ IsInode(disk[t])
  BY <1>1 DEF Files, Refs, Disk
<1>3. /\ DOMAIN d = DOMAIN disk
      /\ \A j \in DOMAIN disk : j # t => d[j] = disk[j]
      /\ d[t] = Renamed(disk[t])
  BY <1>2
<1>4. d[t].mtime = disk[t].mtime /\ (d[t].mtime = clock \/ d[t].late)
  BY <1>2, <1>3, RenamedTimes
<1> HIDE DEF t, d
<1>5. /\ \A i : i \in DOMAIN disk' <=> i \in DOMAIN d /\ i \in Used'
      /\ \A i \in DOMAIN disk' : disk'[i] = d[i]
  BY <1>1, SettleFacts
<1>6. t \in DOMAIN disk'
  BY <1>1, <1>2, <1>3, <1>5 DEF Used
<1>7. FileNew
  BY <1>1, <1>2, <1>4, <1>5, <1>6 DEF FileNew
<1>8. QED
  BY <1>1, <1>3, <1>4, <1>5, <1>7 DEF Aging

\* Steps that write through a stream, of the file or of another inode.
LEMMA AgingWritten ==
  ASSUME Files, UNCHANGED <<clock, file>>, NEW d, Settle(d), NEW f,
         DOMAIN d = DOMAIN disk, \A i \in DOMAIN disk : i # f => d[i] = disk[i],
         f \in DOMAIN disk => d[f].mtime = clock
  PROVE  Aging
<1>1. /\ \A i : i \in DOMAIN disk' <=> i \in DOMAIN d /\ i \in Used'
      /\ \A i \in DOMAIN disk' : disk'[i] = d[i]
  BY SettleFacts
<1>2. FileKept \/ FileNew
  BY <1>1 DEF FileKept, FileNew, Files, Refs, Used
<1>3. QED
  BY <1>1, <1>2 DEF Aging

LEMMA AgingOverwrite ==
  ASSUME Files, NEW p \in Procs, Overwrite(p)
  PROVE  Aging
<1> DEFINE f == fd[p]
<1>1. UNCHANGED <<clock, file>> /\ pc[p] = "overwrite"
  BY DEF Overwrite, Go
<1>2. PICK e \in Dumps(disk[f], Lines(p)) :
        \E lines : Settle([disk EXCEPT ![f] = [e[1] EXCEPT !.lines = lines]])
  BY DEF Overwrite
<1>3. PICK lines : Settle([disk EXCEPT ![f] = [e[1] EXCEPT !.lines = lines]])
  BY <1>2
<1> DEFINE node == [e[1] EXCEPT !.lines = lines]
           d == [disk EXCEPT ![f] = node]
<1>4. f \in DOMAIN disk /\ IsInode(disk[f])
  BY <1>1 DEF Files, Refs, Disk
<1>5. node.mtime = clock
  <2>1. IsInode(e[1]) /\ e[1].mtime = clock
    BY <1>2, <1>4, DumpTimes
  <2>2. QED
    BY <2>1 DEF IsInode
<1> HIDE DEF node
<1>6. Settle(d)
  BY <1>3 DEF node
<1>7. DOMAIN d = DOMAIN disk /\ d[f] = node /\ \A j \in DOMAIN disk : j # f => d[j] = disk[j]
  BY <1>4
<1> HIDE DEF f, d
<1>8. QED
  BY <1>1, <1>5, <1>6, <1>7, AgingWritten

LEMMA AgingKill ==
  ASSUME Files, NEW p \in Procs, Kill(p)
  PROVE  Aging
<1> DEFINE open == IF pc[p] = "write" THEN tmp[p] ELSE IF pc[p] = "overwrite" THEN fd[p] ELSE NoFile
<1>1. UNCHANGED <<clock, file>>
  BY DEF Kill
<1>2. PICK k : Settle([i \in DOMAIN disk |->
                  IF i = open THEN Cut(disk[i], Lines(p), k) ELSE disk[i]])
  BY DEF Kill
<1> DEFINE d == [i \in DOMAIN disk |-> IF i = open THEN Cut(disk[i], Lines(p), k) ELSE disk[i]]
<1>3. DOMAIN d = DOMAIN disk /\ Settle(d) /\ \A j \in DOMAIN disk : j # open => d[j] = disk[j]
  BY <1>2
<1>4. open \in DOMAIN disk => d[open].mtime = clock
  BY DumpTimes DEF Files, Disk
<1> HIDE DEF open, d
<1>5. QED
  BY <1>1, <1>3, <1>4, AgingWritten

LEMMA StepAges ==
  ASSUME Files, [Next]_vars
  PROVE  Aging
<1>1. clock \in Nat
  BY StoreAssumption DEF Files, Counted
<1>2. CASE Tick \/ UNCHANGED vars
  <2>1. clock' \in {clock, clock + 1} /\ UNCHANGED <<file, disk>>
    BY <1>2 DEF Tick, vars, store
  <2>2. QED
    BY <2>1, AgingUntouched
<1>3. ASSUME NEW p \in Procs, Reload(p) \/ Update(p) \/ Save(p) \/ Kill(p)
      PROVE  Aging
  <2>1. CASE \/ Stat(p) \/ CannotStat(p) \/ Time(p) \/ Open(p) \/ CannotOpen(p) \/ Update(p)
             \/ BeginSave(p) \/ CannotStart(p) \/ CannotFdopen(p) \/ CannotRename(p) \/ Leave(p)
    <3>1. UNCHANGED <<clock, file, disk>>
      BY <2>1 DEF Stat, CannotStat, Time, Open, CannotOpen, Update, BeginSave, CannotStart,
                  CannotFdopen, CannotRename, Leave, store
    <3>2. QED
      BY <3>1, AgingUntouched
  <2>2. CASE Read(p) \/ Unlink(p) \/ CannotUnlink(p)
    <3>1. UNCHANGED <<clock, file>> /\ Settle(disk)
      BY <2>2 DEF Read, Unlink, CannotUnlink
    <3>2. QED
      BY <3>1, AgingSettled
  <2>3. QED
    BY <1>3, <2>1, <2>2, AgingNew, AgingWrite, AgingRename, AgingOverwrite, AgingKill
       DEF Reload, Save
<1>4. QED
  BY <1>2, <1>3 DEF Next

-----------------------------------------------------------------------------
\* The part of NoStaleList that is about one process.
FreshOf(p) ==
  pc[p] = "time" /\ NotChanged(p) =>
    mem[p].base = stat[p].lines \/ stat[p].late \/ stat[p].mtime = 0

\* A process whose notes a step leaves alone, and that it does not take to where it
\* notes more.
Same(q) ==
  /\ mem'[q] = [field \in {"list", "fts", "rts", "base"} |-> mem'[q][field]]
  /\ mem'[q].fts = mem[q].fts /\ mem'[q].rts = mem[q].rts /\ mem'[q].base = mem[q].base
  /\ stat'[q] = stat[q]
  /\ \/ pc'[q] = pc[q] /\ fd'[q] = fd[q]
     \/ pc'[q] \notin {"time", "open", "read"}

\* What the proofs below assume of the times.
Times == clock \in Nat /\ Noted

\* Current(m, lines) in the next state, whatever m and lines are.
StillCurrent(m, lines) ==
  file' # NoFile /\ (disk'[file'].mtime = m /\ ~disk'[file'].late => disk'[file'].lines = lines)

\* The file that holds what it held in a past second does so after any step, or has changed.
LEMMA CurrentKept ==
  ASSUME Times, Aging, NEW m \in Nat, m < clock, NEW lines, Current(m, lines)
  PROVE  StillCurrent(m, lines)
<1>1. CASE FileKept
  BY <1>1 DEF FileKept, Current, StillCurrent
<1>2. CASE FileNew
  BY <1>2 DEF FileNew, StillCurrent, Times
<1>3. QED
  BY <1>1, <1>2 DEF Aging

\* What is true of the times a process has, and of the list that it has, stays true.
LEMMA PastKept ==
  ASSUME Times, Aging, NEW q \in Procs,
         mem'[q] = [field \in {"list", "fts", "rts", "base"} |-> mem'[q][field]],
         mem'[q].fts = mem[q].fts, mem'[q].rts = mem[q].rts, mem'[q].base = mem[q].base
  PROVE  /\ mem'[q].rts \in 0 .. clock' /\ mem'[q].fts \in 0 .. mem'[q].rts
         /\ mem'[q].fts # mem'[q].rts => StillCurrent(mem'[q].fts, mem'[q].base)
<1>1. clock \in Nat /\ clock' \in {clock, clock + 1}
  BY DEF Times, Aging
<1>2. /\ mem[q].rts \in 0 .. clock /\ mem[q].fts \in 0 .. mem[q].rts
      /\ mem[q].fts # mem[q].rts => Current(mem[q].fts, mem[q].base)
  BY DEF Times, Noted, Notes
<1>3. ASSUME mem[q].fts # mem[q].rts
      PROVE  StillCurrent(mem[q].fts, mem[q].base)
  <2>1. mem[q].fts \in Nat /\ mem[q].fts < clock
    BY <1>1, <1>2, <1>3
  <2> DEFINE m == mem[q].fts
             lines == mem[q].base
  <2>2. Current(m, lines)
    BY <1>2, <1>3
  <2>3. QED
    BY <2>1, <2>2, CurrentKept
<1>4. QED
  BY <1>1, <1>2, <1>3

\* A process whose notes a step leaves alone still has true ones.
LEMMA SameKept ==
  ASSUME Times, Files, Aging, NEW q \in Procs, Same(q), FreshOf(q)
  PROVE  Notes(q)' /\ FreshOf(q)'
<1>1. clock \in Nat /\ clock' \in {clock, clock + 1}
  BY DEF Times, Aging
<1>2. /\ mem'[q].rts \in 0 .. clock' /\ mem'[q].fts \in 0 .. mem'[q].rts
      /\ mem'[q].fts # mem'[q].rts => StillCurrent(mem'[q].fts, mem'[q].base)
  BY PastKept DEF Same
<1>3. Notes(q) /\ stat'[q] = stat[q]
  BY DEF Times, Noted, Same
<1>4. stat'[q].mtime \in 0 .. clock' /\ (pc'[q] \in {"open", "read"} => stat'[q].now \in stat'[q].mtime .. clock')
  BY <1>1, <1>3 DEF Notes, Same
<1>5. ASSUME pc'[q] = "read", stat'[q].mtime # stat'[q].now
      PROVE  file' # NoFile /\ (fd'[q] = file' \/ disk'[file'].mtime # stat'[q].mtime \/ disk'[file'].late)
  <2>1. /\ pc[q] = "read" /\ fd'[q] = fd[q] /\ stat[q].now \in stat[q].mtime .. clock
        /\ stat[q].mtime # stat[q].now /\ stat[q].mtime \in 0 .. clock
        /\ file # NoFile /\ (fd[q] = file \/ disk[file].mtime # stat[q].mtime \/ disk[file].late)
    BY <1>3, <1>5 DEF Same, Notes
  <2>2. stat[q].mtime # clock
    BY <1>1, <2>1
  <2>3. CASE FileKept
    BY <1>3, <2>1, <2>3 DEF FileKept
  <2>4. CASE FileNew
    BY <1>3, <2>2, <2>4 DEF FileNew
  <2>5. QED
    BY <2>3, <2>4 DEF Aging
<1>6. Notes(q)'
  <2>1. /\ mem'[q] = [field \in {"list", "fts", "rts", "base"} |-> mem'[q][field]]
        /\ stat'[q] = [field \in {"mtime", "now", "lines", "late"} |-> stat'[q][field]]
    BY <1>3 DEF Same, Notes
  <2>2. QED
    BY <1>2, <1>4, <1>5, <2>1 DEF Notes, Current, StillCurrent
<1>7. FreshOf(q)'
  BY DEF FreshOf, NotChanged, Same
<1>8. QED
  BY <1>6, <1>7

\* reload_taglist asks for the time of the file.
LEMMA StatNotes ==
  ASSUME Times, Files, Accounts, Aging, NEW p \in Procs, Stat(p)
  PROVE  Notes(p)' /\ FreshOf(p)'
<1> DEFINE s == IF file = NoFile THEN NoStat
                ELSE [NoStat EXCEPT !.mtime = disk[file].mtime, !.lines = disk[file].lines,
                                    !.late = disk[file].late]
<1>1. /\ UNCHANGED <<clock, file, disk, mem, fd>> /\ pc'[p] = "time"
      /\ stat'[p] = s
  BY DEF Stat, Go, store, Accounts, Times, Noted
<1>2. /\ s = [field \in {"mtime", "now", "lines", "late"} |-> s[field]]
      /\ s.mtime = IF file = NoFile THEN 0 ELSE disk[file].mtime
      /\ file # NoFile => s.lines = disk[file].lines /\ s.late = disk[file].late
  <2>1. CASE file = NoFile
    BY <2>1 DEF NoStat
  <2>2. CASE file # NoFile
    <3>1. s = [NoStat EXCEPT !.mtime = disk[file].mtime, !.lines = disk[file].lines,
                             !.late = disk[file].late]
      BY <2>2
    <3> HIDE DEF s
    <3>2. QED
      BY <2>2, <3>1 DEF NoStat
  <2>3. QED
    BY <2>1, <2>2
<1> HIDE DEF s
<1>3. clock \in Nat /\ Notes(p) /\ s.mtime \in 0 .. clock
  BY <1>2 DEF Times, Noted, Files, Refs
<1>4. Notes(p)'
  BY <1>1, <1>2, <1>3 DEF Notes, Current
<1>5. FreshOf(p)'
  <2>1. SUFFICES ASSUME s.mtime = mem[p].fts, mem[p].rts # mem[p].fts
                 PROVE  mem[p].base = s.lines \/ s.late
    BY <1>1 DEF FreshOf, NotChanged
  <2>2. Current(mem[p].fts, mem[p].base)
    BY <1>3, <2>1 DEF Notes
  <2>3. QED
    BY <1>2, <2>1, <2>2 DEF Current
<1>6. QED
  BY <1>4, <1>5

\* stat fails on the file: no time is taken for its own.
LEMMA CannotStatNotes ==
  ASSUME Times, Files, Accounts, NEW p \in Procs, CannotStat(p)
  PROVE  Notes(p)' /\ FreshOf(p)'
<1>1. /\ UNCHANGED <<clock, file, disk, mem, fd>> /\ Notes(p) /\ clock \in Nat
      /\ pc'[p] = "time" /\ stat'[p] = NoStat
  BY DEF CannotStat, Go, store, Accounts, Times, Noted
<1>2. /\ NoStat = [field \in {"mtime", "now", "lines", "late"} |-> NoStat[field]]
      /\ NoStat.mtime = 0
  BY DEF NoStat
<1>3. QED
  BY <1>1, <1>2 DEF Notes, Current, FreshOf

\* fopen fails: nothing is noted any more.
LEMMA CannotOpenNotes ==
  ASSUME Times, Files, Accounts, NEW p \in Procs, CannotOpen(p)
  PROVE  Notes(p)' /\ FreshOf(p)'
<1>1. /\ UNCHANGED <<clock, file, disk, mem, fd>> /\ Notes(p) /\ clock \in Nat
      /\ pc'[p] = "idle" /\ stat'[p] = NoStat
  BY DEF CannotOpen, Go, store, Accounts, Times, Noted
<1>2. /\ NoStat = [field \in {"mtime", "now", "lines", "late"} |-> NoStat[field]]
      /\ NoStat.mtime = 0
  BY DEF NoStat
<1>3. QED
  BY <1>1, <1>2 DEF Notes, Current, FreshOf

\* reload_taglist asks for the time.
LEMMA TimeNotes ==
  ASSUME Times, Files, Accounts, NEW p \in Procs, Time(p)
  PROVE  Notes(p)' /\ FreshOf(p)'
<1>1. UNCHANGED <<clock, file, disk, mem, fd>> /\ Notes(p) /\ clock \in Nat
  BY DEF Time, store, Times, Noted
<1>2. CASE pc'[p] = "idle" /\ stat'[p] = NoStat
  <2>1. Notes(p)'
    BY <1>1, <1>2 DEF Notes, NoStat, Current
  <2>2. FreshOf(p)'
    BY <1>2 DEF FreshOf
  <2>3. QED
    BY <2>1, <2>2
<1>3. CASE /\ pc'[p] = "open"
           /\ stat'[p] = [NoStat EXCEPT !.mtime = stat[p].mtime, !.now = clock]
  <2>1. /\ stat'[p] = [field \in {"mtime", "now", "lines", "late"} |-> stat'[p][field]]
        /\ stat'[p].mtime = stat[p].mtime /\ stat'[p].now = clock
    BY <1>3 DEF NoStat
  <2>2. stat[p].mtime \in 0 .. clock
    BY <1>1 DEF Notes
  <2>3. Notes(p)'
    <3>1. pc'[p] = "open"
      BY <1>3
    <3>2. QED
      BY ONLY <1>1, <2>1, <2>2, <3>1 DEF Notes, Current
  <2>4. FreshOf(p)'
    BY <1>3 DEF FreshOf
  <2>5. QED
    BY <2>3, <2>4
<1>4. QED
  BY <1>2, <1>3 DEF Time, Go, Accounts, Times, Noted

\* It opens the file, or finds none.
LEMMA OpenNotes ==
  ASSUME Times, Files, Accounts, NEW p \in Procs, Open(p)
  PROVE  Notes(p)' /\ FreshOf(p)'
<1>1. /\ UNCHANGED <<clock, file, disk>> /\ Notes(p) /\ clock \in Nat
      /\ pc[p] = "open" /\ fd'[p] = file
  BY DEF Open, Go, store, Times, Noted, Files, Refs
<1>2. /\ pc'[p] \in {"idle", "read"} /\ (pc'[p] = "read" => file # NoFile /\ stat'[p] = stat[p])
      /\ stat'[p] \in {stat[p], NoStat}
      /\ mem'[p] \in {mem[p], Fresh}
  BY DEF Open, Go, Accounts, Times, Noted, Files, Disk
<1>3. /\ stat'[p] = [field \in {"mtime", "now", "lines", "late"} |-> stat'[p][field]]
      /\ stat'[p].mtime \in 0 .. clock
  BY <1>1, <1>2 DEF Notes, NoStat
<1>4. /\ mem'[p] = [field \in {"list", "fts", "rts", "base"} |-> mem'[p][field]]
      /\ mem'[p].rts \in 0 .. clock /\ mem'[p].fts \in 0 .. mem'[p].rts
      /\ mem'[p].fts # mem'[p].rts => Current(mem'[p].fts, mem'[p].base)
  BY <1>1, <1>2 DEF Notes, Fresh, Loaded
<1>5. Notes(p)'
  BY <1>1, <1>2, <1>3, <1>4 DEF Notes, Current
<1>6. FreshOf(p)'
  BY <1>2 DEF FreshOf
<1>7. QED
  BY <1>5, <1>6

\* It reads what it has open.
LEMMA ReadNotes ==
  ASSUME Times, Files, Accounts, Aging, NEW p \in Procs, Read(p)
  PROVE  Notes(p)' /\ FreshOf(p)'
<1> DEFINE lines == disk[fd[p]].lines
           new == Loaded(lines, stat[p].mtime, stat[p].now, read_taglist(lines, TRUE, Prefix[p]))
<1>1. /\ UNCHANGED <<clock, file>> /\ Notes(p) /\ clock \in Nat
      /\ pc[p] = "read" /\ pc'[p] = "idle" /\ stat'[p] = NoStat
      /\ mem'[p] = new /\ fd[p] \in DOMAIN disk
  BY DEF Read, Go, Accounts, Times, Noted, Files, Disk, Refs
<1>2. /\ new = [field \in {"list", "fts", "rts", "base"} |-> new[field]]
      /\ new.fts = stat[p].mtime /\ new.rts = stat[p].now /\ new.base = lines
  BY DEF Loaded
<1> HIDE DEF new
<1>3. stat[p].mtime \in Nat /\ stat[p].mtime <= stat[p].now /\ stat[p].now <= clock /\ stat[p].now \in Nat
  BY <1>1 DEF Notes
<1>4. ASSUME stat[p].mtime # stat[p].now
      PROVE  StillCurrent(stat[p].mtime, lines)
  <2>1. Current(stat[p].mtime, lines)
    BY <1>1, <1>4 DEF Notes, Current
  <2>2. stat[p].mtime < clock
    BY <1>1, <1>3, <1>4
  <2> HIDE DEF lines
  <2>3. QED
    BY <1>3, <2>1, <2>2, CurrentKept
<1> HIDE DEF lines
<1>5. Notes(p)'
  BY <1>1, <1>2, <1>3, <1>4 DEF Notes, NoStat, Current, StillCurrent
<1>6. FreshOf(p)'
  BY <1>1 DEF FreshOf
<1>7. QED
  BY <1>5, <1>6

\* What the other steps, those of saving, leave of the notes.
LEMMA SaveNotes ==
  ASSUME Times, Files, Accounts, NEW p \in Procs, Update(p) \/ Save(p)
  PROVE  Same(p)
<1>1. Notes(p)
  BY DEF Times, Noted
<1>2. CASE Update(p)
  <2>1. PICK list : mem'[p] = [mem[p] EXCEPT !.list = list]
    BY <1>2 DEF Update, Files, Disk
  <2>2. /\ mem'[p] = [field \in {"list", "fts", "rts", "base"} |-> mem'[p][field]]
        /\ mem'[p].fts = mem[p].fts /\ mem'[p].rts = mem[p].rts /\ mem'[p].base = mem[p].base
    BY <1>1, <2>1 DEF Notes
  <2>3. UNCHANGED <<pc, stat, fd>>
    BY <1>2 DEF Update
  <2>4. QED
    BY <2>2, <2>3 DEF Same
<1>3. CASE Save(p)
  <2>1. UNCHANGED <<mem, stat>>
    BY <1>3, ZenonT(40)
       DEF Save, BeginSave, CannotStart, Mkstemp, CannotFdopen, Write, Rename, CannotRename, Unlink,
           CannotUnlink, Truncate, Overwrite, Leave, store, local
  <2>2. \E to \in {"idle", "try", "write", "rename", "unlink", "overwrite", "done"} :
          pc' = [pc EXCEPT ![p] = to]
    BY <1>3
       DEF Save, BeginSave, CannotStart, Mkstemp, CannotFdopen, Write, Rename, CannotRename, Unlink,
           CannotUnlink, Truncate, Overwrite, Leave, Failed, Go
  <2>3. pc'[p] \notin {"time", "open", "read"}
    BY <2>2 DEF Accounts
  <2>4. QED
    BY <1>1, <2>1, <2>3 DEF Same, Notes
<1>4. QED
  BY <1>2, <1>3

\* Of the notes of a process that starts again nothing is left.
LEMMA KillNotes ==
  ASSUME Times, Files, Accounts, NEW p \in Procs, Kill(p)
  PROVE  Notes(p)' /\ FreshOf(p)'
<1>1. mem'[p] = Fresh /\ stat'[p] = NoStat /\ pc'[p] = "idle" /\ clock' = clock /\ clock \in Nat
  BY DEF Kill, Accounts, Times, Noted, Files, Disk
<1>2. /\ Fresh = [field \in {"list", "fts", "rts", "base"} |-> Fresh[field]]
      /\ Fresh.fts = 0 /\ Fresh.rts = 0
      /\ NoStat = [field \in {"mtime", "now", "lines", "late"} |-> NoStat[field]]
      /\ NoStat.mtime = 0
  BY DEF Fresh, Loaded, NoStat
<1>3. QED
  BY <1>1, <1>2 DEF Notes, FreshOf

\* A step of one process leaves the notes of the others alone.
LEMMA OthersSame ==
  ASSUME Times, Files, Accounts, NEW p \in Procs, Reload(p) \/ Update(p) \/ Save(p) \/ Kill(p),
         NEW q \in Procs, q # p
  PROVE  Same(q)
<1>1. Notes(q)
  BY DEF Times, Noted
<1>2. /\ UNCHANGED mem \/ (\E m : mem' = [mem EXCEPT ![p] = m])
      /\ UNCHANGED stat \/ (\E s : stat' = [stat EXCEPT ![p] = s])
      /\ UNCHANGED fd \/ (\E f : fd' = [fd EXCEPT ![p] = f])
      /\ UNCHANGED pc \/ (\E to : pc' = [pc EXCEPT ![p] = to])
  <2>1. CASE Reload(p)
    BY <2>1 DEF Reload, Stat, CannotStat, Time, Open, CannotOpen, Read, Go
  <2>2. CASE Update(p) \/ Kill(p)
    BY <2>2 DEF Update, Kill, store
  <2>3. CASE Save(p)
    BY <2>3
       DEF Save, BeginSave, CannotStart, Mkstemp, CannotFdopen, Write, Rename, CannotRename, Unlink,
           CannotUnlink, Truncate, Overwrite, Leave, Failed, Go, store, local
  <2>4. QED
    BY <2>1, <2>2, <2>3
<1>3. mem'[q] = mem[q] /\ stat'[q] = stat[q] /\ fd'[q] = fd[q] /\ pc'[q] = pc[q]
  BY <1>2 DEF Accounts, Times, Noted, Files, Disk, Refs
<1>4. QED
  BY <1>1, <1>3 DEF Same, Notes

LEMMA InitTimes == Init => TimesInv
<1> SUFFICES ASSUME Init PROVE TimesInv
  OBVIOUS
<1>1. IInv
  BY InitIInv
<1>2. \A i \in DOMAIN disk : disk[i].mtime = 1
  <2>1. CASE file = NoFile /\ disk = <<>>
    BY <2>1
  <2>2. ASSUME NEW i \in Inodes, NEW lines,
               file = i, disk = [j \in {i} |-> Inode(lines, 1, lines, "none")]
        PROVE  \A j \in DOMAIN disk : disk[j].mtime = 1
    BY <2>2 DEF Inode
  <2>3. QED
    BY <2>1, <2>2 DEF Init
<1>3. /\ Fresh = [field \in {"list", "fts", "rts", "base"} |-> Fresh[field]]
      /\ Fresh.fts = 0 /\ Fresh.rts = 0
      /\ NoStat = [field \in {"mtime", "now", "lines", "late"} |-> NoStat[field]]
      /\ NoStat.mtime = 0
  BY DEF Fresh, Loaded, NoStat
<1>4. Noted
  BY <1>2, <1>3 DEF Init, Noted, Notes
<1>5. NoStaleList
  BY DEF Init, NoStaleList
<1>6. QED
  BY <1>1, <1>4, <1>5 DEF TimesInv

LEMMA NextTimes == TimesInv /\ [Next]_vars => TimesInv'
<1> SUFFICES ASSUME TimesInv, [Next]_vars PROVE TimesInv'
  OBVIOUS
<1>1. IInv' /\ Accounts /\ Files
  BY NextIInv, IInvParts DEF TimesInv
<1>2. Aging
  BY <1>1, StepAges
<1>3. Times /\ clock \in Nat /\ clock' \in {clock, clock + 1}
  BY <1>1, <1>2, StoreAssumption DEF Times, TimesInv, Files, Counted, Aging
<1>4. \A i \in DOMAIN disk' : disk'[i].mtime \in 1 .. clock'
  <2>1. clock >= 1
    BY <1>1, StoreAssumption DEF Files, Counted
  <2>2. \A i \in DOMAIN disk : disk[i].mtime \in 1 .. clock
    BY DEF TimesInv, Noted
  <2>3. QED
    BY <1>2, <1>3, <2>1, <2>2 DEF Aging
<1>5. \A q \in Procs : FreshOf(q)
  BY DEF TimesInv, NoStaleList, FreshOf
<1>6. stat' = [q \in Procs |-> stat'[q]]
  <2>1. stat = [q \in Procs |-> stat[q]]
    BY SMTT(60) DEF TimesInv, Noted
  <2>2. UNCHANGED stat \/ (\E q, s : stat' = [stat EXCEPT ![q] = s])
    BY ZenonT(40)
       DEF Next, Reload, Stat, CannotStat, Time, Open, CannotOpen, Read, Update, Save, Kill,
           BeginSave, CannotStart, Mkstemp, CannotFdopen, Write, Rename, CannotRename, Unlink,
           CannotUnlink, Truncate, Overwrite, Leave, Tick, vars, store, local
  <2>3. QED
    BY <2>1, <2>2
<1>7. \A q \in Procs : Notes(q)' /\ FreshOf(q)'
  <2>1. CASE Tick \/ UNCHANGED vars
    <3>1. UNCHANGED <<mem, stat, pc, fd>>
      BY <2>1 DEF Tick, vars, local
    <3>2. \A q \in Procs : Same(q)
      BY <1>3, <3>1 DEF Same, Times, Noted, Notes
    <3>3. QED
      BY <1>1, <1>2, <1>3, <1>5, <3>2, SameKept
  <2>2. ASSUME NEW p \in Procs, Reload(p) \/ Update(p) \/ Save(p) \/ Kill(p), NEW q \in Procs
        PROVE  Notes(q)' /\ FreshOf(q)'
    <3>1. CASE q # p
      BY <1>1, <1>2, <1>3, <1>5, <2>2, <3>1, OthersSame, SameKept
    <3>2. CASE Update(p) \/ Save(p)
      BY <1>1, <1>2, <1>3, <1>5, <3>1, <3>2, SaveNotes, SameKept
    <3>3. CASE Reload(p)
      BY <1>1, <1>2, <1>3, <3>1, <3>3, StatNotes, CannotStatNotes, TimeNotes, OpenNotes,
         CannotOpenNotes, ReadNotes DEF Reload
    <3>4. CASE Kill(p)
      BY <1>1, <1>3, <3>1, <3>4, KillNotes
    <3>5. QED
      BY <2>2, <3>2, <3>3, <3>4
  <2>3. QED
    BY <2>1, <2>2 DEF Next
<1>8. Noted'
  BY <1>4, <1>6, <1>7 DEF Noted
<1>9. NoStaleList'
  BY <1>7 DEF FreshOf, NoStaleList
<1>10. QED
  BY <1>1, <1>8, <1>9 DEF TimesInv

\* reload_taglist never takes a list for fresh that is not that of the file, unless the
\* file was renamed in a later second than it was written in, or stat failed.
THEOREM NeverStale == Spec => []NoStaleList
<1>1. Spec => []TimesInv
  BY InitTimes, NextTimes, PTL DEF Spec
<1>2. TimesInv => NoStaleList
  BY DEF TimesInv
<1>3. QED
  BY <1>1, <1>2, PTL
=============================================================================
