------------------------------ MODULE TagStore -----------------------------
(***************************************************************************)
(* Tag lists and their file, testCases/taglist/taglist.c: processes that   *)
(* load, reload, update and save a list of the same file name.  Nothing    *)
(* locks the file; what protects a reader is that __save_taglist_atomic    *)
(* writes a temporary file and renames it, and what spares it reading is   *)
(* that reload_taglist compares times of whole seconds.                    *)
(*                                                                         *)
(* A step is a system call with the computation that follows it.  Every    *)
(* call but read may fail, a saver may be killed between any two steps,    *)
(* and a dump may stop short: fprintf reports what it finds out, but what  *)
(* is left in the buffer is written by fclose, whose result is ignored, as *)
(* is that of unlink.  A dump that stops short leaves a prefix of its      *)
(* lines; a line cut in two counts as missing.  A file is read in one      *)
(* step; the clock is not set back.                                        *)
(***************************************************************************)
EXTENDS TagList

CONSTANTS
  Readers,      \* processes that load and reload
  Savers,       \* processes that update and save
  Inodes,       \* enough for all files there can be
  NoFile,
  Prefix,       \* restricted_prefix of every process: the tags that have it
  Modes,        \* the modes savers use, of "atomic", "quick" and "auto"
  MaxRetry,     \* max_retry, 3 in the program
  AutoRetry,    \* auto_retry_parts, 2 in the program
  FirstLines,   \* what the file may hold at first
  MaxTime,      \* bounds: the last second of the clock,
  MaxSaves,     \* the number of saves,
  MaxCrashes,   \* of kills
  MaxLeft       \* and of temporary files left behind by calls that fail

Procs == Readers \cup Savers

ASSUME StoreAssumption ==
  /\ NoFile \notin Inodes /\ Inodes # {}
  /\ Prefix \in [Procs -> SUBSET Tags]
  /\ Modes \subseteq {"atomic", "quick", "auto"}
  /\ MaxRetry \in Nat \ {0} /\ AutoRetry \in Nat \ {0}
  /\ FirstLines \subseteq Seq(Tags \X Values)
  /\ MaxTime \in Nat /\ MaxSaves \in Nat /\ MaxCrashes \in Nat /\ MaxLeft \in Nat

VARIABLES
  clock,    \* time(NULL)
  file,     \* the inode the file name stands for, or NoFile
  disk,     \* the inodes of the file, of temporary files in use and of open files
  litter,   \* those of temporary files that were left behind, whatever they hold
  pc,       \* what each process does next
  mem,      \* its list with the two timestamps
  stat,     \* the times it has just asked for, and the lines then (history)
  fd,       \* the inode it has open, or NoFile
  tmp,      \* the inode of its temporary file, or NoFile
  job,      \* the save it is doing: mode, whether by overwriting, tries left
  ok,       \* is_success
  did,      \* what the save has done to the file (history)
  saves, crashes, \* counted for the bounds,
  left      \* and the failed calls that left a temporary file behind

store == <<clock, file, disk, litter>>
local == <<mem, stat, fd, tmp, job, ok, did>>
vars  == <<store, pc, local, saves, crashes, left>>

\* An inode: its lines and mtime, and, as history, the lines it is meant to get,
\* whether it has been overwritten or a flush has failed, and whether it was renamed
\* in a later second than it was written in.
Inode(lines, mtime, of, harm) ==
  [lines |-> lines, mtime |-> mtime, of |-> of, harm |-> harm, late |-> FALSE]

Loaded(lines, fts, rts, list) == [list |-> list, fts |-> fts, rts |-> rts, base |-> lines]
Fresh  == Loaded(<<>>, 0, 0, [create_taglist EXCEPT !.sorted = TRUE])
NoJob  == [mode |-> "none", over |-> FALSE, tries |-> 0]

\* By what a save has changed the file, the lines it has given it, and whether fclose
\* lost some.
Deed(by, lines, lost) == [by |-> by, lines |-> lines, lost |-> lost]
NoDeed == Deed("nothing", <<>>, FALSE)
NoStat == [mtime |-> 0, now |-> 0, lines |-> <<>>, late |-> FALSE]

Init ==
  /\ clock = 1
  /\ litter = {}
  /\ \/ file = NoFile /\ disk = <<>>
     \/ \E i \in Inodes, lines \in FirstLines :
          /\ file = i /\ disk = [j \in {i} |-> Inode(lines, 1, lines, "none")]
          /\ \A j \in Inodes : i <= j
  /\ pc = [p \in Procs |-> "idle"]
  /\ mem = [p \in Procs |-> Fresh]
  /\ stat = [p \in Procs |-> NoStat]
  /\ fd = [p \in Procs |-> NoFile]
  /\ tmp = [p \in Procs |-> NoFile]
  /\ job = [p \in Procs |-> NoJob]
  /\ ok = [p \in Procs |-> FALSE]
  /\ did = [p \in Procs |-> NoDeed]
  /\ saves = 0 /\ crashes = 0 /\ left = 0

-----------------------------------------------------------------------------
Go(p, from, to) == pc[p] = from /\ pc' = [pc EXCEPT ![p] = to]

\* Inodes without a name that nobody has open any more are gone.
Settle(d) ==
  LET used == {file'} \cup {fd'[p] : p \in Procs} \cup {tmp'[p] : p \in Procs}
  IN  disk' = [i \in DOMAIN d \cap used |-> d[i]]

\* The inode a new file gets.
IsFree(i) ==
  LET free == Inodes \ (DOMAIN disk \cup litter)
  IN  i \in free /\ \A j \in free : i <= j

\* The inodes with a new one, or a new one in place of one.
With(i, inode) == [j \in DOMAIN disk \cup {i} |-> IF j = i THEN inode ELSE disk[j]]

Tick ==
  /\ clock < MaxTime
  /\ clock' = clock + 1
  /\ UNCHANGED <<file, disk, litter, pc, local, saves, crashes, left>>

-----------------------------------------------------------------------------
(* reload_taglist                                                          *)

Stat(p) ==
  /\ p \in Readers
  /\ Go(p, "idle", "time")
  /\ stat' = [stat EXCEPT ![p] =
       IF file = NoFile THEN NoStat
       ELSE [NoStat EXCEPT !.mtime = disk[file].mtime, !.lines = disk[file].lines,
                           !.late = disk[file].late]]
  /\ UNCHANGED <<store, mem, fd, tmp, job, ok, did, saves, crashes, left>>

\* stat fails on a file that is there: its time is taken to be 0.
CannotStat(p) ==
  /\ p \in Readers
  /\ Go(p, "idle", "time")
  /\ stat' = [stat EXCEPT ![p] = NoStat]
  /\ UNCHANGED <<store, mem, fd, tmp, job, ok, did, saves, crashes, left>>

\* A mutant: the time of reading does not count.
NotChanged_Anytime(p) == stat[p].mtime = mem[p].fts

\* The file has not changed since it was read, in another second than it was
\* written in; or it has been read before in this very second.
NotChanged(p) == stat[p].mtime = mem[p].fts /\ mem[p].rts # mem[p].fts
Rapid(p) == stat[p].mtime = mem[p].fts /\ mem[p].rts = clock

Time(p) ==
  /\ IF NotChanged(p) \/ Rapid(p)
       THEN Go(p, "time", "idle") /\ stat' = [stat EXCEPT ![p] = NoStat]
       ELSE /\ Go(p, "time", "open")
            /\ stat' = [stat EXCEPT ![p] = [NoStat EXCEPT !.mtime = stat[p].mtime, !.now = clock]]
  /\ UNCHANGED <<store, mem, fd, tmp, job, ok, did, saves, crashes, left>>

Open(p) ==
  /\ IF file = NoFile
       THEN Go(p, "open", "idle") /\ stat' = [stat EXCEPT ![p] = NoStat]
       ELSE Go(p, "open", "read") /\ UNCHANGED stat
  /\ fd' = [fd EXCEPT ![p] = file]
  /\ mem' = IF file = NoFile THEN mem ELSE [mem EXCEPT ![p] = Fresh]
  /\ UNCHANGED <<store, tmp, job, ok, did, saves, crashes, left>>

\* fopen fails on a file that is there: the list stays as it is.
CannotOpen(p) ==
  /\ Go(p, "open", "idle")
  /\ stat' = [stat EXCEPT ![p] = NoStat]
  /\ UNCHANGED <<store, mem, fd, tmp, job, ok, did, saves, crashes, left>>

\* A mutant: the stream is not closed.
Read_Leaks(p) ==
  /\ Go(p, "read", "idle")
  /\ LET lines == disk[fd[p]].lines
     IN  mem' = [mem EXCEPT ![p] =
           Loaded(lines, stat[p].mtime, stat[p].now, read_taglist(lines, TRUE, Prefix[p]))]
  /\ stat' = [stat EXCEPT ![p] = NoStat]
  /\ UNCHANGED <<store, fd, tmp, job, ok, did, saves, crashes, left>>

Read(p) ==
  /\ Go(p, "read", "idle")
  /\ LET lines == disk[fd[p]].lines
     IN  mem' = [mem EXCEPT ![p] =
           Loaded(lines, stat[p].mtime, stat[p].now, read_taglist(lines, TRUE, Prefix[p]))]
  /\ stat' = [stat EXCEPT ![p] = NoStat]
  /\ fd' = [fd EXCEPT ![p] = NoFile]
  /\ UNCHANGED <<clock, file, litter, tmp, job, ok, did, saves, crashes, left>>
  /\ Settle(disk)

-----------------------------------------------------------------------------
(* update_taglist_ex and save_taglist_ex                                   *)

Update(p) ==
  /\ p \in Savers /\ pc[p] = "idle" /\ saves < MaxSaves
  /\ \E tag \in Tags, value \in Values :
       mem' = [mem EXCEPT ![p].list = update_taglist(@, value, tag)]
  /\ UNCHANGED <<store, pc, stat, fd, tmp, job, ok, did, saves, crashes, left>>

\* Every mode, "quick" too, begins with tries of __save_taglist_atomic.
BeginSave(p) ==
  /\ p \in Savers /\ saves < MaxSaves
  /\ Go(p, "idle", "try")
  /\ \E mode \in Modes :
       job' = [job EXCEPT ![p] = [mode |-> mode, over |-> FALSE,
                                  tries |-> IF mode = "auto" THEN AutoRetry ELSE MaxRetry]]
  /\ saves' = saves + 1
  /\ UNCHANGED <<store, mem, stat, fd, tmp, ok, did, crashes, left>>

\* A mutant: every mode falls back on overwriting.
Failed_Fallback(p, from) ==
  \/ /\ job[p].tries > 1
     /\ job' = [job EXCEPT ![p].tries = @ - 1]
     /\ Go(p, from, "try") /\ UNCHANGED ok
  \/ /\ job[p].tries = 1 /\ ~job[p].over
     /\ job' = [job EXCEPT ![p].over = TRUE, ![p].tries = AutoRetry]
     /\ Go(p, from, "try") /\ UNCHANGED ok
  \/ /\ job[p].tries = 1 /\ job[p].over
     /\ Go(p, from, "done") /\ UNCHANGED <<job, ok>>

\* A try has failed: the next one, by overwriting if renaming has been tried often
\* enough and the mode is "auto", or the end.  In mode "quick" no try is left for the
\* loop at lines 571-579: the one at 556 has counted max_retry down to 0.
Failed(p, from) ==
  \/ /\ job[p].tries > 1
     /\ job' = [job EXCEPT ![p].tries = @ - 1]
     /\ Go(p, from, "try") /\ UNCHANGED ok
  \/ /\ job[p].tries = 1 /\ job[p].mode = "auto" /\ ~job[p].over
     /\ job' = [job EXCEPT ![p] = [mode |-> "auto", over |-> TRUE, tries |-> AutoRetry]]
     /\ Go(p, from, "try") /\ UNCHANGED ok
  \/ /\ job[p].tries = 1 /\ (job[p].mode # "auto" \/ job[p].over)
     /\ Go(p, from, "done") /\ UNCHANGED <<job, ok>>

Lines(p) == dump_taglist(mem[p].list)

\* mkstemp fails, or fopen where the file is to be overwritten.
CannotStart(p) ==
  /\ pc[p] = "try"
  /\ Failed(p, "try")
  /\ UNCHANGED <<store, mem, stat, fd, tmp, did, saves, crashes, left>>

Mkstemp(p) ==
  /\ Go(p, "try", "write") /\ ~job[p].over
  /\ \E i \in Inodes :
       /\ IsFree(i)
       /\ tmp' = [tmp EXCEPT ![p] = i]
       /\ disk' = With(i, Inode(<<>>, clock, Lines(p), "none"))
  /\ UNCHANGED <<clock, file, litter, mem, stat, fd, job, ok, did, saves, crashes, left>>

\* fdopen fails: the temporary file, empty, stays.
CannotFdopen(p) ==
  /\ left < MaxLeft /\ left' = left + 1
  /\ pc[p] = "try" /\ ~job[p].over
  /\ Failed(p, "try")
  /\ \E i \in Inodes :
       /\ IsFree(i)
       /\ litter' = litter \cup {i}
  /\ UNCHANGED <<clock, file, disk, mem, stat, fd, tmp, did, saves, crashes>>

\* Lines are written; only the first k; and the rest is lost in fclose.
Dumped(inode, lines) == [inode EXCEPT !.lines = lines, !.mtime = clock]
Cut(inode, lines, k) == Dumped(inode, SubSeq(lines, 1, k))
Flushed(inode) == [inode EXCEPT !.harm = IF @ = "none" THEN "flush" ELSE @]

\* How a dump, with the fclose that ends it, can go: all is written, fprintf fails,
\* or fclose fails to write the rest, which nobody looks at.  With each inode: what
\* dump_taglist returns, and whether fclose lost lines.
Dumps(inode, lines) ==
  {<<Dumped(inode, lines), TRUE, FALSE>>}
    \cup {<<Cut(inode, lines, k), FALSE, FALSE>> : k \in 0 .. Len(lines) - 1}
    \cup {<<Flushed(Cut(inode, lines, k)), TRUE, TRUE>> : k \in 0 .. Len(lines) - 1}

\* A mutant: what dump_taglist returns is ignored.
Write_Unchecked(p) ==
  /\ pc[p] = "write"
  /\ \E d \in Dumps(disk[tmp[p]], Lines(p)) : disk' = [disk EXCEPT ![tmp[p]] = d[1]]
  /\ Go(p, "write", "rename")
  /\ UNCHANGED <<clock, file, litter, mem, stat, fd, tmp, job, ok, did, saves, crashes, left>>

Write(p) ==
  /\ pc[p] = "write"
  /\ \E d \in Dumps(disk[tmp[p]], Lines(p)) :
       /\ disk' = [disk EXCEPT ![tmp[p]] = d[1]]
       /\ Go(p, "write", IF d[2] THEN "rename" ELSE "unlink")
  /\ UNCHANGED <<clock, file, litter, mem, stat, fd, tmp, job, ok, did, saves, crashes, left>>

\* The inode of a temporary file that gets the name of the file.
Renamed(inode) == [inode EXCEPT !.late = inode.mtime # clock]

\* After a rename there is no temporary name left to remove.
Rename(p) ==
  /\ Go(p, "rename", "done")
  /\ file' = tmp[p]
  /\ tmp' = [tmp EXCEPT ![p] = NoFile]
  /\ ok' = [ok EXCEPT ![p] = TRUE]
  /\ did' = [did EXCEPT ![p] =
       Deed("rename", disk[tmp[p]].lines, disk[tmp[p]].harm # "none")]
  /\ UNCHANGED <<clock, litter, mem, stat, fd, job, saves, crashes, left>>
  /\ Settle([disk EXCEPT ![tmp[p]] = Renamed(@)])

CannotRename(p) ==
  /\ Go(p, "rename", "unlink")
  /\ UNCHANGED <<store, local, saves, crashes, left>>

\* A mutant: the temporary file is not removed.
Unlink_Leaves(p) ==
  /\ Failed(p, "unlink")
  /\ tmp' = [tmp EXCEPT ![p] = NoFile]
  /\ litter' = litter \cup {tmp[p]}
  /\ UNCHANGED <<clock, file, mem, stat, fd, did, saves, crashes, left>>
  /\ Settle(disk)

Unlink(p) ==
  /\ Failed(p, "unlink")
  /\ tmp' = [tmp EXCEPT ![p] = NoFile]
  /\ UNCHANGED <<clock, file, litter, mem, stat, fd, did, saves, crashes, left>>
  /\ Settle(disk)

\* unlink fails, as where rename does because the directory may not be written; its
\* result is ignored and the temporary file stays.
CannotUnlink(p) ==
  /\ left < MaxLeft /\ left' = left + 1
  /\ Failed(p, "unlink")
  /\ tmp' = [tmp EXCEPT ![p] = NoFile]
  /\ litter' = litter \cup {tmp[p]}
  /\ UNCHANGED <<clock, file, mem, stat, fd, did, saves, crashes>>
  /\ Settle(disk)

-----------------------------------------------------------------------------
(* __save_taglist_quick: the file is cut to nothing, then written.         *)

Truncate(p) ==
  /\ Go(p, "try", "overwrite") /\ job[p].over
  /\ \E i \in Inodes :
       /\ IF file = NoFile THEN IsFree(i) ELSE i = file
       /\ file' = i
       /\ disk' = With(i, Inode(<<>>, clock, Lines(p), "quick"))
       /\ fd' = [fd EXCEPT ![p] = i]
  /\ did' = [did EXCEPT ![p] = Deed("overwriting", <<>>, FALSE)]
  /\ UNCHANGED <<clock, litter, mem, stat, tmp, job, ok, saves, crashes, left>>

\* Meanwhile the file may have got another inode, or been cut by another save; what
\* that one has written is overlaid by the lines of this one.
Overwrite(p) ==
  /\ pc[p] = "overwrite"
  /\ fd' = [fd EXCEPT ![p] = NoFile]
  /\ UNCHANGED <<clock, file, litter, mem, stat, tmp, saves, crashes, left>>
  /\ \E d \in Dumps(disk[fd[p]], Lines(p)) :
       LET old  == disk[fd[p]].lines
           rest == SubSeq(old, Len(d[1].lines) + 1, Len(old))
       IN  /\ Settle([disk EXCEPT ![fd[p]] = [d[1] EXCEPT !.lines = @ \o rest]])
           /\ did' = [did EXCEPT ![p] = Deed("overwriting", d[1].lines, d[3])]
           /\ IF d[2] THEN /\ Go(p, "overwrite", "done")
                           /\ ok' = [ok EXCEPT ![p] = TRUE] /\ UNCHANGED job
                      ELSE Failed(p, "overwrite")

\* save_taglist_ex returns is_success.
Leave(p) ==
  /\ Go(p, "done", "idle")
  /\ job' = [job EXCEPT ![p] = NoJob]
  /\ ok' = [ok EXCEPT ![p] = FALSE]
  /\ did' = [did EXCEPT ![p] = NoDeed]
  /\ UNCHANGED <<store, mem, stat, fd, tmp, saves, crashes, left>>

-----------------------------------------------------------------------------
\* A saver is killed during a save, in the middle of a dump perhaps, and started again.
\* A temporary file stays behind.
Kill(p) ==
  /\ p \in Savers /\ pc[p] # "idle"
  /\ crashes < MaxCrashes /\ crashes' = crashes + 1
  /\ pc' = [pc EXCEPT ![p] = "idle"]
  /\ mem' = [mem EXCEPT ![p] = Fresh]
  /\ stat' = [stat EXCEPT ![p] = NoStat]
  /\ fd' = [fd EXCEPT ![p] = NoFile]
  /\ tmp' = [tmp EXCEPT ![p] = NoFile]
  /\ job' = [job EXCEPT ![p] = NoJob]
  /\ ok' = [ok EXCEPT ![p] = FALSE]
  /\ did' = [did EXCEPT ![p] = NoDeed]
  /\ litter' = litter \cup ({tmp[p]} \ {NoFile})
  /\ UNCHANGED <<clock, file, saves, left>>
  /\ \E k \in 0 .. Len(Lines(p)) :
       LET open == IF pc[p] = "write" THEN tmp[p] ELSE IF pc[p] = "overwrite" THEN fd[p] ELSE NoFile
       IN  Settle([i \in DOMAIN disk |->
             IF i = open THEN Cut(disk[i], Lines(p), k) ELSE disk[i]])

Reload(p) ==
  Stat(p) \/ CannotStat(p) \/ Time(p) \/ Open(p) \/ CannotOpen(p) \/ Read(p)
Save(p) ==
  \/ BeginSave(p) \/ CannotStart(p) \/ Mkstemp(p) \/ CannotFdopen(p) \/ Write(p)
  \/ Rename(p) \/ CannotRename(p) \/ Unlink(p) \/ CannotUnlink(p)
  \/ Truncate(p) \/ Overwrite(p) \/ Leave(p)

Next == Tick \/ \E p \in Procs : Reload(p) \/ Update(p) \/ Save(p) \/ Kill(p)

Spec == Init /\ [][Next]_vars

-----------------------------------------------------------------------------
PCs == {"idle", "time", "open", "read", "try", "write", "rename", "unlink", "overwrite", "done"}

\* The shape of the state; the name of the file, temporary names and descriptors
\* stand for inodes that exist, and a process has what its next step needs.
TypeOK ==
  /\ clock \in 1 .. MaxTime \cup {1}
  /\ file \in DOMAIN disk \cup {NoFile} /\ litter \subseteq Inodes
  /\ DOMAIN disk \subseteq Inodes
  /\ pc \in [Procs -> PCs]
  /\ \A p \in Procs :
       /\ fd[p] \in DOMAIN disk \cup {NoFile} /\ tmp[p] \in DOMAIN disk \cup {NoFile}
       /\ pc[p] \in {"read", "overwrite"} <=> fd[p] # NoFile
       /\ pc[p] \in {"write", "rename", "unlink"} <=> tmp[p] # NoFile

\* Whatever fails and whoever is killed, the file holds a complete list that a save
\* was given, or else it has been overwritten in place, or a write error came up in
\* the fclose that nobody looks at.  (The comment at lines 501-503 promises the file is
\* "protected from file original content corruption" without the second exception.)
Whole(inode) == inode.lines = inode.of \/ inode.harm # "none"

WholeFile == file # NoFile => Whole(disk[file])

\* What a save returns is what it has done, over all its tries.  If it returns 1, it has
\* given the file the whole list it was called with, by a rename or by overwriting, or
\* all but what fclose lost, which it does not look at (line 528).  If it returns 0, it
\* has renamed nothing.  Only mode "auto" has ever overwritten the file.
SaveReported ==
  \A p \in Procs : pc[p] = "done" =>
    /\ ok[p] => did[p].by # "nothing" /\ (did[p].lines = Lines(p) \/ did[p].lost)
    /\ ~ok[p] => did[p].by # "rename"
    /\ did[p].by = "overwriting" => job[p].mode = "auto"

\* reload_taglist does not take a file for unchanged that holds other lines than it
\* has read, unless the file was written in an earlier second than it was renamed in,
\* or stat failed (as long as only savers change lists).
NoStaleList ==
  \A p \in Procs : pc[p] = "time" /\ NotChanged(p) =>
    mem[p].base = stat[p].lines \/ stat[p].late \/ stat[p].mtime = 0

\* A temporary file that no save is working on is one for every kill at most and one
\* for every fdopen or unlink that failed; no try that goes otherwise leaves one.  And
\* every inode has a name or is open.
NoLitter ==
  /\ Cardinality(litter) <= crashes + left
  /\ DOMAIN disk \subseteq {file} \cup {fd[p] : p \in Procs} \cup {tmp[p] : p \in Procs}

-----------------------------------------------------------------------------
(* What the properties rest on                                             *)

IsInode(inode) ==
  inode = [field \in {"lines", "mtime", "of", "harm", "late"} |-> inode[field]]

IsDeed(deed) == deed = [field \in {"by", "lines", "lost"} |-> deed[field]]

\* The parts of the state that TypeOK says nothing of are functions and records.
Shape ==
  /\ disk = [i \in DOMAIN disk |-> disk[i]] /\ \A i \in DOMAIN disk : IsInode(disk[i])
  /\ fd \in [Procs -> Inodes \cup {NoFile}] /\ tmp \in [Procs -> Inodes \cup {NoFile}]
  /\ mem = [p \in Procs |-> mem[p]]
  /\ job \in [Procs -> [mode : {"none", "atomic", "quick", "auto"}, over : BOOLEAN, tries : Int]]
  /\ ok \in [Procs -> BOOLEAN]
  /\ did = [p \in Procs |-> did[p]] /\ \A p \in Procs : IsDeed(did[p])
  /\ crashes \in Nat /\ left \in Nat

\* A temporary file is that of one process, and neither the file nor litter.
Apart ==
  /\ \A p \in Procs : tmp[p] # NoFile =>
       /\ tmp[p] # file
       /\ \A q \in Procs : fd[q] # tmp[p] /\ (q # p => tmp[q] # tmp[p])
  /\ litter \cap DOMAIN disk = {}

\* What is written is the list of the process, and what is renamed has been written.
Progress ==
  \A p \in Procs :
    /\ pc[p] = "overwrite" => disk[fd[p]].harm # "none"
    /\ pc[p] \in {"write", "rename"} => disk[tmp[p]].of = Lines(p)
    /\ pc[p] = "rename" => Whole(disk[tmp[p]])

\* What a save has done so far fits its mode, and it reports nothing before it ends.
Account ==
  \A p \in Procs :
    /\ pc[p] # "done" => ~ok[p]
    /\ pc[p] \in {"idle", "time", "open", "read"} => did[p].by = "nothing"
    /\ pc[p] = "overwrite" => did[p].by = "overwriting"
    /\ did[p].by = "rename" => ok[p]
    /\ did[p].by = "overwriting" => job[p].over
    /\ job[p].over => job[p].mode = "auto"

\* A save that reports success has given the file its list, save what fclose lost.
Given ==
  \A p \in Procs : ok[p] => did[p].by # "nothing" /\ (did[p].lines = Lines(p) \/ did[p].lost)

IInv ==
  /\ TypeOK /\ Shape /\ WholeFile /\ NoLitter /\ Apart /\ Progress /\ Account /\ Given
  /\ IsFiniteSet(litter)

\* The file was changed in another second than m, or else it still holds these lines.
Current(m, lines) ==
  file # NoFile /\ (disk[file].mtime = m /\ ~disk[file].late => disk[file].lines = lines)

\* What a process has noted: its times are in the past, and the list it took from the file
\* in a later second than that was written in is still the one of that second; so is the
\* inode it has open, unless the file has changed since.
Notes(p) ==
  /\ mem[p] = [field \in {"list", "fts", "rts", "base"} |-> mem[p][field]]
  /\ stat[p] = [field \in {"mtime", "now", "lines", "late"} |-> stat[p][field]]
  /\ mem[p].rts \in 0 .. clock /\ mem[p].fts \in 0 .. mem[p].rts
  /\ mem[p].fts # mem[p].rts => Current(mem[p].fts, mem[p].base)
  /\ stat[p].mtime \in 0 .. clock
  /\ pc[p] \in {"open", "read"} => stat[p].now \in stat[p].mtime .. clock
  /\ pc[p] = "read" /\ stat[p].mtime # stat[p].now =>
       file # NoFile /\ (fd[p] = file \/ disk[file].mtime # stat[p].mtime \/ disk[file].late)

Noted ==
  /\ \A i \in DOMAIN disk : disk[i].mtime \in 1 .. clock
  /\ stat = [p \in Procs |-> stat[p]]
  /\ \A p \in Procs : Notes(p)

TimesInv == IInv /\ Noted /\ NoStaleList
=============================================================================
