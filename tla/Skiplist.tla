------------------------------ MODULE Skiplist ------------------------------
(***************************************************************************)
(* The skiplist database (lib/cyrusdb_skiplist.c): one file, mapped by     *)
(* several processes, that holds a skip list of nodes linked by pointers   *)
(* and, behind the nodes of the last checkpoint, a log of ADD, DELETE and  *)
(* COMMIT records.                                                         *)
(*                                                                         *)
(* A file is a sequence of records and an offset is an index into it: the  *)
(* DUMMY node has offset 1, offset 0 is the null pointer.  Sizes and log   *)
(* positions are numbers of records; so all records have one size.  A      *)
(* record carries its pointers in fwd, level 1 first.                      *)
(*                                                                         *)
(* The fcntl lock is a library's; a process with a transaction holds it.   *)
(* Whatever happens under it is one action, except that mycommit is cut    *)
(* at its fdatasync calls, where a machine that goes down makes a          *)
(* difference.  curlevel is reread from the header by every lock, so the   *)
(* handle's copy is not kept; the handle's copy of logstart is.            *)
(***************************************************************************)
EXTENDS Integers, Sequences, FiniteSets

CONSTANTS
  Procs, NoProc,  \* processes that use the file
  Keys, Vals,     \* Keys is an interval of positive integers
  Absent,         \* the value of a key that is not in the database
  MaxLevel,       \* SKIPLIST_MAXLEVEL
  MINREWRITE,     \* SKIPLIST_MINREWRITE, in records
  InitLevel,      \* curlevel of the file at the start; 0: no file yet
  MaxSize,        \* bound on the records of the file
  MaxBoots        \* bound on the times the machine comes up

ASSUME SkiplistAssumption ==
  /\ Keys \subseteq Nat \ {0}
  /\ Absent \notin Vals
  /\ NoProc \notin Procs
  /\ MaxLevel \in Nat \ {0}
  /\ MINREWRITE \in Nat
  /\ InitLevel \in 0..MaxLevel
  /\ MaxSize \in Nat
  /\ MaxBoots \in Nat

VARIABLES
  file,      \* the file as the processes see it: recs and the header fields
  disk,      \* how much of it is safe: size, and the header last synced
  newfile,   \* what is left of fname.NEW by a checkpoint that was cut short
  global_recovery,  \* skipstamp: the number of times the machine came up
  logstart,  \* per process: the handle's copy of logstart, CLOSED without one
  txn,       \* the transaction that holds the write lock, or NoTxn
  scan       \* per process: a myforeach that is in its callback, or NoScan

vars == <<file, disk, newfile, global_recovery, logstart, txn, scan>>

CLOSED == 0
DUMMY  == 1
NoTxn  == [pid |-> NoProc, logstart |-> 0, logend |-> 0, stage |-> "none"]
NoScan == [key |-> 0, ptr |-> 0, size |-> 0, same |-> FALSE]

Levels == 1..MaxLevel

-----------------------------------------------------------------------------
(* Records                                                                 *)

Node(t, k, v, fwd) == [t |-> t, key |-> k, val |-> v, fwd |-> fwd, del |-> 0]
DummyNode  == Node("DUMMY", 0, Absent, [i \in Levels |-> 0])
DeleteRec(o) == [t |-> "DELETE", key |-> 0, val |-> Absent, fwd |-> <<>>, del |-> o]
CommitRec  == [t |-> "COMMIT", key |-> 0, val |-> Absent, fwd |-> <<>>, del |-> 0]
\* the zeros a write behind the end of the file leaves in between
HoleRec    == [t |-> "HOLE", key |-> 0, val |-> Absent, fwd |-> <<>>, del |-> 0]

LEVEL(r) == Len(r.fwd)

\* lseek to record position n, then write
WriteAt(recs, n, new) ==
  recs \o [i \in 1..(n - Len(recs)) |-> HoleRec] \o new

LeastOr0(S) == IF S = {} THEN 0 ELSE CHOOSE n \in S : \A m \in S : n <= m

-----------------------------------------------------------------------------
(* The list                                                                *)

\* find_node: per level the last node before key k, and the node that follows
\* it at level 1.
find_node(recs, curlevel, k) ==
  LET ahead[i \in Levels, o \in DOMAIN recs] ==
        LET n == recs[o].fwd[i] IN
        IF n # 0 /\ recs[n].key < k THEN ahead[i, n] ELSE o
      upd[i \in Levels] ==
        IF i > curlevel THEN DUMMY
        ELSE ahead[i, IF i = curlevel THEN DUMMY ELSE upd[i + 1]]
  IN [upd |-> [i \in Levels |-> upd[i]], ptr |-> recs[upd[1]].fwd[1]]

Found(recs, ptr, k) == ptr # 0 /\ recs[ptr].key = k

\* Make the nodes upd[1..h] point to n.
Link(recs, upd, h, n) ==
  [o \in DOMAIN recs |->
    [recs[o] EXCEPT !.fwd =
       [i \in DOMAIN @ |-> IF i <= h /\ upd[i] = o THEN n ELSE @[i]]]]

\* Mutant: a node is taken out of the lowest level only.
UnlinkLowest(recs, curlevel, upd, n) ==
  [o \in DOMAIN recs |->
    [recs[o] EXCEPT !.fwd =
       [i \in DOMAIN @ |-> IF i = 1 /\ upd[i] = o /\ @[i] = n THEN recs[n].fwd[i] ELSE @[i]]]]

\* Take node n out of the list, level by level, up to the first level where
\* the node before it does not point to it.
Unlink(recs, curlevel, upd, n) ==
  LET Cut(i) == i <= curlevel /\ \A j \in 1..i : recs[upd[j]].fwd[j] = n
  IN [o \in DOMAIN recs |->
       [recs[o] EXCEPT !.fwd =
          [i \in DOMAIN @ |-> IF upd[i] = o /\ Cut(i) THEN recs[n].fwd[i] ELSE @[i]]]]

\* Link the nodes at the offsets of chain, in the order they have in the file.
Relink(recs, chain) ==
  [o \in DOMAIN recs |->
    IF o \notin chain \cup {DUMMY} THEN recs[o]
    ELSE [recs[o] EXCEPT !.fwd =
            [i \in DOMAIN @ |-> LeastOr0({n \in chain : n > o /\ LEVEL(recs[n]) >= i})]]]

\* The offsets of the nodes in the list, in list order.
ListOf(recs) ==
  LET from[o \in 0..Len(recs)] ==
        IF o = 0 THEN <<>> ELSE <<o>> \o from[recs[o].fwd[1]]
  IN IF recs = <<>> THEN <<>> ELSE from[recs[DUMMY].fwd[1]]

\* myconsistent: every pointer of a node in the list leads to a greater key.
myconsistent(recs) ==
  \A j \in DOMAIN ListOf(recs) :
    LET r == recs[ListOf(recs)[j]] IN
    \A i \in DOMAIN r.fwd : r.fwd[i] # 0 =>
      r.fwd[i] <= Len(recs) /\ r.key < recs[r.fwd[i]].key

-----------------------------------------------------------------------------
(* Recovery                                                                *)

\* Is there a COMMIT behind the record at o?  A hole stops the search.
Committed(recs, o) ==
  \E c \in o..Len(recs) : /\ recs[c].t = "COMMIT"
                          /\ \A j \in o..c : recs[j].t # "HOLE"

\* One log record, replayed on s, a record of the file so far and of how the
\* replay goes.
Replay(s, curlevel, o) ==
  LET r  == s.recs[o]
      fa == find_node(s.recs, curlevel, r.key)
      fd == find_node(s.recs, curlevel, s.recs[r.del].key)
      lk == Link(s.recs, fa.upd, LEVEL(r), o)
      behind == [i \in DOMAIN r.fwd |-> s.recs[fa.upd[i]].fwd[i]]
  IN
  CASE s.st # "run" \/ r.t = "COMMIT" -> s
    [] s.st = "run" /\ r.t \notin {"ADD", "DELETE", "COMMIT"} ->
         [s EXCEPT !.st = "error"]
    [] s.st = "run" /\ r.t \in {"ADD", "DELETE"} /\ ~Committed(s.recs, o) ->
         [s EXCEPT !.st = "partial", !.size = o - 1]
    [] s.st = "run" /\ r.t = "ADD" /\ Committed(s.recs, o) ->
         IF Found(s.recs, fa.ptr, r.key) THEN [s EXCEPT !.st = "error"]
         ELSE [s EXCEPT !.recs = [n \in DOMAIN lk |->
                  [lk[n] EXCEPT !.fwd = IF n = o THEN behind ELSE @]]]
    [] s.st = "run" /\ r.t = "DELETE" /\ Committed(s.recs, o) ->
         IF fd.ptr = 0 THEN [s EXCEPT !.st = "error"]
         ELSE [s EXCEPT !.recs = Unlink(s.recs, curlevel, fd.upd, r.del)]

\* recovery: relink what the last checkpoint wrote, replay the committed part
\* of the log and cut off the rest.  The file a failed recovery leaves is not
\* followed: it is returned unchanged.
recovery(f) ==
  LET start == [recs |-> Relink(f.recs, 2..f.logstart), st |-> "run",
                size |-> Len(f.recs)]
      upto[o \in f.logstart..Len(f.recs)] ==
        IF o = f.logstart THEN start ELSE Replay(upto[o - 1], f.curlevel, o)
      end == upto[Len(f.recs)]
      ok  == /\ f.logstart <= Len(f.recs)
             /\ \A o \in 2..f.logstart : f.recs[o].t = "INORDER"
             /\ end.st # "error"
  IN [ok |-> ok,
      file |-> IF ok THEN [f EXCEPT !.recs = SubSeq(end.recs, 1, end.size),
                                    !.last_recovery = global_recovery]
               ELSE f]

\* What is safe on disk once f has been synced.
Synced(f) == [size |-> Len(f.recs), curlevel |-> f.curlevel, logstart |-> f.logstart]

\* SAFE_TO_APPEND, which is true if it is not: the last words of the file,
\* looked at in the light of the handle's copy ls of logstart.
SAFE_TO_APPEND(f, ls) ==
  LET last == f.recs[Len(f.recs)].t IN
  IF Len(f.recs) = ls THEN last \notin {"DUMMY", "INORDER", "ADD"}
                      ELSE last # "COMMIT"

-----------------------------------------------------------------------------
(* Opening and locking                                                     *)

NewFile == [recs |-> <<DummyNode>>, curlevel |-> 1, logstart |-> 1,
            last_recovery |-> global_recovery]

\* myopen: create the file if it is not there, recover it if the machine came
\* up after the last recovery.
myopen(p) ==
  /\ logstart[p] = CLOSED /\ txn = NoTxn
  /\ IF file.recs = <<>>
     THEN /\ file' = NewFile
          /\ disk' = Synced(NewFile)
          /\ logstart' = [logstart EXCEPT ![p] = NewFile.logstart]
     ELSE IF file.last_recovery < global_recovery
     THEN LET r == recovery(file) IN
          /\ file' = r.file
          /\ disk' = IF r.ok THEN Synced(r.file) ELSE disk
          /\ logstart' = [logstart EXCEPT ![p] = IF r.ok THEN file.logstart ELSE CLOSED]
     ELSE /\ logstart' = [logstart EXCEPT ![p] = file.logstart]
          /\ UNCHANGED <<file, disk>>
  /\ UNCHANGED <<newfile, global_recovery, txn, scan>>

myclose(p) ==
  /\ logstart[p] # CLOSED /\ txn.pid # p /\ scan[p] = NoScan
  /\ logstart' = [logstart EXCEPT ![p] = CLOSED]
  /\ UNCHANGED <<file, disk, newfile, global_recovery, txn, scan>>

MayWrite(p) == /\ logstart[p] # CLOSED
               /\ txn = NoTxn \/ (txn.pid = p /\ txn.stage = "open")

newtxn(p, size) == [pid |-> p, logstart |-> size, logend |-> size, stage |-> "open"]

\* How mystore and mydelete begin: take the lock, run recovery on a file that
\* is not safe to append to, start a transaction.  map_size is the size the
\* file had when it was locked; recovery does not correct it.
Begin(p) ==
  IF txn # NoTxn
  THEN [ok |-> TRUE, file |-> file, disk |-> disk, ls |-> logstart[p], txn |-> txn]
  ELSE LET unsafe == SAFE_TO_APPEND(file, logstart[p])
           r == IF unsafe THEN recovery(file) ELSE [ok |-> TRUE, file |-> file]
       IN [ok |-> r.ok, file |-> r.file,
           disk |-> IF unsafe /\ r.ok THEN Synced(r.file) ELSE disk,
           ls |-> IF unsafe THEN file.logstart ELSE logstart[p],
           txn |-> newtxn(p, Len(file.recs))]

-----------------------------------------------------------------------------
(* Undoing a transaction                                                   *)

\* Mutant: a DELETE is not taken back.
UndoAddsOnly(recs, curlevel, o) ==
  LET f == find_node(recs, curlevel, recs[o].key)
  IN IF recs[o].t = "ADD" THEN Unlink(recs, curlevel, f.upd, o) ELSE recs

\* The log record at o, taken back.
Undo(recs, curlevel, o) ==
  LET r == recs[o]
      k == IF r.t = "ADD" THEN r.key ELSE recs[r.del].key
      f == find_node(recs, curlevel, k)
  IN IF r.t = "ADD" THEN Unlink(recs, curlevel, f.upd, o)
     ELSE Link(recs, f.upd, LEVEL(recs[r.del]), r.del)

\* myabort: last record first, then cut the log.
myabort(f, t) ==
  LET downto[o \in t.logstart..t.logend] ==
        IF o = t.logend THEN f.recs ELSE Undo(downto[o + 1], f.curlevel, o + 1)
  IN [f EXCEPT !.recs = SubSeq(downto[t.logstart], 1, t.logstart)]

\* ftruncate on a part that had been synced
Cut(d, f) == [d EXCEPT !.size = IF @ > Len(f.recs) THEN Len(f.recs) ELSE @]

-----------------------------------------------------------------------------
(* Changes                                                                 *)

Room == Len(file.recs) + 3 <= MaxSize

\* The file of b with record new appended by its transaction.
Appended(b, recs, curlevel, hdr, new) ==
  /\ file' = [b.file EXCEPT !.recs = WriteAt(recs, b.txn.logend, new),
                            !.curlevel = curlevel, !.logstart = hdr]
  /\ txn' = [b.txn EXCEPT !.logend = @ + Len(new)]

\* mystore: overwrite is FALSE for create().
mystore(p, k, v, overwrite) ==
  /\ MayWrite(p) /\ Room
  /\ \E b \in {Begin(p)} : \E n \in {find_node(b.file.recs, b.file.curlevel, k)} :
       LET f == b.file
           exists == Found(f.recs, n.ptr, k)
       IN
       /\ logstart' = [logstart EXCEPT ![p] = b.ls]
       /\ \/ ~b.ok /\ file' = f /\ disk' = disk /\ txn' = NoTxn
          \/ /\ b.ok /\ exists /\ ~overwrite
             /\ file' = myabort(f, b.txn)
             /\ disk' = Cut(b.disk, file')
             /\ txn' = NoTxn
          \/ /\ b.ok /\ exists /\ overwrite
             /\ LET old == f.recs[n.ptr] IN
                Appended(b, Link(f.recs, n.upd, LEVEL(old), b.txn.logend + 2),
                         f.curlevel, f.logstart,
                         <<DeleteRec(n.ptr), Node("ADD", k, v, old.fwd)>>)
             /\ disk' = b.disk
          \/ /\ b.ok /\ ~exists
             /\ \E lvl \in Levels :
                  \* a higher list: write_header, with the handle's logstart
                  LET grow == lvl > f.curlevel IN
                  Appended(b, Link(f.recs, n.upd, lvl, b.txn.logend + 1),
                           IF grow THEN lvl ELSE f.curlevel,
                           IF grow THEN b.ls ELSE f.logstart,
                           <<Node("ADD", k, v,
                                  [i \in 1..lvl |-> f.recs[n.upd[i]].fwd[i]])>>)
             /\ disk' = b.disk
  /\ UNCHANGED <<newfile, global_recovery, scan>>

\* mydelete.  Behind the last key find_node returns the null pointer, which
\* the code takes for a match and follows out of the file; callers delete keys
\* they have looked up.
mydelete(p, k) ==
  /\ MayWrite(p) /\ Room
  /\ \E b \in {Begin(p)} : \E n \in {find_node(b.file.recs, b.file.curlevel, k)} :
       LET f == b.file IN
       /\ logstart' = [logstart EXCEPT ![p] = b.ls]
       /\ \/ ~b.ok /\ file' = f /\ disk' = disk /\ txn' = NoTxn
          \/ /\ b.ok /\ n.ptr # 0 /\ f.recs[n.ptr].key # k
             /\ file' = f /\ disk' = b.disk /\ txn' = b.txn
          \/ /\ b.ok /\ Found(f.recs, n.ptr, k)
             /\ Appended(b, Unlink(f.recs, f.curlevel, n.upd, n.ptr),
                         f.curlevel, f.logstart, <<DeleteRec(n.ptr)>>)
             /\ disk' = b.disk
  /\ UNCHANGED <<newfile, global_recovery, scan>>

\* Mutant: the transaction begins where the log does, not at its end.
fetchlockAtLogstart(p) ==
  /\ logstart[p] # CLOSED /\ txn = NoTxn
  /\ txn' = newtxn(p, file.logstart)
  /\ UNCHANGED <<file, disk, newfile, global_recovery, logstart, scan>>

\* fetchlock: a transaction that begins with a read, and without a look at
\* whether the file is safe to append to.
fetchlock(p) ==
  /\ logstart[p] # CLOSED /\ txn = NoTxn
  /\ txn' = newtxn(p, Len(file.recs))
  /\ UNCHANGED <<file, disk, newfile, global_recovery, logstart, scan>>

-----------------------------------------------------------------------------
(* Checkpoint, commit and abort                                            *)

\* Mutant: the header keeps the logstart of the old file.
CompressedOldHeader(f, left) ==
  LET list == ListOf(f.recs)
      base == <<DummyNode>> \o left
      recs == base \o [j \in DOMAIN list |-> [f.recs[list[j]] EXCEPT !.t = "INORDER"]]
  IN [f EXCEPT !.recs = Relink(recs, (Len(base) + 1)..Len(recs))]

\* mycheckpoint: the nodes of the list, rewritten in order behind the dummy
\* node, and behind whatever fname.NEW held: it is opened without O_TRUNC.
Compressed(f, left) ==
  LET list == ListOf(f.recs)
      base == <<DummyNode>> \o left
      recs == base \o [j \in DOMAIN list |-> [f.recs[list[j]] EXCEPT !.t = "INORDER"]]
  IN [f EXCEPT !.recs = Relink(recs, (Len(base) + 1)..Len(recs)),
               !.logstart = Len(recs)]

\* The end of mycommit: see whether to checkpoint, release the lock.
mycommit_done(p, d) ==
  /\ txn' = NoTxn
  /\ IF txn.logend <= 2 * logstart[p] + MINREWRITE
     THEN disk' = d /\ UNCHANGED <<file, newfile, logstart, scan>>
     ELSE IF myconsistent(file.recs)
     THEN LET f == Compressed(file, newfile) IN
          /\ file' = f /\ disk' = Synced(f) /\ newfile' = <<>>
          /\ logstart' = [logstart EXCEPT ![p] = f.logstart]
          /\ scan' = [q \in Procs |-> [NoScan EXCEPT !.key = scan[q].key]]
     ELSE /\ file' = myabort(file, txn) /\ disk' = Cut(d, file')
          /\ UNCHANGED <<newfile, logstart, scan>>
  /\ UNCHANGED global_recovery

\* mycommit of a transaction that changed nothing
CommitEmpty(p) ==
  /\ txn.pid = p /\ txn.stage = "open" /\ txn.logstart = txn.logend
  /\ mycommit_done(p, disk)

\* mycommit: the first fdatasync, the COMMIT record, the second fdatasync
CommitSync(p) ==
  /\ txn.pid = p /\ txn.stage = "open" /\ txn.logstart # txn.logend
  /\ disk' = Synced(file)
  /\ txn' = [txn EXCEPT !.stage = "synced"]
  /\ UNCHANGED <<file, newfile, global_recovery, logstart, scan>>

CommitWrite(p) ==
  /\ txn.pid = p /\ txn.stage = "synced"
  /\ file' = [file EXCEPT !.recs = WriteAt(@, txn.logend, <<CommitRec>>)]
  /\ txn' = [txn EXCEPT !.stage = "written"]
  /\ UNCHANGED <<disk, newfile, global_recovery, logstart, scan>>

\* Mutant: mycommit returns without the second fdatasync.
CommitDoneUnsynced(p) ==
  /\ txn.pid = p /\ txn.stage = "written"
  /\ mycommit_done(p, disk)

CommitDone(p) ==
  /\ txn.pid = p /\ txn.stage = "written"
  /\ mycommit_done(p, Synced(file))

\* Abort by the caller, or by mycommit when an fdatasync fails.
Rollback(p) ==
  /\ txn.pid = p /\ txn.stage \in {"open", "written"}
  /\ file' = myabort(file, txn)
  /\ disk' = Cut(disk, file')
  /\ txn' = NoTxn
  /\ UNCHANGED <<newfile, global_recovery, logstart, scan>>

-----------------------------------------------------------------------------
(* myforeach without a transaction: the lock is released for the callback, *)
(* which may itself change the database, and taken again after it.         *)

\* In the callback for the node at ptr, or finished.
AtNode(ptr) == IF ptr = 0 THEN NoScan
               ELSE [key |-> file.recs[ptr].key, ptr |-> ptr,
                     size |-> Len(file.recs), same |-> TRUE]

ScanStart(p) ==
  /\ logstart[p] # CLOSED /\ txn = NoTxn /\ scan[p] = NoScan
  /\ scan' = [scan EXCEPT ![p] = AtNode(find_node(file.recs, file.curlevel, 0).ptr)]
  /\ UNCHANGED <<file, disk, newfile, global_recovery, logstart, txn>>

\* Mutant: a scan that has to reseek always moves on by one.
RepositionSkips(s) ==
  LET n == find_node(file.recs, file.curlevel, s.key) IN
  IF s.same /\ s.size = Len(file.recs) THEN file.recs[s.ptr].fwd[1]
  ELSE IF n.ptr # 0 THEN file.recs[n.ptr].fwd[1]
  ELSE n.ptr

\* Where the scan goes on: by the pointer it holds if inode and size are the
\* same, otherwise from the saved key.
Reposition(s) ==
  LET n == find_node(file.recs, file.curlevel, s.key) IN
  IF s.same /\ s.size = Len(file.recs) THEN file.recs[s.ptr].fwd[1]
  ELSE IF Found(file.recs, n.ptr, s.key) THEN file.recs[n.ptr].fwd[1]
  ELSE n.ptr

ScanNext(p) ==
  /\ scan[p] # NoScan /\ txn = NoTxn
  /\ scan' = [scan EXCEPT ![p] = AtNode(Reposition(scan[p]))]
  /\ UNCHANGED <<file, disk, newfile, global_recovery, logstart, txn>>

\* The callback returned an error.
ScanStop(p) ==
  /\ scan[p] # NoScan /\ txn.pid # p
  /\ scan' = [scan EXCEPT ![p] = NoScan]
  /\ UNCHANGED <<file, disk, newfile, global_recovery, logstart, txn>>

-----------------------------------------------------------------------------
(* Failures                                                                *)

\* The machine goes down and comes up: what was not synced is there up to some
\* point or not at all, the header in its old or its new form.
Reboot ==
  /\ global_recovery < MaxBoots
  /\ global_recovery' = global_recovery + 1
  /\ \E n \in disk.size..Len(file.recs), old \in BOOLEAN :
       LET f == [file EXCEPT !.recs = SubSeq(@, 1, n),
                   !.curlevel = IF old THEN disk.curlevel ELSE @,
                   !.logstart = IF old THEN disk.logstart ELSE @]
       IN file' = f /\ disk' = Synced(f)
  /\ logstart' = [p \in Procs |-> CLOSED]
  /\ txn' = NoTxn
  /\ scan' = [p \in Procs |-> NoScan]
  /\ UNCHANGED newfile

Init ==
  /\ global_recovery = 1
  /\ file = IF InitLevel = 0
            THEN [recs |-> <<>>, curlevel |-> 0, logstart |-> 0, last_recovery |-> 0]
            ELSE [recs |-> <<DummyNode>>, curlevel |-> InitLevel, logstart |-> 1,
                  last_recovery |-> 1]
  /\ disk = [size |-> Len(file.recs), curlevel |-> file.curlevel,
             logstart |-> file.logstart]
  /\ newfile = <<>>
  /\ logstart = [p \in Procs |-> CLOSED]
  /\ txn = NoTxn
  /\ scan = [p \in Procs |-> NoScan]

Next ==
  \/ \E p \in Procs :
       \/ myopen(p) \/ myclose(p)
       \/ \E k \in Keys, v \in Vals, overwrite \in BOOLEAN :
            mystore(p, k, v, overwrite)
       \/ \E k \in Keys : mydelete(p, k)
       \/ fetchlock(p)
       \/ CommitEmpty(p) \/ CommitSync(p) \/ CommitWrite(p) \/ CommitDone(p)
       \/ Rollback(p)
       \/ ScanStart(p) \/ ScanNext(p) \/ ScanStop(p)
  \/ Reboot

Spec == Init /\ [][Next]_vars

\* A process that is killed: the kernel drops its lock and its map; what it
\* wrote stays.
Gone(p) ==
  /\ txn' = NoTxn
  /\ logstart' = [logstart EXCEPT ![p] = CLOSED]
  /\ scan' = [scan EXCEPT ![p] = NoScan]

\* ... between two operations of its transaction;
Kill(p) ==
  /\ txn.pid = p
  /\ Gone(p)
  /\ UNCHANGED <<file, disk, newfile, global_recovery>>

\* ... inside mycheckpoint, with some of the nodes in fname.NEW.
KillCheckpoint(p) ==
  /\ txn.pid = p /\ txn.stage = "written"
  /\ txn.logend > 2 * logstart[p] + MINREWRITE
  /\ \E n \in DOMAIN Compressed(file, newfile).recs :
       newfile' = SubSeq(Compressed(file, newfile).recs, 2, n)
  /\ disk' = Synced(file)
  /\ Gone(p)
  /\ UNCHANGED <<file, global_recovery>>

KillSpec == Init /\ [][Next \/ \E p \in Procs : Kill(p)]_vars
KillCheckpointSpec == Init /\ [][Next \/ \E p \in Procs : KillCheckpoint(p)]_vars

-----------------------------------------------------------------------------
(* Properties                                                              *)

RecTypes == {"DUMMY", "INORDER", "ADD", "DELETE", "COMMIT", "HOLE"}

RecordOK(r, size) ==
  /\ r.t \in RecTypes /\ r.key \in Keys \cup {0} /\ r.val \in Vals \cup {Absent}
  /\ LEVEL(r) <= MaxLevel /\ \A i \in DOMAIN r.fwd : r.fwd[i] \in 0..size
  /\ r.del \in 0..size

\* Offsets stay inside the file, a transaction's log is its end, a position a
\* scan has saved was inside the file it was taken from.
TypeOK ==
  /\ \A o \in DOMAIN file.recs : RecordOK(file.recs[o], MaxSize)
  /\ file.curlevel \in 0..MaxLevel /\ file.logstart \in 0..Len(file.recs)
  /\ file.last_recovery \in 0..global_recovery
  /\ disk.size \in 0..Len(file.recs)
  /\ global_recovery \in 1..MaxBoots
  /\ logstart \in [Procs -> Nat]
  /\ txn # NoTxn => /\ logstart[txn.pid] # CLOSED
                    /\ txn.logstart <= txn.logend
                    /\ Len(file.recs) = txn.logend + (IF txn.stage = "written" THEN 1 ELSE 0)
  /\ \A p \in Procs : /\ scan[p].key \in Keys \cup {0}
                       /\ scan[p].ptr \in 0..scan[p].size

\* The database, by a definition that does not look at pointers: a node that a
\* checkpoint wrote or a committed ADD, and that no committed DELETE names.
Live(f) ==
  LET n == Len(f.recs) IN
  {o \in 2..n :
     /\ o <= f.logstart \/ (f.recs[o].t = "ADD" /\ Committed(f.recs, o))
     /\ ~\E d \in (f.logstart + 1)..n :
          f.recs[d].t = "DELETE" /\ f.recs[d].del = o /\ Committed(f.recs, d)}

MapOf(recs, S) ==
  [k \in Keys |-> IF \E o \in S : recs[o].key = k
                  THEN recs[CHOOSE o \in S : recs[o].key = k].val ELSE Absent]

LogMap(f)  == MapOf(f.recs, Live(f))
ListMap(f) == LET l == ListOf(f.recs) IN MapOf(f.recs, {l[j] : j \in DOMAIN l})

\* The files a machine that goes down now may come up with.
CrashImages ==
  {[file EXCEPT !.recs = SubSeq(@, 1, n)] : n \in disk.size..Len(file.recs)}
  \cup {[file EXCEPT !.recs = SubSeq(@, 1, n), !.curlevel = disk.curlevel,
                     !.logstart = disk.logstart] : n \in disk.size..Len(file.recs)}

Recovered == file.recs # <<>> /\ file.last_recovery = global_recovery

\* "The last known good data file is taken and the intent log is replayed on
\* it": whenever the machine goes down, recovery accepts the file it finds and
\* rebuilds a consistent list with exactly the committed contents.
Recoverable ==
  \A f \in CrashImages : f.recs # <<>> =>
    LET r == recovery(f) IN
    /\ r.ok
    /\ ListMap(r.file) = LogMap(f)
    /\ myconsistent(r.file.recs)

\* The nodes are in key order, and every level links exactly the nodes that
\* have it, whatever stores, deletes, aborts and recoveries came before: what
\* find_node relies on at every level to end up before the right node.
LevelsAgree ==
  Recovered =>
    LET l == ListOf(file.recs)
        At(i) == {j \in DOMAIN l : LEVEL(file.recs[l[j]]) >= i}
        Next_(i, j) == LET S == {m \in At(i) : m > j} IN
                       IF S = {} THEN 0 ELSE l[LeastOr0(S)]
    IN
    /\ \A j \in 1..(Len(l) - 1) : file.recs[l[j]].key < file.recs[l[j + 1]].key
    /\ \A j \in DOMAIN l : LEVEL(file.recs[l[j]]) <= file.curlevel
    /\ \A i \in 1..file.curlevel :
         /\ file.recs[DUMMY].fwd[i] = Next_(i, 0)
         /\ \A j \in At(i) : file.recs[l[j]].fwd[i] = Next_(i, j)

\* A scan that comes back from its callback goes on to the least key behind the
\* one it was at, or ends if there is none, however the file was changed,
\* aborted on or checkpointed in between: it skips no key and repeats none.
ScanSound ==
  [][\A p \in Procs : ScanNext(p) =>
       LET rest == {k \in Keys : k > scan[p].key /\ LogMap(file)[k] # Absent}
       IN scan'[p].key = LeastOr0(rest)]_vars

\* The transactional map this file implements: durable is what the log says of
\* the synced part, working is the list (before recovery has run, nobody sees it).
DiskFile == [file EXCEPT !.recs = SubSeq(@, 1, disk.size), !.logstart = disk.logstart]

Map == INSTANCE TxnMap WITH
         durable <- LogMap(DiskFile),
         working <- IF Recovered THEN ListMap(file) ELSE LogMap(file),
         writer <- txn.pid,
         committing <- (txn.stage = "written")

\* Store, delete, commit, abort, recovery, checkpoint and restarts of the
\* machine, in any order by any process, keep the promises of TxnMap: a commit
\* that returned is durable, one that did not is all or nothing, an abort or a
\* restart undoes every change since the last commit.
ImplementsTxnMap == Map!TMSpec

=============================================================================
