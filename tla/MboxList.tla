------------------------------ MODULE MboxList ------------------------------
(***************************************************************************)
(* The mailbox list (imap/mboxlist.c) and the files behind it.             *)
(*                                                                         *)
(* A mailbox exists in four places: its entry in the mailboxes database,   *)
(* its entry at the MUPDATE master, the header file with a copy of its     *)
(* ACL, and the index file that names its messages.  CREATE, DELETE,       *)
(* RENAME and SETACL change all four one after the other, in several       *)
(* processes at once, under two kinds of locks: the lock of the mailboxes  *)
(* database, held as long as a transaction is open, and the lock of the    *)
(* header file of one mailbox.                                             *)
(*                                                                         *)
(* Modelled: requests of an administrator (the ACL checks only refuse      *)
(* requests) for local mailboxes in one partition, with a MUPDATE server   *)
(* in the "standard" configuration and the default skiplist backend.       *)
(* Message files share the fate of the index that names them: an index     *)
(* file is an inode, mailbox_rename_copy gives it a second name.           *)
(***************************************************************************)
EXTENDS Integers, FiniteSets

CONSTANTS
  Procs,      \* server processes that serve requests
  Names,      \* mailbox names
  NoProc,     \* nobody holds the lock
  Occupied,   \* the names that have a mailbox with mail in it at the start
  Reuse,      \* a name is taken again while files of an older mailbox are in its directory
  Kinds,      \* the faults that happen, out of {"kill", "lost", "io"}
  MaxFaults,  \* bound: faults
  MaxOps      \* bound: requests

ASSUME NamesAssumption == Names # {}
ASSUME NoProcAssumption == NoProc \notin Procs
ASSUME OccupiedAssumption == Occupied \subseteq Names /\ IsFiniteSet(Occupied)
ASSUME BoundAssumption == MaxFaults \in Nat /\ MaxOps \in Nat /\ Reuse \in BOOLEAN
ASSUME KindAssumption == Kinds \subseteq {"kill", "lost", "io"}

VARIABLES
  db,       \* the mailboxes database: name -> entry
  dblock,   \* who has a transaction open in it
  mup,      \* the MUPDATE master's database: name -> entry
  hdr,      \* cyrus.header in the directory of a name: NoFile, Blank or the ACL it holds
  idx,      \* cyrus.index in the directory of a name: 0 or its inode
  hlock,    \* who holds the lock of the header file that a name links to
  mail,     \* the inodes whose records are intact
  ino,      \* the last inode in use
  job,      \* what each process is doing
  ops,      \* requests so far
  faults,   \* faults so far, a set of kinds with their number
  raced,    \* history: two requests for one name were ever served at once
  missed,   \* history: a RENAME ever went on without the mailbox it could not lock
  stale,    \* history: a RENAME ever took away an entry that another request had reserved
  dropped   \* history: the inodes whose mailbox a DELETE took out of the database

vars == <<db, dblock, mup, hdr, idx, hlock, mail, ino, job, ops, faults, raced, missed,
          stale, dropped>>

NoFile == -1
Blank == -2
Absent == [st |-> "absent", acl |-> 0]
MBTYPE_RESERVE(acl) == [st |-> "reserved", acl |-> acl]
Active(acl) == [st |-> "active", acl |-> acl]
Entries == {Absent} \cup {MBTYPE_RESERVE(a) : a \in 0..MaxOps} \cup {Active(a) : a \in 0..MaxOps}
Inodes == 1..(Cardinality(Occupied) + MaxOps)

IdleJob(n) == [op |-> "none", pc |-> "idle", n |-> n, m |-> n, acl |-> 0, r |-> 0,
               newopen |-> FALSE, made |-> FALSE]

(* The directory that mailbox_create works in.                             *)
target(j) == IF j.op = "rename" THEN j.m ELSE j.n
Uses(j) == IF j.pc = "idle" THEN {} ELSE {j.n, j.m}

Goto(p, l) == job' = [job EXCEPT ![p].pc = l]
At(p, l) == job[p].pc = l
Fault(k) == /\ k \in Kinds /\ faults.kill + faults.lost + faults.io < MaxFaults
            /\ faults' = [faults EXCEPT ![k] = @ + 1]

-----------------------------------------------------------------------------
(* The locks.  lock_reopen locks the file, then looks whether its name     *)
(* still leads to it: when the name is gone it gives up, when another file *)
(* has the name it locks that one.  So the lock belongs to the file that   *)
(* the name links to now, and it is gone with the link.                    *)
FreeFor(p, n) == hlock[n] \in {NoProc, p}

WantsHeader(p) == IF job[p].pc \in {"lockold", "lockbox"} THEN {job[p].n}
                  ELSE IF job[p].pc = "lockhdr" THEN {target(job[p])} ELSE {}
WantsList(p) == \/ job[p].pc \in {"check", "lookup", "store", "undo", "relook"}
                \/ (job[p].pc = "commit" /\ job[p].op = "rename")

WaitsFor(p, q) == /\ p # q
                  /\ \/ WantsList(p) /\ dblock = q
                     \/ \E n \in WantsHeader(p) : hlock[n] = q

(* fcntl(F_SETLKW) answers EDEADLK to the caller whose wait would close a  *)
(* cycle; lock_reopen and lock_blocking return -1 and the caller takes its *)
(* error path.  A process waits for one lock at a time, so p is on a cycle *)
(* when it is in a set whose members wait for members and are waited for   *)
(* by members.                                                             *)
EDEADLK(p) ==
  \E cycle \in SUBSET Procs :
    /\ p \in cycle
    /\ \A q \in cycle : (\E r \in cycle : WaitsFor(q, r)) /\ (\E r \in cycle : WaitsFor(r, q))

-----------------------------------------------------------------------------
(* The MUPDATE master: cmd_set on its database.  Answers: 0 for OK,        *)
(* MUPDATE_FAIL for NO.                                                    *)
cmd_set(d, t, n, acl) ==
  CASE t = "reserve"  -> IF d[n] # Absent THEN [d |-> d, ok |-> FALSE]
                         ELSE [d |-> [d EXCEPT ![n] = MBTYPE_RESERVE(0)], ok |-> TRUE]
    [] t = "activate" -> [d |-> [d EXCEPT ![n] = Active(acl)], ok |-> TRUE]
    [] t = "delete"   -> IF d[n] = Absent THEN [d |-> d, ok |-> FALSE]
                         ELSE [d |-> [d EXCEPT ![n] = Absent], ok |-> TRUE]

(* Error codes are numbers: compile_et derives the base of a table from    *)
(* its name, six bits a letter ("mupd" is 39, 47, 42, 30), and codes of a  *)
(* table whose number exceeds 128*256*256 are negative.                    *)
mupd_table == ((39 * 64 + 47) * 64 + 42) * 64 + 30
MUPDATE_FAIL == IF mupd_table > 128 * 256 * 256 THEN -2 ELSE 2
MUPDATE_NOCONN == IF mupd_table > 128 * 256 * 256 THEN -1 ELSE 1

(* One command over the connection.  The connection may be lost before the *)
(* master has read the command or after it has obeyed it.                  *)
Sent(d, t, n, acl) ==
  {[d |-> cmd_set(d, t, n, acl).d,
    r |-> IF cmd_set(d, t, n, acl).ok THEN 0 ELSE MUPDATE_FAIL, lost |-> FALSE]}
Lost(d, t, n, acl) ==
  {[d |-> d, r |-> MUPDATE_NOCONN, lost |-> TRUE],
   [d |-> cmd_set(d, t, n, acl).d, r |-> MUPDATE_NOCONN, lost |-> TRUE]}
mupdate(d, t, n, acl) == Sent(d, t, n, acl) \cup Lost(d, t, n, acl)

(* "Disconnect, reconnect, and retry": when the answer is greater than 0.  *)
mupdate_retry(d, t, n, acl) ==
  UNION {IF o.r > 0 THEN {[s EXCEPT !.lost = TRUE] : s \in Sent(o.d, t, n, acl)} ELSE {o} :
           o \in mupdate(d, t, n, acl)}

(* Take one of the outcomes and go on.                                     *)
Outcome(p, outcomes, ok, bad) ==
  \E o \in outcomes :
    /\ mup' = o.d
    /\ IF o.lost THEN Fault("lost") ELSE UNCHANGED faults
    /\ job' = [job EXCEPT ![p].pc = IF o.r = 0 THEN ok ELSE bad, ![p].r = o.r]

-----------------------------------------------------------------------------
Init ==
  /\ \E number \in [Occupied -> 1..Cardinality(Occupied)] :
       /\ \A n, k \in Occupied : number[n] = number[k] => n = k
       /\ idx = [n \in Names |-> IF n \in Occupied THEN number[n] ELSE 0]
  /\ db = [n \in Names |-> IF n \in Occupied THEN Active(0) ELSE Absent]
  /\ mup = db
  /\ hdr = [n \in Names |-> IF n \in Occupied THEN 0 ELSE NoFile]
  /\ hlock = [n \in Names |-> NoProc]
  /\ dblock = NoProc
  /\ mail = 1..Cardinality(Occupied)
  /\ ino = Cardinality(Occupied)
  /\ job = [p \in Procs |-> IdleJob(CHOOSE n \in Names : TRUE)]
  /\ ops = 0
  /\ faults = [kill |-> 0, lost |-> 0, io |-> 0]
  /\ raced = FALSE
  /\ missed = FALSE
  /\ stale = FALSE
  /\ dropped = {}

files == <<hdr, idx, mail, ino>>
lists == <<db, mup>>
history == <<ops, raced, missed, stale, dropped>>

(* A request arrives.  Only RENAME has a second name.  A process that      *)
(* leaked a header lock does not serve a second request in the model.      *)
Request(p, op, n, m) ==
  /\ At(p, "idle") /\ ops < MaxOps /\ \A k \in Names : hlock[k] # p
  /\ (op = "rename") = (n # m)
  /\ ops' = ops + 1
  /\ job' = [job EXCEPT ![p] =
               [IdleJob(n) EXCEPT !.op = op, !.m = m,
                  !.pc = IF op \in {"create", "rename"} THEN "check" ELSE "lookup",
                  !.acl = IF op = "setacl" THEN ops + 1 ELSE 0]]
  /\ raced' = (raced \/ \E q \in Procs \ {p} : Uses(job[q]) \cap {n, m} # {})
  /\ UNCHANGED <<lists, dblock, files, hlock, faults, missed, stale, dropped>>

-----------------------------------------------------------------------------
(* CREATE and RENAME: mboxlist_mycreatemailboxcheck and the reservation in *)
(* one transaction.  RENAME reads the entry of the old name in it too, and *)
(* copies the ACL.                                                         *)
Leftover(n) == \/ hdr[n] # NoFile \/ idx[n] # 0
               \/ \E q \in Procs : At(q, "rm") /\ job[q].n = n

Refused(j) ==
  \/ db[target(j)] # Absent
  \/ j.op = "rename" /\ db[j.n].st # "active"
  \/ ~Reuse /\ Leftover(target(j))

mycreatemailboxcheck(p) ==
  /\ At(p, "check") /\ dblock = NoProc
  /\ LET j == job[p]
         acl == IF j.op = "rename" THEN db[j.n].acl ELSE 0 IN
     IF Refused(j)
     THEN Goto(p, "idle") /\ UNCHANGED db
     ELSE /\ db' = [db EXCEPT ![target(j)] = MBTYPE_RESERVE(acl)]
          /\ job' = [job EXCEPT ![p].pc = "reserve", ![p].acl = acl]
  /\ UNCHANGED <<mup, dblock, files, hlock, faults, history>>

mupdate_reserve(p) ==
  /\ At(p, "reserve")
  /\ \E o \in mupdate(mup, "reserve", target(job[p]), 0) :
       /\ mup' = o.d
       /\ IF o.lost THEN Fault("lost") ELSE UNCHANGED faults
       /\ job' = [job EXCEPT ![p].r = o.r, ![p].made = (o.r = 0),
                    ![p].pc = IF o.r # 0 THEN "undo"
                              ELSE IF job[p].op = "rename" THEN "lockold" ELSE "openhdr"]
  /\ UNCHANGED <<db, dblock, files, hlock, history>>

(* RENAME locks the old mailbox.  When that fails the error code is        *)
(* overwritten by the deletion from the database that follows: the copy is *)
(* left out and everything else is done.                                   *)
lockold(p) ==
  /\ At(p, "lockold")
  /\ LET n == job[p].n IN
     \/ /\ hdr[n] # NoFile /\ idx[n] # 0 /\ FreeFor(p, n)
        /\ hlock' = [hlock EXCEPT ![n] = p]
        /\ Goto(p, "openhdr")
        /\ UNCHANGED missed
     \/ /\ hdr[n] = NoFile \/ (idx[n] = 0 /\ FreeFor(p, n)) \/ EDEADLK(p)
        /\ Goto(p, "commit")
        /\ missed' = TRUE
        /\ UNCHANGED hlock
  /\ UNCHANGED <<lists, dblock, files, faults, ops, raced, stale, dropped>>

(* mailbox_create.  The header file is opened with O_TRUNC|O_CREAT before  *)
(* its lock is taken, then the index file is.                              *)
openhdr(p) ==
  /\ At(p, "openhdr")
  /\ hdr' = [hdr EXCEPT ![target(job[p])] = Blank]
  /\ Goto(p, "lockhdr")
  /\ UNCHANGED <<lists, dblock, idx, mail, ino, hlock, faults, history>>

lockhdr(p) ==
  /\ At(p, "lockhdr")
  /\ LET t == target(job[p]) IN
     \/ /\ hdr[t] # NoFile /\ FreeFor(p, t)
        /\ hlock' = [hlock EXCEPT ![t] = p]
        /\ Goto(p, "mkindex")
     \/ /\ hdr[t] = NoFile \/ EDEADLK(p)
        /\ job' = [job EXCEPT ![p].pc = "undo", ![p].r = -1]
        /\ UNCHANGED hlock
  /\ UNCHANGED <<lists, dblock, files, faults, history>>

Unlocked(p, n) == [hlock EXCEPT ![n] = IF @ = p THEN NoProc ELSE @]

mkindex(p) ==
  /\ At(p, "mkindex")
  /\ LET t == target(job[p])
         rename == job[p].op = "rename" IN
     \/ /\ idx' = [idx EXCEPT ![t] = IF @ = 0 THEN ino + 1 ELSE @]
        /\ ino' = IF idx[t] = 0 THEN ino + 1 ELSE ino
        /\ mail' = mail \ {idx[t]}
        /\ hdr' = [hdr EXCEPT ![t] = job[p].acl]
        /\ hlock' = IF rename THEN hlock ELSE Unlocked(p, t)
        /\ Goto(p, IF rename THEN "link" ELSE "store")
        /\ UNCHANGED faults
     \/ /\ Fault("io")
        /\ job' = [job EXCEPT ![p].pc = "undo", ![p].r = -1]
        /\ hlock' = Unlocked(p, t)
        /\ UNCHANGED files
  /\ UNCHANGED <<lists, dblock, history>>


(* Mutant: the new index is not unlinked first, so the link is not made.   *)
link_exists(p) ==
  /\ At(p, "link")
  /\ Goto(p, "copy")
  /\ UNCHANGED <<lists, dblock, files, hlock, faults, history>>

(* mailbox_rename_copy: the new index is unlinked and the old one linked   *)
(* in its place; then the message files are linked.  The first failure     *)
(* closes the new mailbox, the second one forgets it.                      *)
link(p) ==
  /\ At(p, "link")
  /\ LET t == target(job[p]) IN
     \/ /\ idx' = [idx EXCEPT ![t] = idx[job[p].n]]
        /\ Goto(p, "copy")
        /\ UNCHANGED <<hlock, faults>>
     \/ /\ Fault("io")
        /\ idx' = [idx EXCEPT ![t] = 0]
        /\ job' = [job EXCEPT ![p].pc = "undo", ![p].r = -1]
        /\ hlock' = Unlocked(p, t)
  /\ UNCHANGED <<lists, dblock, hdr, mail, ino, history>>

copy(p) ==
  /\ At(p, "copy")
  /\ \/ /\ job' = [job EXCEPT ![p].pc = "commit", ![p].newopen = TRUE]
        /\ UNCHANGED faults
     \/ /\ Fault("io")
        /\ job' = [job EXCEPT ![p].pc = "undo", ![p].r = -1]
  /\ UNCHANGED <<lists, dblock, files, hlock, history>>

(* CREATE: the entry becomes active in a transaction of its own.           *)
store(p) ==
  /\ At(p, "store") /\ dblock = NoProc
  /\ db' = [db EXCEPT ![job[p].n] = Active(job[p].acl)]
  /\ Goto(p, "activate")
  /\ UNCHANGED <<mup, dblock, files, hlock, faults, history>>

(* RENAME: the old entry goes and the new one becomes active in one        *)
(* transaction.  Deleting an entry that is not there is no error (skiplist *)
(* mydelete).  Nobody looks whether it is still the entry that was looked  *)
(* up.  A failure to lock the list closes the new mailbox.                 *)
rename_commit(p) ==
  /\ At(p, "commit") /\ job[p].op = "rename"
  /\ LET j == job[p] IN
     \/ /\ dblock = NoProc
        /\ db' = [db EXCEPT ![j.n] = Absent, ![j.m] = Active(j.acl)]
        /\ stale' = (stale \/ db[j.n].st = "reserved")
        /\ Goto(p, "activate")
        /\ UNCHANGED hlock
     \/ /\ EDEADLK(p)
        /\ job' = [job EXCEPT ![p].pc = "undo", ![p].r = -1]
        /\ hlock' = Unlocked(p, j.m)
        /\ UNCHANGED <<db, stale>>
  /\ UNCHANGED <<mup, dblock, files, faults, ops, raced, missed, dropped>>

(* The entry at the MUPDATE master becomes active.  CREATE and RENAME      *)
(* would retry, SETACL does not.                                           *)
mupdate_activate(p) ==
  /\ At(p, "activate")
  /\ LET j == job[p] IN
     CASE j.op = "create" ->
            Outcome(p, mupdate_retry(mup, "activate", j.n, j.acl), "idle", "idle")
       [] j.op = "rename" ->
            Outcome(p, mupdate_retry(mup, "activate", j.m, j.acl), "mdelete", "close")
       [] j.op = "setacl" ->
            Outcome(p, mupdate(mup, "activate", j.n, j.acl), "close", "close")
  /\ UNCHANGED <<db, dblock, files, hlock, history>>

(* The old entry at the MUPDATE master goes.  A DELETE that fails here     *)
(* returns without closing the mailbox: it stays locked as long as the     *)
(* process lives.                                                          *)
mupdate_delete(p) ==
  /\ At(p, "mdelete")
  /\ LET n == job[p].n IN
     IF job[p].op = "rename"
     THEN Outcome(p, mupdate_retry(mup, "delete", n, 0), "cleanup", "close")
     ELSE Outcome(p, mupdate(mup, "delete", n, 0), "rm", "idle")
  /\ UNCHANGED <<db, dblock, files, hlock, history>>

(* RENAME closes the new mailbox, then cleans up the old one: nothing      *)
(* happens when it was not locked.                                         *)
rename_cleanup(p) ==
  /\ At(p, "cleanup")
  /\ hlock' = Unlocked(p, job[p].m)
  /\ Goto(p, IF hlock[job[p].n] = p THEN "rm" ELSE "idle")
  /\ UNCHANGED <<lists, dblock, files, faults, history>>

(* mailbox_delete_files: the files go one by one in the order of readdir,  *)
(* then the mailbox is closed.                                             *)
mailbox_delete(p) ==
  /\ At(p, "rm")
  /\ LET n == job[p].n IN
     \/ /\ hdr[n] # NoFile
        /\ hdr' = [hdr EXCEPT ![n] = NoFile]
        /\ hlock' = [hlock EXCEPT ![n] = NoProc]
        /\ UNCHANGED <<idx, job>>
     \/ /\ idx[n] # 0
        /\ idx' = [idx EXCEPT ![n] = 0]
        /\ UNCHANGED <<hdr, hlock, job>>
     \/ /\ hdr[n] = NoFile /\ idx[n] = 0
        /\ Goto(p, "idle")
        /\ UNCHANGED <<hdr, idx, hlock>>
  /\ UNCHANGED <<lists, dblock, mail, ino, faults, history>>

-----------------------------------------------------------------------------

(* Mutant: the reservation in the database is not taken back.              *)
undo_kept(p) ==
  /\ At(p, "undo")
  /\ Goto(p, IF job[p].made THEN "unreserve" ELSE "close")
  /\ UNCHANGED <<lists, dblock, files, hlock, faults, history>>

(* CREATE and RENAME take back what they have done: the reservation in the *)
(* database, in a transaction of its own, then the one at the master.      *)
undo(p) ==
  /\ At(p, "undo")
  /\ LET j == job[p] IN
     \/ /\ dblock = NoProc
        /\ db' = [db EXCEPT ![target(j)] = Absent]
     \/ EDEADLK(p) /\ UNCHANGED db
  /\ Goto(p, IF job[p].made THEN "unreserve" ELSE "close")
  /\ UNCHANGED <<mup, dblock, files, hlock, faults, history>>

unreserve(p) ==
  /\ At(p, "unreserve")
  /\ Outcome(p, mupdate_retry(mup, "delete", target(job[p]), 0), "close", "close")
  /\ UNCHANGED <<db, dblock, files, hlock, history>>

(* RENAME after an error at the master, or after undo; SETACL at its end.  *)
close(p) ==
  /\ At(p, "close")
  /\ LET open == {job[p].n} \cup {n \in {job[p].m} : job[p].newopen} IN
     hlock' = [n \in Names |-> IF hlock[n] = p /\ n \in open THEN NoProc ELSE hlock[n]]
  /\ Goto(p, "idle")
  /\ UNCHANGED <<lists, dblock, files, faults, history>>

-----------------------------------------------------------------------------
(* DELETE and SETACL look the name up in a transaction.  DELETE keeps it   *)
(* open, SETACL aborts it ("to obey our locking rules").                   *)
lookup(p) ==
  /\ At(p, "lookup") /\ dblock = NoProc
  /\ IF db[job[p].n].st # "active"
     THEN Goto(p, "idle") /\ UNCHANGED dblock
     ELSE /\ Goto(p, "lockbox")
          /\ dblock' = IF job[p].op = "delete" THEN p ELSE NoProc
  /\ UNCHANGED <<lists, files, hlock, faults, history>>

ListReleased(p) == IF dblock = p THEN NoProc ELSE dblock

lockbox(p) ==
  /\ At(p, "lockbox")
  /\ LET n == job[p].n IN
     \/ /\ hdr[n] # NoFile /\ FreeFor(p, n) /\ (job[p].op = "delete" => idx[n] # 0)
        /\ hlock' = [hlock EXCEPT ![n] = p]
        /\ Goto(p, IF job[p].op = "delete" THEN "commit" ELSE "relook")
        /\ UNCHANGED dblock
     \/ /\ \/ hdr[n] = NoFile
           \/ FreeFor(p, n) /\ job[p].op = "delete" /\ idx[n] = 0
           \/ EDEADLK(p)
        /\ Goto(p, "idle")
        /\ dblock' = ListReleased(p)
        /\ UNCHANGED hlock
  /\ UNCHANGED <<lists, files, faults, history>>


(* Mutant: DELETE forgets to end its transaction.                          *)
delete_commit_held(p) ==
  /\ At(p, "commit") /\ job[p].op = "delete"
  /\ db' = [db EXCEPT ![job[p].n] = Absent]
  /\ dropped' = dropped \cup {idx[job[p].n]}
  /\ Goto(p, "mdelete")
  /\ UNCHANGED <<mup, dblock, files, hlock, faults, ops, raced, missed, stale>>

delete_commit(p) ==
  /\ At(p, "commit") /\ job[p].op = "delete"
  /\ db' = [db EXCEPT ![job[p].n] = Absent]
  /\ dropped' = dropped \cup {idx[job[p].n]}
  /\ dblock' = NoProc
  /\ Goto(p, "mdelete")
  /\ UNCHANGED <<mup, files, hlock, faults, ops, raced, missed, stale>>

(* SETACL looks the name up again, now that the mailbox is locked; it does *)
(* not look again whether the entry is a reservation.                      *)
relook(p) ==
  /\ At(p, "relook")
  /\ \/ /\ dblock = NoProc
        /\ IF db[job[p].n] = Absent
           THEN Goto(p, "close") /\ UNCHANGED dblock
           ELSE Goto(p, "header") /\ dblock' = p
     \/ EDEADLK(p) /\ Goto(p, "close") /\ UNCHANGED dblock
  /\ UNCHANGED <<lists, files, hlock, faults, history>>

(* The backup copy in cyrus.header is written before the commit.           *)
write_header(p) ==
  /\ At(p, "header")
  /\ hdr' = [hdr EXCEPT ![job[p].n] = job[p].acl]
  /\ Goto(p, "commit")
  /\ UNCHANGED <<lists, dblock, idx, mail, ino, hlock, faults, history>>

setacl_commit(p) ==
  /\ At(p, "commit") /\ job[p].op = "setacl"
  /\ db' = [db EXCEPT ![job[p].n].acl = job[p].acl]
  /\ dblock' = NoProc
  /\ Goto(p, "activate")
  /\ UNCHANGED <<mup, files, hlock, faults, history>>

-----------------------------------------------------------------------------
(* The process ends, between two requests or in the middle of one: its     *)
(* locks go, its open transaction is rolled back.                          *)
Gone(p) ==
  /\ hlock' = [n \in Names |-> IF hlock[n] = p THEN NoProc ELSE hlock[n]]
  /\ dblock' = ListReleased(p)
  /\ UNCHANGED <<lists, files, history>>

Exit(p) == At(p, "idle") /\ (\E n \in Names : hlock[n] = p) /\ Gone(p) /\ UNCHANGED <<job, faults>>

Kill(p) == ~At(p, "idle") /\ Fault("kill") /\ Goto(p, "idle") /\ Gone(p)

Step(p) ==
  \/ mycreatemailboxcheck(p) \/ mupdate_reserve(p) \/ lockold(p) \/ openhdr(p) \/ lockhdr(p)
  \/ mkindex(p) \/ link(p) \/ copy(p) \/ store(p) \/ rename_commit(p) \/ mupdate_activate(p)
  \/ mupdate_delete(p) \/ rename_cleanup(p) \/ mailbox_delete(p) \/ undo(p) \/ unreserve(p)
  \/ close(p) \/ lookup(p) \/ lockbox(p) \/ delete_commit(p) \/ relook(p) \/ write_header(p)
  \/ setacl_commit(p)

(* All requests are served.                                                *)
Done == ops = MaxOps /\ (\A p \in Procs : At(p, "idle")) /\ UNCHANGED vars

Next ==
  \/ \E p \in Procs, n, m \in Names, op \in {"create", "delete", "rename", "setacl"} :
       Request(p, op, n, m)
  \/ \E p \in Procs : Step(p) \/ Exit(p) \/ Kill(p)
  \/ Done

Spec == Init /\ [][Next]_vars

-----------------------------------------------------------------------------
(* The places hold what the code can put there.                            *)
TypeOK ==
  /\ db \in [Names -> Entries] /\ mup \in [Names -> Entries]
  /\ dblock \in Procs \cup {NoProc}
  /\ hlock \in [Names -> Procs \cup {NoProc}]
  /\ hdr \in [Names -> Blank..MaxOps]
  /\ idx \in [Names -> {0} \cup Inodes]
  /\ mail \subseteq Inodes /\ ino \in {0} \cup Inodes
  /\ \A p \in Procs : job[p].acl \in 0..MaxOps /\ job[p].n \in Names /\ job[p].m \in Names
  /\ \A p \in Procs : dblock = p => job[p].pc \in {"lockbox", "commit", "header"}

AtRest == \A p \in Procs : At(p, "idle")

(* Mail that nobody deleted is in an active mailbox after every step,      *)
(* however requests overlap, whenever a process dies and whatever fails:   *)
(* RENAME makes the second link before the database changes and removes    *)
(* the first one after it.  (After a RENAME that went on without its old   *)
(* mailbox it need not be, see ActiveHasFiles; nor after one that took     *)
(* away the reservation of another request, see StaleRename.)              *)
NoLostMail ==
  ~missed /\ ~stale =>
    \A i \in 1..Cardinality(Occupied) \ dropped :
      i \in mail /\ \E n \in Names : db[n].st = "active" /\ idx[n] = i

(* NoLostMail without its second exception.                                *)
StaleRename ==
  ~missed =>
    \A i \in 1..Cardinality(Occupied) \ dropped :
      i \in mail /\ \E n \in Names : db[n].st = "active" /\ idx[n] = i

(* Between requests the database, the header files, the index files and,   *)
(* unless a connection was lost, the MUPDATE master agree about every      *)
(* mailbox, and no reservation is left over: requests for different names  *)
(* do not disturb each other, and a request that fails half way takes back *)
(* what it has done.                                                       *)
Agreement ==
  (AtRest /\ ~raced /\ faults.kill = 0) =>
    \A n \in Names :
      /\ db[n].st # "reserved"
      /\ db[n].st = "active" => hdr[n] = db[n].acl /\ idx[n] # 0
      /\ faults.lost = 0 => mup[n] = db[n]

(* An active mailbox that nobody works on has its files.                   *)
ActiveHasFiles ==
  AtRest /\ faults.kill = 0 => \A n \in Names : db[n].st = "active" => hdr[n] # NoFile /\ idx[n] # 0

(* A mailbox in the making is nobody else's: its index file belongs to no  *)
(* active mailbox.                                                         *)
CreatedAlone ==
  \A p \in Procs : At(p, "store") \/ At(p, "link") =>
    \A n \in Names : db[n].st = "active" => idx[n] # idx[target(job[p])]

=============================================================================
