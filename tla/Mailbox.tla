------------------------------ MODULE Mailbox ------------------------------
(***************************************************************************)
(* One mailbox directory as several processes use it: cyrus.index,         *)
(* cyrus.cache, cyrus.expunge and the message files, with the quota root   *)
(* that is charged for them (imap/mailbox.c, imap/append.c, imap/index.c,  *)
(* imap/quota_db.c, imap/cyr_expire.c, imap/unexpunge.c).                  *)
(*                                                                         *)
(* cyrus.index is replaced by a rename, so index is a sequence of inodes   *)
(* and dir.index says which one has the name; a session keeps the inode it *)
(* has mapped.  A cyrus.cache is identified by the generation number in    *)
(* its first word.  A cache offset is a position in the cache.  Every      *)
(* message has size 1.  mid identifies what a message file contains.       *)
(*                                                                         *)
(* The header lock serialises append, expunge, cleanup and unexpunge; a    *)
(* STORE takes the index lock only; opening and checking take no lock.     *)
(* Between two locked steps a process may be killed or a system call may   *)
(* fail; what the process left behind stays.  A write that fails changes   *)
(* nothing.                                                                *)
(***************************************************************************)
EXTENDS Integers, Sequences, FiniteSets

CONSTANTS
  Deliverers,   \* processes that append (lmtpd, imapd APPEND and COPY)
  Users,        \* imapd sessions that select the mailbox
  Keepers,      \* pop3d, sync_server and the tools: ipurge, cyr_expire, unexpunge
  NoProc,
  MaxBatch,     \* messages in one append
  Limit,        \* the quota root's limit, in messages
  Forced,       \* EXPUNGE_FORCE runs while cyrus.expunge has records
  MaxMid,       \* bound on the messages ever appended
  MaxInodes,    \* bound on the inodes of cyrus.index
  MaxFaults     \* bound on kills and failed system calls

ASSUME MailboxAssumption ==
  /\ NoProc \notin Deliverers \cup Users \cup Keepers
  /\ MaxBatch \in Nat \ {0}
  /\ {Limit, MaxMid, MaxInodes, MaxFaults} \subseteq Nat
  /\ MaxInodes > 0
  /\ Forced \in BOOLEAN

VARIABLES
  index,        \* the inodes of cyrus.index, oldest first
  cache,        \* per generation, the records of that cyrus.cache
  dir,          \* the inode named cyrus.index, the generation of cyrus.cache
  xfile,        \* cyrus.expunge
  msgs,         \* the message files: uid -> contents, NoFile
  used,         \* quota.used
  header_lock,  \* the process that has cyrus.header locked
  index_lock,   \* per inode, the process that has it locked
  op,           \* per process, the operation it is in
  view,         \* per user, the mailbox it has selected and what its client knows
  mid,          \* messages appended so far
  faults,       \* kills and failures so far
  pub,          \* history: the message published under each uid
  torn          \* history: uids whose expunge or restore was cut between two files

mail == <<index, cache, dir, xfile, msgs>>
history == <<pub, torn>>
vars == <<mail, used, header_lock, index_lock, op, view, mid, faults, history>>

Procs  == Deliverers \cup Users \cup Keepers
Uids   == 1..MaxMid
Inodes == 1..MaxInodes
NoFile == 0
Idle   == [pc |-> "idle", kind |-> "none", fd |-> 0, n |-> 0, clen |-> 0, dels |-> {},
           msgno |-> 0, flag |-> FALSE, usinguid |-> FALSE]
Closed == [mfd |-> 0, ino |-> 0, gen |-> 0, uids |-> <<>>, uidvalidity |-> 0, size |-> 0]

-----------------------------------------------------------------------------
(* Records and files                                                       *)

Record(u, m, o) == [uid |-> u, mid |-> m, off |-> o, del |-> FALSE]

Current == index[dir.index]

\* The messages of an index file: the records its header counts.
Live(ix) == SubSeq(ix.recs, 1, ix.exists)
UidsOf(recs) == [i \in DOMAIN recs |-> recs[i].uid]
UidSet(recs) == {recs[i].uid : i \in DOMAIN recs}
Expunged == SubSeq(xfile.recs, 1, xfile.exists)

\* lseek to record n, then write the records new; what is behind them stays.
WriteAt(recs, n, new) ==
  SubSeq(recs, 1, n - 1) \o new \o SubSeq(recs, n + Len(new), Len(recs))

\* Mutant: the offsets are not adjusted.
RecacheKept(recs, n) == recs

\* The records with their contents copied to a new cache, from position n on.
Recache(recs, n) ==
  [i \in DOMAIN recs |-> [recs[i] EXCEPT !.off = n + i]]
\* An offset behind the end of the cache yields garbage.
CacheOf(recs, gen) ==
  [i \in DOMAIN recs |-> IF recs[i].off \in DOMAIN cache[gen] THEN cache[gen][recs[i].off]
                         ELSE NoFile]

\* mailbox_open_index: the two files belong together.
Gens == Current.gen = dir.cache

Has(p, kind, pc) == op[p].kind = kind /\ op[p].pc = pc
Step(p, pc) == op' = [op EXCEPT ![p].pc = pc]

\* What p holds is unlocked and the operation ends.
Release(p) ==
  /\ header_lock' = IF header_lock = p THEN NoProc ELSE header_lock
  /\ index_lock' = [i \in Inodes |-> IF index_lock[i] = p THEN NoProc ELSE index_lock[i]]
  /\ op' = [op EXCEPT ![p] = Idle]

Fault == faults < MaxFaults /\ faults' = faults + 1

-----------------------------------------------------------------------------
(* Locks                                                                   *)

Writers == [append |-> Deliverers, delayed |-> Users \cup Keepers,
            immediate |-> Users \cup Keepers, cleanup |-> Keepers, unexpunge |-> Keepers]

\* The operation has something to work on: cyr_expire and unexpunge need a
\* cyrus.expunge.
Applies(kind) ==
  /\ kind \in {"cleanup", "unexpunge"} => xfile.there
  /\ kind = "immediate" => Forced \/ ~xfile.there

\* mailbox_lock_header.  A process that has no session opens the index next.
mailbox_lock_header(p, kind) ==
  /\ op[p] = Idle
  /\ p \in Writers[kind]
  /\ p \in Users => view[p] # Closed
  /\ Applies(kind)
  /\ kind # "append" => Len(index) < MaxInodes
  /\ header_lock = NoProc
  /\ header_lock' = p
  /\ op' = [op EXCEPT ![p] =
       [Idle EXCEPT !.pc = "lockindex", !.kind = kind,
                    !.fd = IF p \in Users THEN view[p].mfd ELSE dir.index]]
  /\ UNCHANGED <<mail, used, index_lock, view, mid, faults, history>>

\* The first step under the index lock.
FirstStep(kind) ==
  CASE kind = "append" -> "append"
    [] kind = "store" -> "storeflag"
    [] kind = "unexpunge" -> "restore"
    [] OTHER -> "records"

\* mailbox_lock_index: wait for the lock on the open file; if the name has
\* moved to another inode meanwhile open that one and start again.  Opening
\* fails when index and cache do not belong together.
mailbox_lock_index(p) ==
  /\ op[p].pc = "lockindex"
  /\ index_lock[op[p].fd] = NoProc
  /\ \/ /\ op[p].fd = dir.index /\ Gens
        /\ index_lock' = [index_lock EXCEPT ![op[p].fd] = p]
        /\ op' = [op EXCEPT ![p].pc = FirstStep(op[p].kind),
                            ![p].clen = Len(cache[dir.cache])]
        /\ UNCHANGED <<header_lock, view>>
     \/ /\ op[p].fd # dir.index /\ Gens
        /\ op' = [op EXCEPT ![p].fd = dir.index]
        /\ view' = IF p \in Users THEN [view EXCEPT ![p].mfd = dir.index] ELSE view
        /\ UNCHANGED <<header_lock, index_lock>>
     \/ /\ ~Gens
        /\ Release(p)
        /\ UNCHANGED view
  /\ UNCHANGED <<mail, used, mid, faults, history>>

-----------------------------------------------------------------------------
(* Append                                                                  *)

\* append_fromstage, append_fromstream, append_copy: the message file, its
\* cache record and its index record behind those the header counts.
append_message(p) ==
  /\ op[p].pc = "append"
  /\ op[p].n < MaxBatch
  /\ mid < MaxMid
  /\ used + op[p].n < Limit
  /\ LET ix  == Current
         uid == ix.last_uid + op[p].n + 1
     IN /\ uid \in Uids
        /\ msgs' = [msgs EXCEPT ![uid] = mid + 1]
        /\ cache' = [cache EXCEPT ![dir.cache] = Append(@, mid + 1)]
        /\ index' = [index EXCEPT ![dir.index].recs =
             WriteAt(@, ix.exists + op[p].n + 1,
                     <<Record(uid, mid + 1, Len(cache[dir.cache]) + 1)>>)]
  /\ mid' = mid + 1
  /\ op' = [op EXCEPT ![p].n = @ + 1]
  /\ UNCHANGED <<dir, xfile, used, header_lock, index_lock, view, faults, history>>

\* append_commit up to mailbox_write_index_header: the messages are published.
append_commit(p) ==
  /\ op[p].pc = "append" /\ op[p].n > 0
  /\ index' = [index EXCEPT ![dir.index].exists = @ + op[p].n,
                            ![dir.index].last_uid = @ + op[p].n]
  /\ pub' = [u \in Uids |-> IF u \in Current.last_uid + 1..Current.last_uid + op[p].n
                            THEN msgs[u] ELSE pub[u]]
  /\ Step(p, "commitquota")
  /\ UNCHANGED <<cache, dir, xfile, msgs, used, header_lock, index_lock, view, mid, faults, torn>>

\* append_commit, the rest: the quota is charged, or LOSTQUOTA is logged.
append_quota(p) ==
  /\ Has(p, "append", "commitquota")
  /\ \/ used' = used + op[p].n /\ UNCHANGED faults
     \/ Fault /\ UNCHANGED used
  /\ Release(p)
  /\ UNCHANGED <<mail, view, mid, history>>

\* append_abort: the message files go, the cache is truncated.  The records
\* stay behind the end of the index.  When mailbox_write_index_header has
\* failed last_uid is advanced already and other names are unlinked.
append_abort(p) ==
  /\ op[p].pc = "append"
  /\ \E advanced \in BOOLEAN :
       /\ advanced => op[p].n > 0 /\ Fault
       /\ ~advanced => UNCHANGED faults
       /\ LET first == Current.last_uid + (IF advanced THEN op[p].n ELSE 0) + 1
          IN msgs' = [u \in Uids |-> IF u \in first..first + op[p].n - 1
                                     THEN NoFile ELSE msgs[u]]
  /\ cache' = [cache EXCEPT ![dir.cache] = SubSeq(@, 1, op[p].clen)]
  /\ Release(p)
  /\ UNCHANGED <<index, dir, xfile, used, view, mid, history>>

-----------------------------------------------------------------------------
(* Expunge                                                                 *)

\* The records at the positions in I, in the order that the pairs of R give.
Place(i, I, R) == 1 + Cardinality({j \in I : <<j, i>> \in R})
Ordered(recs, I, R) ==
  [n \in 1..Cardinality(I) |-> recs[CHOOSE i \in I : Place(i, I, R) = n]]
FileOrder(recs) == {e \in (DOMAIN recs) \X (DOMAIN recs) : e[1] < e[2]}

Deleted(recs) == {recs[i].uid : i \in {j \in DOMAIN recs : recs[j].del}}
Keep(recs, D) == Ordered(recs, {i \in DOMAIN recs : recs[i].uid \notin D}, FileOrder(recs))
Drop(recs, D) == Ordered(recs, {i \in DOMAIN recs : recs[i].uid \in D}, FileOrder(recs))

\* Mutant: a delayed expunge deletes the message files too.
newcache_always(kind) == kind \in {"immediate", "cleanup", "delayed"}

\* A new cache is written, and message files are deleted afterwards.
newcache(kind) == kind \in {"immediate", "cleanup"}

\* mailbox_expunge up to the first process_records: decide which messages go;
\* a delayed expunge copies their records behind those cyrus.expunge counts.
process_records(p) ==
  /\ op[p].pc = "records"
  /\ \E D \in IF op[p].kind = "cleanup" THEN SUBSET UidSet(Expunged)
              ELSE {Deleted(Live(Current))} :
       /\ op' = [op EXCEPT ![p].dels = D, ![p].pc = "quota"]
       /\ IF op[p].kind # "delayed" THEN UNCHANGED xfile
          ELSE xfile' = [xfile EXCEPT !.there = TRUE,
                 !.recs = WriteAt(@, xfile.exists + 1, Drop(Live(Current), D))]
  /\ UNCHANGED <<index, cache, dir, msgs, used, header_lock, index_lock, view, mid, faults,
                 history>>

\* mailbox_lock_pop: a POP session has the maildrop.
poplocked(p) ==
  /\ op[p].pc = "records"
  /\ Release(p)
  /\ UNCHANGED <<mail, used, view, mid, faults, history>>

\* Mutant: the quota is not released.
release_quota_kept(p) ==
  /\ op[p].pc = "quota"
  /\ Step(p, IF op[p].kind = "delayed" THEN "xheader" ELSE "renindex")
  /\ UNCHANGED <<mail, used, header_lock, index_lock, view, mid, faults, history>>

\* The quota is released before any file is replaced, and never below 0.
release_quota(p) ==
  /\ op[p].pc = "quota"
  /\ LET freed == IF op[p].kind = "cleanup" THEN 0
                  ELSE Len(Drop(Live(Current), op[p].dels))
     IN used' = IF used >= freed THEN used - freed ELSE 0
  /\ Step(p, IF op[p].kind = "delayed" THEN "xheader" ELSE "renindex")
  /\ UNCHANGED <<mail, header_lock, index_lock, view, mid, faults, history>>

\* Mutant: the header counts the copied records twice.
expunge_header_twice(p) ==
  /\ op[p].pc = "xheader"
  /\ xfile' = [xfile EXCEPT !.exists = @ + 2 * Len(Drop(Live(Current), op[p].dels))]
  /\ Step(p, "renindex")
  /\ UNCHANGED <<index, cache, dir, msgs, used, header_lock, index_lock, view, mid, faults,
                 history>>

\* A delayed expunge fixes the header of cyrus.expunge and syncs it.
expunge_header(p) ==
  /\ op[p].pc = "xheader"
  /\ xfile' = [xfile EXCEPT !.exists = @ + Len(Drop(Live(Current), op[p].dels))]
  /\ Step(p, "renindex")
  /\ UNCHANGED <<index, cache, dir, msgs, used, header_lock, index_lock, view, mid, faults,
                 history>>

\* Mutant: last_uid is taken from the messages that remain.
NewIndexReuse(kind, D) ==
  LET keep == Keep(Live(Current), IF kind = "cleanup" THEN {} ELSE D)
  IN [Current EXCEPT !.gen = IF newcache(kind) THEN @ + 1 ELSE @, !.exists = Len(keep),
        !.last_uid = IF keep = <<>> THEN 0 ELSE keep[Len(keep)].uid,
        !.recs = IF newcache(kind) THEN Recache(keep, 0) ELSE keep]

\* The new index an expunge writes.
NewIndex(kind, D) ==
  LET gone == IF kind = "cleanup" THEN {} ELSE D
      keep == Keep(Live(Current), gone)
  IN [Current EXCEPT
        !.gen = IF newcache(kind) THEN @ + 1 ELSE @,
        !.exists = Len(keep),
        !.deleted = @ - Cardinality({i \in DOMAIN Live(Current) :
                          Current.recs[i].uid \in gone /\ Current.recs[i].del}),
        !.recs = IF newcache(kind) THEN Recache(keep, 0) ELSE keep]

\* cyrus.index.NEW takes the name; with it goes the lock, which is on the old
\* inode.  The new cache has been written.
rename_index(p) ==
  /\ op[p].pc = "renindex" /\ op[p].kind # "unexpunge"
  /\ LET kind == op[p].kind
         D    == op[p].dels
         main == Keep(Live(Current), IF kind = "cleanup" THEN {} ELSE D)
         rest == IF kind = "cleanup" THEN Keep(Expunged, D) ELSE <<>>
     IN /\ index' = Append(index, NewIndex(kind, D))
        /\ cache' = IF newcache(kind)
                    THEN [cache EXCEPT ![dir.cache + 1] = CacheOf(main \o rest, dir.cache)]
                    ELSE cache
        /\ dir' = [dir EXCEPT !.index = Len(index) + 1]
        /\ Step(p, IF newcache(kind) THEN "rencache" ELSE "unlock")
  /\ UNCHANGED <<xfile, msgs, used, header_lock, index_lock, view, mid, faults, history>>

\* cyrus.cache.NEW takes the name.  A failure is logged and passed over.
rename_cache(p) ==
  /\ op[p].pc = "rencache"
  /\ \/ dir' = [dir EXCEPT !.cache = Current.gen] /\ UNCHANGED faults
     \/ Fault /\ UNCHANGED dir
  /\ Step(p, IF op[p].kind = "cleanup" THEN "renexpunge" ELSE "unlock")
  /\ UNCHANGED <<index, cache, xfile, msgs, used, header_lock, index_lock, view, mid, history>>

NoExpunge == [there |-> FALSE, exists |-> 0, recs |-> <<>>]

\* cyrus.expunge.NEW takes the name, or cyrus.expunge goes when it has no
\* record left.
rename_expunge(p) ==
  /\ Has(p, "cleanup", "renexpunge")
  /\ LET keep == Keep(Expunged, op[p].dels)
     IN xfile' = IF keep = <<>> THEN NoExpunge
                 ELSE [there |-> TRUE, exists |-> Len(keep),
                       recs |-> Recache(keep, Current.exists)]
  /\ Step(p, "unlock")
  /\ UNCHANGED <<index, cache, dir, msgs, used, header_lock, index_lock, view, mid, faults,
                 history>>

\* cmd_expunge goes on with index_check.
Check == [Idle EXCEPT !.pc = "open", !.kind = "check", !.fd = dir.index]
AfterExpunge(p) == IF p \in Users THEN Check ELSE Idle

\* The locks are given up; the message files are deleted after that.
unlock(p) ==
  /\ op[p].pc = "unlock"
  /\ header_lock' = NoProc
  /\ index_lock' = [i \in Inodes |-> IF index_lock[i] = p THEN NoProc ELSE index_lock[i]]
  /\ op' = [op EXCEPT ![p] = IF newcache(@.kind) THEN [@ EXCEPT !.pc = "unlink"]
                                   ELSE AfterExpunge(p)]
  /\ UNCHANGED <<mail, used, view, mid, faults, history>>

unlink_messages(p) ==
  /\ op[p].pc = "unlink"
  /\ IF op[p].dels = {} THEN op' = [op EXCEPT ![p] = AfterExpunge(p)] /\ UNCHANGED msgs
     ELSE \E u \in op[p].dels :
            /\ msgs' = [msgs EXCEPT ![u] = NoFile]
            /\ op' = [op EXCEPT ![p].dels = @ \ {u}]
  /\ UNCHANGED <<index, cache, dir, xfile, used, header_lock, index_lock, view, mid, faults,
                 history>>

\* The uids that end up in both files, or with offsets into the cache that was
\* replaced, when p goes no further.
CutOff(p) ==
  CASE Has(p, "delayed", "renindex") -> op[p].dels
    [] Has(p, "unexpunge", "renexpunge") -> op[p].dels
    [] Has(p, "cleanup", "renexpunge") -> UidSet(Expunged)
    [] OTHER -> {}

\* fail: a write or a rename did not succeed.  The records that were copied
\* are truncated as long as the header does not count them.
expunge_fails(p) ==
  /\ op[p].pc \in {"quota", "xheader", "renindex"}
  /\ Fault
  /\ xfile' = IF op[p].kind = "delayed" /\ op[p].pc = "xheader"
              THEN [xfile EXCEPT !.recs = SubSeq(@, 1, xfile.exists)] ELSE xfile
  /\ torn' = torn \cup CutOff(p)
  /\ Release(p)
  /\ UNCHANGED <<index, cache, dir, msgs, used, view, mid, pub>>

-----------------------------------------------------------------------------
(* unexpunge                                                               *)

\* Mutant: the restored records are put behind the others.
MergedBehind(recs, new) == recs \o new

\* The records of both files in the order of their uids, those of the index
\* first.
UidOrder(recs) ==
  {e \in (DOMAIN recs) \X (DOMAIN recs) :
     \/ recs[e[1]].uid < recs[e[2]].uid
     \/ recs[e[1]].uid = recs[e[2]].uid /\ e[1] < e[2]}
Merged(recs, new) == Ordered(recs \o new, DOMAIN (recs \o new), UidOrder(recs \o new))

\* restore_expunged: choose what to restore, merge it into a new index with a
\* new UIDVALIDITY and rename it.
restore_index(p) ==
  /\ Has(p, "unexpunge", "restore")
  /\ \E D \in SUBSET UidSet(Expunged) \ {{}}, unsetdeleted \in BOOLEAN :
       LET back == [i \in DOMAIN Drop(Expunged, D) |->
                      [Drop(Expunged, D)[i] EXCEPT !.del = @ /\ ~unsetdeleted]]
           recs == Merged(Live(Current), back)
       IN /\ index' = Append(index, [Current EXCEPT
                !.uidvalidity = @ + 1,
                !.exists = Len(recs),
                !.deleted = @ + Cardinality({i \in DOMAIN back : back[i].del}),
                !.recs = recs])
          /\ op' = [op EXCEPT ![p].dels = D, ![p].pc = "renexpunge"]
  /\ dir' = [dir EXCEPT !.index = Len(index) + 1]
  /\ UNCHANGED <<cache, xfile, msgs, used, header_lock, index_lock, view, mid, faults, history>>

restore_expunge(p) ==
  /\ Has(p, "unexpunge", "renexpunge")
  /\ LET keep == Keep(Expunged, op[p].dels)
     IN xfile' = [there |-> TRUE, exists |-> Len(keep), recs |-> keep]
  /\ op' = [op EXCEPT ![p].pc = "addquota", ![p].n = Len(Drop(Expunged, op[p].dels))]
  /\ UNCHANGED <<index, cache, dir, msgs, used, header_lock, index_lock, view, mid, faults,
                 history>>

restore_quota(p) ==
  /\ Has(p, "unexpunge", "addquota")
  /\ \/ used' = used + op[p].n /\ UNCHANGED faults
     \/ Fault /\ UNCHANGED used
  /\ Release(p)
  /\ UNCHANGED <<mail, view, mid, history>>

\* Nothing was chosen, or the second rename failed.
restore_fails(p) ==
  /\ \/ Has(p, "unexpunge", "restore") /\ UNCHANGED faults
     \/ Has(p, "unexpunge", "renexpunge") /\ Fault
  /\ torn' = torn \cup CutOff(p)
  /\ Release(p)
  /\ UNCHANGED <<mail, used, view, mid, pub>>

-----------------------------------------------------------------------------
(* Sessions                                                                *)

\* mailbox_open_index, the first file: SELECT, or index_check after it found
\* another inode under the name.
index_newmailbox(p) ==
  /\ op[p] = Idle /\ view[p] = Closed
  /\ op' = [op EXCEPT ![p] = [Idle EXCEPT !.pc = "open", !.kind = "select", !.fd = dir.index]]
  /\ UNCHANGED <<mail, used, header_lock, index_lock, view, mid, faults, history>>

Replaced(v) == dir.index # v.mfd \/ v.ino # v.mfd

index_check_replaced(p) ==
  /\ op[p] = Idle /\ view[p] # Closed /\ Replaced(view[p])
  /\ op' = [op EXCEPT ![p] = Check]
  /\ UNCHANGED <<mail, used, header_lock, index_lock, view, mid, faults, history>>

\* Mutant: messages behind the last one of the new index are not compared.
NotifiedShort(old, new, last) ==
  LET kept[o \in 0..Len(old)] ==
        IF o = 0 THEN <<>>
        ELSE LET m == Len(kept[o - 1]) + 1
             IN IF m <= Len(new) /\ old[o] < new[m] THEN kept[o - 1]
                ELSE Append(kept[o - 1], old[o])
  IN kept[Len(old)]

\* The loop of index_check: what the client's list of uids becomes when it
\* applies the EXPUNGE responses.  The message after those that were kept is the
\* one the next is compared with.
Notified(old, new, last) ==
  LET kept[o \in 0..Len(old)] ==
        IF o = 0 THEN <<>>
        ELSE LET m   == Len(kept[o - 1]) + 1
                 uid == IF m <= Len(new) THEN new[m] ELSE last + 1
             IN IF old[o] < uid THEN kept[o - 1] ELSE Append(kept[o - 1], old[o])
  IN kept[Len(old)]

\* The EXISTS response: the client asks for the uids of the messages it does
\* not know yet.
Told(known, uids) == known \o SubSeq(uids, Len(known) + 1, Len(uids))

\* mailbox_open_index, the second file.  When the generations differ both are
\* closed and opened again, MAXTRIES times; then a SELECT is refused and
\* index_check ends the process.  A new UIDVALIDITY makes the client forget.
index_opened(p) ==
  /\ op[p].pc = "open"
  /\ LET ix   == index[op[p].fd]
         uids == UidsOf(Live(ix))
         same == view[p] # Closed /\ view[p].uidvalidity = ix.uidvalidity
     IN IF ix.gen = dir.cache
        THEN /\ view' = [view EXCEPT ![p] =
                  [mfd |-> op[p].fd, ino |-> op[p].fd, gen |-> ix.gen,
                   uids |-> IF same THEN Told(Notified(view[p].uids, uids, ix.last_uid), uids)
                            ELSE uids,
                   uidvalidity |-> ix.uidvalidity, size |-> Len(ix.recs)]]
             /\ op' = [op EXCEPT ![p] = Idle]
        ELSE \/ /\ op' = [op EXCEPT ![p].fd = dir.index]
                /\ UNCHANGED view
             \/ /\ op' = [op EXCEPT ![p] = Idle]
                /\ view' = [view EXCEPT ![p] = Closed]
  /\ UNCHANGED <<mail, used, header_lock, index_lock, mid, faults, history>>

\* index_check with the same inode: the header is read again when the file has
\* another size or time.  The time has a resolution of one second, so a
\* change that leaves the size may be missed.
index_check(p) ==
  /\ op[p] = Idle /\ view[p] # Closed /\ ~Replaced(view[p])
  /\ \/ view' = [view EXCEPT ![p].uids = Told(@, UidsOf(Live(Current))),
                             ![p].size = Len(Current.recs)]
     \/ Len(Current.recs) = view[p].size /\ UNCHANGED view
  /\ UNCHANGED <<mail, used, header_lock, index_lock, op, mid, faults, history>>

\* STORE and UID STORE +FLAGS, -FLAGS \Deleted: wait for the index lock.  The
\* header's count can drift away; MaxMid bounds how far.
index_store(p) ==
  /\ op[p] = Idle /\ view[p] # Closed
  /\ Current.deleted \in 0..MaxMid
  /\ \E n \in DOMAIN view[p].uids, flag, usinguid \in BOOLEAN :
       op' = [op EXCEPT ![p] =
         [Idle EXCEPT !.pc = "lockindex", !.kind = "store", !.fd = view[p].mfd,
                      !.msgno = n, !.flag = flag, !.usinguid = usinguid]]
  /\ UNCHANGED <<mail, used, header_lock, index_lock, view, mid, faults, history>>

\* index_storeflag: look the uid up in the locked file and write its record;
\* for an expunged message only the header's counts are changed, from the
\* flags the session has mapped.
index_storeflag(p) ==
  /\ Has(p, "store", "storeflag")
  /\ LET uid == view[p].uids[op[p].msgno]
         at  == {i \in 1..Current.exists : Current.recs[i].uid = uid}
         was == IF at # {} THEN Current.recs[CHOOSE i \in at : TRUE].del
                ELSE index[view[p].ino].recs[op[p].msgno].del
         n   == CASE op[p].flag /\ ~was -> 1 [] ~op[p].flag /\ was -> -1 [] OTHER -> 0
     IN index' = IF at = {} /\ op[p].usinguid THEN index
                 ELSE [index EXCEPT
                   ![dir.index].deleted = @ + n,
                   ![dir.index].recs =
                      [i \in DOMAIN @ |-> IF i \in at THEN [@[i] EXCEPT !.del = op[p].flag]
                                          ELSE @[i]]]
  /\ Release(p)
  /\ UNCHANGED <<cache, dir, xfile, msgs, used, view, mid, faults, history>>

index_closemailbox(p) ==
  /\ op[p] = Idle /\ view[p] # Closed
  /\ view' = [view EXCEPT ![p] = Closed]
  /\ UNCHANGED <<mail, used, header_lock, index_lock, op, mid, faults, history>>

\* A process is killed: its locks go with it, its files stay as they are.
Kill(p) ==
  /\ op[p] # Idle
  /\ Fault
  /\ torn' = torn \cup CutOff(p)
  /\ view' = IF p \in Users THEN [view EXCEPT ![p] = Closed] ELSE view
  /\ Release(p)
  /\ UNCHANGED <<mail, used, mid, pub>>

\* Everybody is between two operations.
Rest == (\A p \in Procs : op[p] = Idle) /\ UNCHANGED vars

-----------------------------------------------------------------------------
Init ==
  /\ index = <<[gen |-> 1, uidvalidity |-> 1, exists |-> 0, last_uid |-> 0, deleted |-> 0,
                recs |-> <<>>]>>
  /\ cache = [g \in Inodes |-> <<>>]
  /\ dir = [index |-> 1, cache |-> 1]
  /\ xfile = NoExpunge
  /\ msgs = [u \in Uids |-> NoFile]
  /\ used = 0
  /\ header_lock = NoProc
  /\ index_lock = [i \in Inodes |-> NoProc]
  /\ op = [p \in Procs |-> Idle]
  /\ view = [p \in Users |-> Closed]
  /\ mid = 0
  /\ faults = 0
  /\ pub = [u \in Uids |-> NoFile]
  /\ torn = {}

Locking(p) == (\E kind \in DOMAIN Writers : mailbox_lock_header(p, kind)) \/ mailbox_lock_index(p)
Appending(p) == append_message(p) \/ append_commit(p) \/ append_quota(p) \/ append_abort(p)
Expunging(p) ==
  \/ process_records(p) \/ poplocked(p) \/ release_quota(p) \/ expunge_header(p)
  \/ rename_index(p) \/ rename_cache(p) \/ rename_expunge(p) \/ unlock(p)
  \/ unlink_messages(p) \/ expunge_fails(p)
Restoring(p) ==
  restore_index(p) \/ restore_expunge(p) \/ restore_quota(p) \/ restore_fails(p)
Session(p) ==
  \/ index_newmailbox(p) \/ index_check_replaced(p) \/ index_opened(p) \/ index_check(p)
  \/ index_store(p) \/ index_storeflag(p) \/ index_closemailbox(p)

Next ==
  \/ \E p \in Procs : Locking(p) \/ Kill(p)
  \/ \E p \in Deliverers : Appending(p)
  \/ \E p \in Users \cup Keepers : Expunging(p)
  \/ \E p \in Keepers : Restoring(p)
  \/ \E p \in Users : Session(p)
  \/ Rest

Spec == Init /\ [][Next]_vars

-----------------------------------------------------------------------------
(* Properties                                                              *)

\* Every variable keeps its shape: the names point to files, header counts do
\* not go past the records of the file (mailbox_read_index_header), a lock is
\* held by a process that is in an operation.
TypeOK ==
  /\ dir.index \in DOMAIN index /\ dir.cache \in Inodes
  /\ \A i \in DOMAIN index : index[i].exists \in 0..Len(index[i].recs)
  /\ xfile.exists \in 0..Len(xfile.recs)
  /\ msgs \in [Uids -> 0..MaxMid] /\ pub \in [Uids -> 0..MaxMid]
  /\ used \in Nat
  /\ header_lock \in Procs \cup {NoProc}
  /\ index_lock \in [Inodes -> Procs \cup {NoProc}]
  /\ \A p \in Procs : op[p] = Idle => header_lock # p /\ \A i \in Inodes : index_lock[i] # p

\* A message the index counts has its file, whatever was killed or failed, as
\* long as its expunge or restore was not cut between two files; and so has a
\* message in cyrus.expunge, which unexpunge may bring back.
MessageFiles ==
  /\ \A i \in 1..Current.exists :
       LET r == Current.recs[i] IN r.uid \in torn \/ msgs[r.uid] = r.mid
  /\ \A i \in 1..xfile.exists :
       LET r == xfile.recs[i] IN r.uid \in torn \/ msgs[r.uid] = r.mid

\* What a session or unexpunge finds at a cache offset is that message's
\* record: a session's index and cache are of one generation although they are
\* opened one after the other without a lock, and cyrus.expunge follows the
\* cache when it is rewritten (as long as the mailbox can be opened at all).
CacheOffsets ==
  /\ \A p \in Users : \A i \in DOMAIN view[p].uids :
       LET r == index[view[p].ino].recs[i]
       IN \/ r.uid \in torn
          \/ r.off \in DOMAIN cache[view[p].gen] /\ cache[view[p].gen][r.off] = r.mid
  /\ Gens => \A i \in 1..xfile.exists :
       LET r == xfile.recs[i]
       IN \/ r.uid \in torn
          \/ r.off \in DOMAIN cache[dir.cache] /\ cache[dir.cache][r.off] = r.mid
          \/ \E p \in Procs : op[p].pc = "renexpunge"

\* A uid that was published keeps its message: neither an aborted or killed
\* append, nor the one that reuses its file name, nor an expunge that deletes
\* files after it unlocked can put another message under it.
UidBinding ==
  \A u \in Uids : pub[u] # NoFile =>
    /\ msgs[u] \in {NoFile, pub[u]}
    /\ \A i \in 1..Current.exists : Current.recs[i].uid = u => Current.recs[i].mid = pub[u]

\* The list of uids a client builds from the EXISTS and EXPUNGE responses is
\* the list of the file its session has mapped: a message number means the
\* same message to both.
ClientView ==
  \A p \in Users : view[p] # Closed =>
    \A i \in DOMAIN view[p].uids :
      i <= Len(index[view[p].ino].recs) /\ index[view[p].ino].recs[i].uid = view[p].uids[i]

\* Uids ascend strictly in cyrus.index, which every lookup by uid relies on,
\* also after records were restored from cyrus.expunge.
UidsAscend ==
  \A i, j \in 1..Current.exists :
    i < j => Current.recs[i].uid < Current.recs[j].uid \/ Current.recs[i].uid \in torn

\* The quota root never counts more than the messages that are there: every
\* step that could be the last one of its process leaves it too low, never too
\* high; and without a fault it is exact when nobody is at work.
QuotaOneSided ==
  /\ used <= Current.exists
  /\ faults = 0 /\ (\A p \in Procs : op[p] = Idle) => used = Current.exists

\* Counts of how many messages have each flag (doc/internal/mailbox-format).
DeletedCount == Current.deleted = Cardinality({i \in 1..Current.exists : Current.recs[i].del})
=============================================================================
