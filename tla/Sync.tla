-------------------------------- MODULE Sync --------------------------------
(***************************************************************************)
(* Rolling replication (imap/sync_log.c, imap/sync_client.c,               *)
(* imap/sync_server.c, imap/sync_commit.c).                                *)
(*                                                                         *)
(* Server processes on the master change a mailbox and then add a line to  *)
(* the log file sync/log that names it.  sync_client renames the log, reads *)
(* it, looks at the named mailboxes on both sides and sends the commands   *)
(* that make the replica equal.  Lines carry no data: what is sent is the  *)
(* state of the mailbox when sync_client opens it, which other processes   *)
(* go on changing meanwhile.                                               *)
(*                                                                         *)
(* Modelled: the mailboxes of one user (an INBOX and folders), their       *)
(* messages and flags, the MAILBOX, APPEND and USER lines and their        *)
(* promotion, the log file protocol, the failure of commands and of        *)
(* sync_client.  ACL, QUOTA, ANNOTATION, SEEN, SUB and META lines, which    *)
(* go the same way and touch no messages, are left out.                    *)
(***************************************************************************)
EXTENDS Integers, FiniteSets, Sequences, SequencesExt

CONSTANTS
  Writers,            \* server processes on the master
  Inbox,              \* the INBOX of the user
  Folders,            \* the names of the other mailboxes
  Order,              \* all names in the order of the mailboxes database
  Kinds,              \* the requests the server processes serve
  Busy,               \* the mailboxes that mail goes in and out of
  Inodes,             \* numbers of files
  Batch,              \* sync_batch_size
  SYNC_LOG_RETRIES,   \* tries of a writer to lock the log
  SYNC_MAILBOX_RETRIES,
  MaxOps,             \* bound: requests
  MaxTries,           \* bound: how often a writer loses the log it has opened
  MaxNo,              \* bound: commands that the replica refuses
  MaxDie              \* bound: ends of sync_client in the middle of a run

ASSUME FolderAssumption == Inbox \notin Folders /\ IsFiniteSet(Folders)
ASSUME OrderAssumption == /\ Order \in Seq(Folders \cup {Inbox}) /\ Order[1] = Inbox
                          /\ Range(Order) = Folders \cup {Inbox}
ASSUME BoundAssumption == /\ Batch \in Nat \ {0} /\ SYNC_LOG_RETRIES \in Nat
                          /\ SYNC_MAILBOX_RETRIES \in Nat \ {0}
                          /\ MaxOps \in Nat /\ MaxTries \in Nat /\ MaxNo \in Nat /\ MaxDie \in Nat

Names == Folders \cup {Inbox}
None == [id |-> 0, msgs |-> {}, last |-> 0]
NoInode == 0
ASSUME InodeAssumption == Inodes # {} /\ NoInode \notin Inodes /\ Inodes \subseteq Nat /\ Busy \subseteq Names

VARIABLES
  mst,      \* the master's mailboxes: name -> uniqueid, messages, last_uid
  rep,      \* the replica's
  w,        \* what each server process is doing
  cur,      \* the inode that sync/log leads to
  wrk,      \* the inode of the file that sync_client works on
  left,     \* the inodes of work files that a failed sync_client left behind
  file,     \* what has been written to each inode
  flock,    \* who holds the lock of each inode
  c,        \* what sync_client is doing
  onserver, \* sync_client: the messages it takes to be staged on the replica
  staged,   \* sync_server: the messages that are staged
  garbled,  \* the replica will take the next command for a part of the last one
  ops, faults,
  bound     \* history: which message the master ever had under a UID of a mailbox

vars == <<mst, rep, w, cur, wrk, left, file, flock, c, onserver, staged, garbled, ops, faults,
          bound>>
master == <<mst, w, cur, ops, bound>>
logs == <<cur, wrk, left, file, flock>>

Msg(uid, uuid, fl) == [uid |-> uid, uuid |-> uuid, fl |-> fl, body |-> uuid]
Uids(s) == {x.uid : x \in s}
Uuids(s) == {x.uuid : x \in s}

First(s) == CHOOSE i \in s : \A j \in s : i <= j

(* The members of the list s at the places in I, in their order.           *)
Sublist(s, I) ==
  [k \in 1..Cardinality(I) |-> s[CHOOSE i \in I : Cardinality({j \in I : j < i}) = k - 1]]

MAILBOX(n) == [t |-> "MAILBOX", n |-> n]
APPEND(n) == [t |-> "APPEND", n |-> n]
USER == [t |-> "USER", n |-> Inbox]

-----------------------------------------------------------------------------
(* Server processes.  A process that has lines to write calls sync_log     *)
(* once for each member of out; sub is true while it deletes an account.   *)
Ready == [pc |-> "idle", fd |-> NoInode, tries |-> 0, out |-> <<>>, sub |-> FALSE]
Logs(calls, sub) == [Ready EXCEPT !.pc = "open", !.out = calls, !.sub = sub]

(* A request changes the mailbox under its locks; the line for the log is  *)
(* written after the locks are gone.                                       *)
Change(p, m, lines) ==
  /\ ops < MaxOps /\ ops' = ops + 1
  /\ mst' = m
  /\ bound' = bound \cup UNION {{[id |-> m[n].id, uid |-> x.uid, uuid |-> x.uuid] :
                                  x \in m[n].msgs} : n \in Names}
  /\ w' = [w EXCEPT ![p] = Logs(<<lines>>, FALSE)]
  /\ UNCHANGED <<rep, logs, c, onserver, staged, garbled, faults>>

Idle(p, k) == w[p].pc = "idle" /\ k \in Kinds
NewId == 1 + Cardinality(Names) + ops
NewUuid == 100 + ops

Append1(b, uuid, fl) == [b EXCEPT !.msgs = @ \cup {Msg(b.last + 1, uuid, fl)}, !.last = @ + 1]

(* Delivery and APPEND.                                                    *)
append(p, n) ==
  /\ Idle(p, "append") /\ n \in Busy /\ mst[n] # None
  /\ Change(p, [mst EXCEPT ![n] = Append1(@, NewUuid, FALSE)], <<APPEND(n)>>)

(* index_copy: the copy has the UUID of the original.                      *)
index_copy(p, n, m) ==
  /\ Idle(p, "copy") /\ {n, m} \subseteq Busy /\ mst[n] # None /\ mst[m] # None /\ n # m
  /\ \E x \in mst[n].msgs :
       Change(p, [mst EXCEPT ![m] = Append1(@, x.uuid, x.fl)], <<MAILBOX(n), MAILBOX(m)>>)

store(p, n) ==
  /\ Idle(p, "store") /\ n \in Busy
  /\ \E x \in mst[n].msgs :
       Change(p, [mst EXCEPT ![n].msgs = (@ \ {x}) \cup {[x EXCEPT !.fl = ~@]}], <<MAILBOX(n)>>)

expunge(p, n) ==
  /\ Idle(p, "expunge") /\ n \in Busy
  /\ \E x \in mst[n].msgs :
       Change(p, [mst EXCEPT ![n].msgs = @ \ {x}], <<MAILBOX(n)>>)

(* CREATE; for an INBOX it logs the user.                                  *)
create(p, n) ==
  /\ Idle(p, "create") /\ mst[n] = None /\ (n = Inbox \/ mst[Inbox] # None)
  /\ Change(p, [mst EXCEPT ![n] = [None EXCEPT !.id = NewId]],
            IF n = Inbox THEN <<USER>> ELSE <<MAILBOX(n)>>)

delete(p, n) ==
  /\ Idle(p, "delete") /\ mst[n] # None /\ n \in Folders
  /\ Change(p, [mst EXCEPT ![n] = None], <<MAILBOX(n)>>)

(* DELETE of an INBOX goes on with the folders, one after the other, and   *)
(* logs the user and the INBOX at last.                                    *)
delete_user(p) ==
  /\ Idle(p, "delete") /\ mst[Inbox] # None /\ ops < MaxOps
  /\ ops' = ops + 1
  /\ mst' = [mst EXCEPT ![Inbox] = None]
  /\ w' = [w EXCEPT ![p] = [Ready EXCEPT !.pc = "sub", !.sub = TRUE]]
  /\ UNCHANGED <<rep, logs, c, onserver, staged, garbled, faults, bound>>

delmbox(p) ==
  /\ w[p].pc = "sub"
  /\ LET there == {i \in DOMAIN Order : Order[i] # Inbox /\ mst[Order[i]] # None}
         n == Order[First(there)]
     IN IF there = {}
        THEN /\ w' = [w EXCEPT ![p] = Logs(<<<<USER>>, <<MAILBOX(Inbox)>>>>, FALSE)]
             /\ UNCHANGED mst
        ELSE /\ w' = [w EXCEPT ![p] = Logs(<<<<MAILBOX(n)>>>>, TRUE)]
             /\ mst' = [mst EXCEPT ![n] = None]
  /\ UNCHANGED <<rep, logs, c, onserver, staged, garbled, ops, faults, bound>>

rename(p, n, m) ==
  /\ Idle(p, "rename") /\ mst[n] # None /\ mst[m] = None /\ {n, m} \subseteq Folders
  /\ Change(p, [mst EXCEPT ![n] = None, ![m] = mst[n]], <<MAILBOX(n), MAILBOX(m)>>)

-----------------------------------------------------------------------------
(* sync_log_base: open the log, or create it; lock it; look whether it is  *)
(* still the log; write and close.                                         *)
Again(p) == [w[p] EXCEPT !.pc = "open", !.fd = NoInode]
Called(p) == IF Len(w[p].out) > 1 THEN Logs(Tail(w[p].out), w[p].sub)
             ELSE IF w[p].sub THEN [Ready EXCEPT !.pc = "sub", !.sub = TRUE] ELSE Ready
Close(p, next) == /\ flock' = [flock EXCEPT ![w[p].fd] = "free"]
                  /\ w' = [w EXCEPT ![p] = next]

(* A number is free when no name and no descriptor leads to the file.      *)
FreeInodes == Inodes \ ({cur, wrk} \cup left \cup {w[p].fd : p \in Writers})
FirstFree == First(FreeInodes)

log_open(p) ==
  /\ w[p].pc = "open" /\ (cur = NoInode => FreeInodes # {})
  /\ LET fd == IF cur = NoInode THEN FirstFree ELSE cur
     IN /\ cur' = fd
        /\ w' = [w EXCEPT ![p].pc = "lock", ![p].fd = fd, ![p].tries = @ + 1]
  /\ UNCHANGED <<mst, rep, wrk, left, file, flock, c, onserver, staged, garbled, ops, faults, bound>>

(* Mutant: nobody looks whether the file is still the log.                 *)
log_lock_blind(p) ==
  /\ w[p].pc = "lock" /\ flock[w[p].fd] = "free"
  /\ w' = [w EXCEPT ![p].pc = "write"] /\ flock' = [flock EXCEPT ![w[p].fd] = p]
  /\ UNCHANGED <<mst, rep, cur, wrk, left, file, c, onserver, staged, garbled, ops, faults, bound>>

(* The count of tries goes up before each one, and a try that succeeds is  *)
(* given up when it was the last.                                          *)
log_lock(p) ==
  /\ w[p].pc = "lock" /\ flock[w[p].fd] = "free"
  /\ IF w[p].tries >= SYNC_LOG_RETRIES THEN Close(p, Called(p))
     ELSE IF w[p].fd # cur THEN Close(p, Again(p))
     ELSE w' = [w EXCEPT ![p].pc = "write"] /\ flock' = [flock EXCEPT ![w[p].fd] = p]
  /\ UNCHANGED <<mst, rep, cur, wrk, left, file, c, onserver, staged, garbled, ops, faults, bound>>

log_write(p) ==
  /\ w[p].pc = "write"
  /\ file' = [file EXCEPT ![w[p].fd] = @ \o Head(w[p].out)]
  /\ Close(p, Called(p))
  /\ UNCHANGED <<mst, rep, cur, wrk, left, c, onserver, staged, garbled, ops, faults, bound>>

-----------------------------------------------------------------------------
(* sync_client.                                                            *)
Rest == [pc |-> "idle", mode |-> "none", app |-> <<>>, mbx |-> <<>>, user |-> FALSE, n |-> 0,
         second |-> FALSE, vanished |-> FALSE, r |-> FALSE, fl |-> <<>>, srv |-> <<>>,
         dels |-> <<>>, rens |-> {}, i |-> 0, m |-> None, box |-> Inbox, list |-> {},
         last |-> 0, fresh |-> FALSE, need |-> {}, once |-> FALSE]

(* The index of the next folder that is not done.                          *)
Unmarked(fl) == {i \in 1..Len(fl) : ~fl[i].mark}
Folder(name) == [name |-> name, id |-> 0, mark |-> FALSE]

(* What follows the mailboxes: the users.                                  *)
Users(k) == IF k.user
            THEN [k EXCEPT !.pc = "user", !.mode = "user", !.n = 0, !.second = FALSE,
                           !.fl = <<>>, !.srv = <<>>]
            ELSE [k EXCEPT !.pc = "done"]

Mailboxes(k) == IF k.mbx = <<>> THEN Users(k)
                ELSE [k EXCEPT !.pc = "mailboxes", !.mode = "mailbox", !.n = 0,
                               !.fl = [i \in 1..Len(k.mbx) |-> Folder(k.mbx[i])]]

Appends(k) == IF k.app = <<>> THEN Mailboxes(k) ELSE [k EXCEPT !.pc = "append", !.mode = "append"]

Add(s, n) == IF Contains(s, n) THEN s ELSE Append(s, n)

(* A folder list is done.  do_user runs once more when a folder vanished.  *)
Done(k) == CASE k.mode = "mailbox" -> Users(k)
             [] k.mode = "user" -> IF k.vanished /\ ~k.second
                                   THEN [k EXCEPT !.pc = "user", !.second = TRUE]
                                   ELSE [k EXCEPT !.pc = "done"]

(* An operation failed: an APPEND becomes a MAILBOX, the first folder that *)
(* is not done becomes a USER, and the rest is tried again a few times.    *)
(* "bail" is the end.                                                      *)
Fail(k) ==
  CASE k.mode = "append" ->
         Appends([k EXCEPT !.mbx = Add(@, Head(k.app)), !.app = Tail(@)])
    [] k.mode = "mailbox" ->
         LET j == First(Unmarked(k.fl))
             p == [k EXCEPT !.fl[j].mark = TRUE, !.user = TRUE, !.n = @ + 1]
         IN IF Unmarked(p.fl) = {} THEN Users(p)
            ELSE [p EXCEPT !.pc = IF p.n < SYNC_MAILBOX_RETRIES THEN "mailboxes" ELSE "bail"]
    [] k.mode = "user" ->
         IF k.vanished /\ ~k.second THEN [k EXCEPT !.pc = "user", !.second = TRUE]
         ELSE [k EXCEPT !.n = @ + 1, !.second = FALSE, !.vanished = FALSE,
                        !.pc = IF k.n + 1 < SYNC_MAILBOX_RETRIES THEN "user" ELSE "bail"]

Lookup(srv, id) == {i \in 1..Len(srv) : srv[i].id = id}
(* do_folders: tag the folders of the replica that the client still has.   *)
Matched(k) == {e \in (1..Len(k.fl)) \X (1..Len(k.srv)) :
                 /\ ~k.fl[e[1]].mark /\ k.fl[e[1]].id # 0
                 /\ Lookup(k.srv, k.fl[e[1]].id) # {}
                 /\ e[2] = First(Lookup(k.srv, k.fl[e[1]].id))}
Tagged(k) ==
  LET tag == {e[2] : e \in Matched(k)}
      srv == [i \in 1..Len(k.srv) |-> [k.srv[i] EXCEPT !.mark = i \in tag]]
      stale == Sublist(k.srv, DOMAIN k.srv \ tag)
  IN [k EXCEPT !.srv = srv, !.need = {}, !.pc = "delete",
               !.dels = [i \in 1..Len(stale) |-> stale[i].name],
               !.rens = {[old |-> k.srv[e[2]].name, new |-> k.fl[e[1]].name] :
                           e \in {f \in Matched(k) : k.srv[f[2]].name # k.fl[f[1]].name}}]

(* The loops of do_folders up to the next thing that looks at a mailbox:   *)
(* nothing to reserve, to delete or to rename, folders that are done or    *)
(* have no uniqueid, the end of the list.                                  *)
From(s, k) == LET t == {i \in s : i >= k.i} IN IF t = {} THEN Len(k.fl) + 1 ELSE First(t)
AfterIds(k) == IF k.pc # "ids" THEN k
               ELSE LET i == From(Unmarked(k.fl), k)
                    IN IF i <= Len(k.fl) THEN [k EXCEPT !.i = i]
                       ELSE IF k.need # {} THEN [k EXCEPT !.pc = "reserve", !.i = i]
                       ELSE Tagged(k)
AfterDelete(k) == IF k.pc = "delete" /\ k.dels = <<>> THEN [k EXCEPT !.pc = "rename"] ELSE k
AfterRename(k) == IF k.pc = "rename" /\ k.rens = {} THEN [k EXCEPT !.pc = "folder", !.i = 1] ELSE k
AfterFolder(k) == IF k.pc # "folder" THEN k
                  ELSE LET i == From({j \in Unmarked(k.fl) : k.fl[j].id # 0}, k)
                       IN IF i <= Len(k.fl) THEN [k EXCEPT !.i = i]
                          ELSE IF k.r THEN Fail(k) ELSE Done(k)
Settled(next) == {AfterFolder(AfterRename(b)) : b \in {AfterDelete(a) : a \in {AfterIds(k) : k \in {next}}}}

(* sync_client goes on to k with the session's view of staged messages.    *)
(* At the end of do_sync the work file is unlinked on success; on failure  *)
(* sync_client exits, which ends the session, and the file stays.          *)
GoWith(next, on, st) == \E k \in Settled(next) :
  /\ UNCHANGED master
  /\ IF k.pc \notin {"done", "bail"}
     THEN /\ c' = k /\ onserver' = on /\ staged' = st
          /\ UNCHANGED <<wrk, left, file, flock>>
     ELSE LET ok == k.pc = "done"
          IN /\ c' = [Rest EXCEPT !.pc = IF ok /\ ~k.once THEN "idle" ELSE "dead"]
             /\ wrk' = NoInode
             /\ left' = IF ok THEN left ELSE left \cup {wrk}
             /\ file' = IF ok THEN [file EXCEPT ![wrk] = <<>>] ELSE file
             /\ flock' = [flock EXCEPT ![wrk] = IF @ = "client" THEN "free" ELSE @]
             /\ onserver' = IF ok THEN on ELSE {}
             /\ staged' = IF ok THEN st ELSE {}
Go(k) == GoWith(k, onserver, staged)
Bail(k) == [k EXCEPT !.pc = "bail"]

(* A command is refused: by an error on the replica, or since the replica  *)
(* takes it for the rest of an UPLOAD that the client broke off.           *)
No == \/ garbled /\ UNCHANGED faults
      \/ ~garbled /\ faults.no < MaxNo /\ faults' = [faults EXCEPT !.no = @ + 1]
Refused(k) == /\ No /\ garbled' = FALSE /\ UNCHANGED rep
              /\ Go(Fail(k))

(* The replica obeys, or answers NO since it cannot.                       *)
Obeyed(k, can, new, then) == /\ ~garbled /\ UNCHANGED <<faults, garbled>>
                             /\ rep' = IF can THEN new ELSE rep
                             /\ Go(IF can THEN then ELSE Fail(k))
Command(k, can, new, then) == Refused(k) \/ Obeyed(k, can, new, then)
Local(then) == UNCHANGED <<rep, faults, garbled>> /\ Go(then)

-----------------------------------------------------------------------------
(* do_daemon_work and the head of do_sync.                                 *)
take_log ==
  /\ c.pc = "idle" /\ cur # NoInode
  /\ \A p \in Writers : w[p].pc = "lock" /\ w[p].fd = cur => w[p].tries <= MaxTries
  /\ wrk' = cur /\ cur' = NoInode
  /\ c' = [Rest EXCEPT !.pc = "lock"]
  /\ UNCHANGED <<mst, rep, w, left, file, flock, onserver, staged, garbled, ops, faults, bound>>

Named(lines, t) ==
  LET hits == {i \in DOMAIN lines : lines[i].t = t /\ \A j \in 1..i - 1 : lines[j] # lines[i]}
  IN [k \in 1..Cardinality(hits) |-> Sublist(lines, hits)[k].n]

(* The lines as lists: a USER line takes the place of all lines for the    *)
(* mailboxes of the user, a MAILBOX line of the APPEND for its mailbox.    *)
Optimised(lines) ==
  LET user == USER \in Range(lines)
      mbx == IF user THEN <<>> ELSE Named(lines, "MAILBOX")
      app == IF user THEN <<>>
             ELSE LET all == Named(lines, "APPEND")
                  IN Sublist(all, {i \in DOMAIN all : ~Contains(mbx, all[i])})
  IN [c EXCEPT !.user = user, !.mbx = mbx, !.app = app]

read_log ==
  /\ c.pc = "lock" /\ flock[wrk] = "free"
  /\ flock' = [flock EXCEPT ![wrk] = "client"]
  /\ c' = [c EXCEPT !.pc = "send_lock"]
  /\ UNCHANGED <<master, rep, wrk, left, file, onserver, staged, garbled, faults>>

send_lock ==
  /\ c.pc = "send_lock"
  /\ \/ Obeyed(c, TRUE, rep, Appends(Optimised(file[wrk])))
     \/ No /\ garbled' = FALSE /\ UNCHANGED rep /\ Go(Bail(c))

-----------------------------------------------------------------------------
(* Mutant: the message behind the replica's last UID is skipped.           *)
do_append_skip ==
  /\ c.pc = "append"
  /\ LET n == Head(c.app)
         new == {x \in mst[n].msgs : x.uid > rep[n].last + 1}
     IN IF mst[n] = None THEN Local(Fail(c))
        ELSE Command(c, rep[n].id = mst[n].id, rep,
                     IF new = {} THEN Appends([c EXCEPT !.app = Tail(@)])
                     ELSE [c EXCEPT !.pc = "upload_from", !.box = n, !.m = mst[n], !.need = new])

(* do_append.  The last record decides; record 0 of an empty mailbox lies  *)
(* in the header, and nothing is found to upload then.                     *)
do_append ==
  /\ c.pc = "append"
  /\ LET n == Head(c.app)
         new == {x \in mst[n].msgs : x.uid > rep[n].last}
     IN IF mst[n] = None THEN Local(Fail(c))
        ELSE Command(c, rep[n].id = mst[n].id, rep,
                     IF new = {} THEN Appends([c EXCEPT !.app = Tail(@)])
                     ELSE [c EXCEPT !.pc = "upload_from", !.box = n, !.m = mst[n], !.need = new])

(* UPLOAD.  A message that the client takes to be staged is sent as COPY,  *)
(* any other with the file that has its UID in the directory of the        *)
(* mailbox now.                                                            *)
File(x) == {y.body : y \in {z \in mst[c.box].msgs : z.uid = x.uid}}
Sends(batch) == {x \in batch : x.uuid \notin onserver}
Stage(s) == {[uuid |-> x.uuid, body |-> CHOOSE b \in File(x) : TRUE] : x \in s}

(* Where the command goes wrong: the client finds no file for a message    *)
(* and breaks off, the replica finds no staged message for a COPY.         *)
Missing(batch) == {x \in Sends(batch) : File(x) = {}}
Unknown(batch) == {x \in batch \ Sends(batch) : x.uuid \notin Uuids(staged)}
Ahead(s, t) == {x \in s : \A y \in t : x.uid < y.uid}
UpTo(s, t) == {x \in s : \A y \in t : x.uid <= y.uid}

(* Mutants: last_uid stays, the replica numbers the messages itself.       *)
sync_upload_commit_kept(b, batch, st) ==
  [b EXCEPT !.msgs = {y \in @ : y.uid \notin Uids(batch)} \cup
                       {[x EXCEPT !.body = (CHOOSE s \in st : s.uuid = x.uuid).body] : x \in batch}]
sync_upload_commit_renumbered(b, batch, st) ==
  [b EXCEPT !.msgs = @ \cup {[x EXCEPT !.uid = b.last + Cardinality({y \in batch : y.uid <= x.uid})] :
                                x \in batch},
            !.last = c.m.last]

(* sync_append_commit and sync_combine_commit: the records replace those   *)
(* of the same UID, and last_uid becomes that of the client.               *)
sync_upload_commit(b, batch, st) ==
  [b EXCEPT !.msgs = {y \in @ : y.uid \notin Uids(batch)} \cup
                       {[x EXCEPT !.body = (CHOOSE s \in st : s.uuid = x.uuid).body] : x \in batch},
            !.last = c.m.last]

(* A message is noted as staged before the replica has answered.  When the *)
(* directory itself is gone, chdir fails before anything is sent.          *)
UPLOAD(batch, then) ==
  LET gone == Missing(batch)
      bad == Unknown(UpTo(batch, gone))
      sent == Ahead(Sends(batch), gone)
      st == staged \cup Stage(Ahead(sent, bad))
      on == onserver \cup Uuids(UpTo(Sends(batch), gone))
  IN IF gone # {}
     THEN /\ UNCHANGED <<rep, faults>>
          /\ \/ garbled' = TRUE /\ GoWith(Fail(c), on, st)
             \/ mst[c.box] = None /\ UNCHANGED garbled /\ Go(Fail(c))
     ELSE IF bad # {}
     THEN garbled' = (sent # Ahead(sent, bad)) /\ UNCHANGED <<rep, faults>> /\ GoWith(Fail(c), on, st)
     ELSE \/ No /\ garbled' = FALSE /\ UNCHANGED rep /\ GoWith(Fail(c), on, st)
          \/ /\ rep' = [rep EXCEPT ![c.box] = sync_upload_commit(@, batch, st)]
             /\ UNCHANGED <<faults, garbled>>
             /\ GoWith(then, on, st)

upload_messages_from ==
  /\ c.pc = "upload_from"
  /\ UPLOAD(c.need, Appends([c EXCEPT !.app = Tail(@), !.need = {}, !.m = None, !.box = Inbox]))

-----------------------------------------------------------------------------
(* do_mailboxes_work and do_user_work: the replica's folders.              *)
Entry(n) == [name |-> n, id |-> rep[n].id, msgs |-> rep[n].msgs, last |-> rep[n].last,
             mark |-> FALSE]
Listing(names) == LET there == Sublist(names, {i \in DOMAIN names : rep[names[i]] # None})
                  IN [i \in 1..Len(there) |-> Entry(there[i])]
Ids(k) == [k EXCEPT !.pc = "ids", !.i = 1, !.vanished = FALSE, !.need = {}, !.r = FALSE]

do_mailboxes_work ==
  /\ c.pc = "mailboxes"
  /\ LET todo == Sublist(c.fl, Unmarked(c.fl))
     IN Command(c, TRUE, rep,
                Ids([c EXCEPT !.srv = Listing([i \in 1..Len(todo) |-> todo[i].name])]))

(* The INBOX decides: it is gone and RESET removes the account from the    *)
(* replica, or the replica has another one and starts over.                *)
do_user_work ==
  /\ c.pc = "user"
  /\ IF mst[Inbox] = None
     THEN Command(c, TRUE, [n \in Names |-> None], [c EXCEPT !.pc = "done"])
     ELSE Command(c, TRUE, rep,
                  IF rep[Inbox].id = mst[Inbox].id
                  THEN [c EXCEPT !.srv = Listing(Order), !.pc = "findall"]
                  ELSE [c EXCEPT !.srv = <<>>, !.pc = "reset"])

user_reset ==
  /\ c.pc = "reset"
  /\ Command(c, TRUE, [n \in Names |-> None], [c EXCEPT !.pc = "findall"])

do_user_main ==
  /\ c.pc = "findall"
  /\ LET there == Sublist(Order, {i \in DOMAIN Order : Order[i] = Inbox \/ mst[Order[i]] # None})
     IN Local(Ids([c EXCEPT !.fl = [i \in 1..Len(there) |-> Folder(there[i])]]))

(* reserve_messages: the uniqueid of each folder, read one after the other, *)
(* and the messages that the replica lacks in it but has elsewhere.        *)
Known(srv) == UNION {srv[i].msgs : i \in 1..Len(srv)}
Lacks(m, list) == {x \in m.msgs : ~\E y \in list : y.uid = x.uid /\ y.uuid = x.uuid}

reserve_messages ==
  /\ c.pc = "ids"
  /\ LET m == mst[c.fl[c.i].name]
         at == Lookup(c.srv, m.id)
         list == IF at = {} THEN {} ELSE c.srv[First(at)].msgs
     IN Local(IF m = None THEN [c EXCEPT !.fl[c.i].id = 0, !.i = @ + 1, !.vanished = TRUE]
              ELSE [c EXCEPT !.fl[c.i].id = m.id, !.i = @ + 1,
                             !.need = @ \cup (Uuids(Lacks(m, list)) \cap Uuids(Known(c.srv)))])

(* RESERVE; a refusal is ignored.                                          *)
reserve ==
  /\ c.pc = "reserve"
  /\ UNCHANGED rep
  /\ \/ No /\ garbled' = FALSE /\ Go(Tagged(c))
     \/ /\ ~garbled /\ UNCHANGED <<faults, garbled>>
        /\ GoWith(Tagged(c), onserver \cup c.need,
                  staged \cup {[uuid |-> u,
                                body |-> (CHOOSE y \in Known(c.srv) : y.uuid = u).body] :
                                 u \in {v \in c.need : v \notin Uuids(staged)}})

folder_delete ==
  /\ c.pc = "delete"
  /\ Command(c, rep[Head(c.dels)] # None, [rep EXCEPT ![Head(c.dels)] = None],
             [c EXCEPT !.dels = Tail(@)])

(* A rename waits until its new name is not the old name of another one.   *)
folder_rename ==
  /\ c.pc = "rename"
  /\ LET free == {e \in c.rens : ~\E f \in c.rens : f.old = e.new}
     IN IF free = {} THEN Local(Fail(c))
        ELSE \E e \in free :
               Command(c, rep[e.old] # None /\ rep[e.new] = None,
                       [rep EXCEPT ![e.old] = None, ![e.new] = rep[e.old]],
                       [c EXCEPT !.rens = @ \ {e}])

-----------------------------------------------------------------------------
(* do_mailbox_work on the client's snapshot c.m and the replica's list.    *)
NewFlags(k) == {x \in k.m.msgs : \E y \in k.list : y.uid = x.uid /\ y.fl # x.fl}
Expunged(k) == {y \in k.list : y.uid \notin Uids(k.m.msgs)}

Work(k) ==
  [k EXCEPT !.pc = CASE NewFlags(k) # {} -> "setflags"
                     [] Expunged(k) # {} -> "expunge"
                     [] Lacks(k.m, k.list) # {} -> "upload"
                     [] k.fresh \/ k.last # k.m.last -> "uidlast"
                     [] OTHER -> "next"]

(* The folder is done.                                                     *)
NextFolder(k) == [k EXCEPT !.pc = "folder", !.i = @ + 1, !.r = FALSE, !.m = None, !.list = {},
                           !.last = 0, !.fresh = FALSE, !.box = Inbox]
do_mailbox_work(k) ==
  LET v == Work(k) IN IF v.pc = "next" THEN NextFolder([v EXCEPT !.fl[v.i].mark = TRUE]) ELSE v

(* do_folders, the loop over the client's folders.                         *)
do_folders ==
  /\ c.pc = "folder"
  /\ LET f == c.fl[c.i]
         m == mst[f.name]
         at == Lookup(c.srv, f.id)
         s == First(at)
         k == [c EXCEPT !.m = m, !.box = f.name]
         v == [c EXCEPT !.vanished = TRUE, !.i = @ + 1]
     IN IF m = None
        THEN IF at # {} /\ c.srv[s].mark
             THEN Command(v, rep[c.srv[s].name] # None, [rep EXCEPT ![c.srv[s].name] = None],
                          [v EXCEPT !.srv[s].mark = FALSE, !.r = FALSE])
             ELSE Local([v EXCEPT !.r = TRUE])
        ELSE IF at = {} THEN Local([k EXCEPT !.pc = "create"])
        ELSE IF f.id # m.id
        THEN Command(c, rep[c.srv[s].name] # None, [rep EXCEPT ![c.srv[s].name] = None],
                     [k EXCEPT !.pc = "create"])
        ELSE Local(do_mailbox_work([k EXCEPT !.list = c.srv[s].msgs, !.last = c.srv[s].last]))

folder_create ==
  /\ c.pc = "create"
  /\ Command(c, rep[c.box] = None, [rep EXCEPT ![c.box] = [None EXCEPT !.id = c.m.id]],
             do_mailbox_work([c EXCEPT !.fresh = TRUE]))

(* SELECT comes before the first command for the mailbox.                  *)
folder_select == rep[c.box].id = c.m.id

update_flags ==
  /\ c.pc = "setflags"
  /\ LET new(y) == CHOOSE x \in c.m.msgs : x.uid = y.uid
         set(y) == IF y.uid \in Uids(NewFlags(c)) THEN [y EXCEPT !.fl = new(y).fl] ELSE y
     IN Command(c, folder_select, [rep EXCEPT ![c.box].msgs = {set(y) : y \in @}],
                do_mailbox_work([c EXCEPT !.list = {set(y) : y \in @}]))

expunge_replica ==
  /\ c.pc = "expunge"
  /\ Command(c, folder_select,
             [rep EXCEPT ![c.box].msgs = {y \in @ : y.uid \notin Uids(Expunged(c))}],
             do_mailbox_work([c EXCEPT !.list = @ \ Expunged(c)]))

(* Batches, in the order of the UIDs.                                      *)
upload_messages_list ==
  /\ c.pc = "upload"
  /\ LET lacks == Lacks(c.m, c.list)
         batch == {x \in lacks : Cardinality({y \in lacks : y.uid < x.uid}) < Batch}
         k == [c EXCEPT !.list = {y \in @ : y.uid \notin Uids(batch)} \cup batch]
     IN \/ (garbled \/ ~folder_select) /\ garbled' = FALSE /\ UNCHANGED <<rep, faults>> /\ Go(Fail(c))
        \/ /\ ~garbled /\ folder_select
           /\ UPLOAD(batch, IF batch = lacks THEN NextFolder([k EXCEPT !.fl[k.i].mark = TRUE]) ELSE k)

update_uidlast ==
  /\ c.pc = "uidlast"
  /\ Command(c, folder_select, [rep EXCEPT ![c.box].last = c.m.last],
             NextFolder([c EXCEPT !.fl[c.i].mark = TRUE]))

-----------------------------------------------------------------------------
(* sync_client is killed or loses its connection.                          *)
die ==
  /\ c.pc \notin {"idle", "dead"} /\ faults.die < MaxDie
  /\ faults' = [faults EXCEPT !.die = @ + 1]
  /\ garbled' = FALSE /\ UNCHANGED rep
  /\ Go(Bail(c))

(* An administrator runs sync_client over a file that was left behind, and *)
(* removes it when that succeeds, or starts the daemon again.              *)
redo ==
  /\ c.pc = "dead"
  /\ \E f \in left : /\ wrk' = f /\ left' = left \ {f}
                      /\ c' = [Rest EXCEPT !.pc = "lock", !.once = TRUE]
  /\ garbled' = FALSE
  /\ UNCHANGED <<master, rep, file, flock, onserver, staged, faults>>

restart ==
  /\ c.pc = "dead"
  /\ c' = Rest
  /\ garbled' = FALSE
  /\ UNCHANGED <<master, rep, wrk, left, file, flock, onserver, staged, faults>>

(* After the timeout both sides drop what is staged.                       *)
RESTART ==
  /\ c.pc = "idle" /\ onserver \cup Uuids(staged) # {}
  /\ onserver' = {} /\ staged' = {}
  /\ UNCHANGED <<master, rep, wrk, left, file, flock, c, garbled, faults>>

-----------------------------------------------------------------------------
(* The user has an INBOX and one folder with a message; the replica has    *)
(* them too, or it has nothing yet and the log names the user.             *)
First1 == Order[2]
Init ==
  /\ mst = [n \in Names |-> IF n = Inbox THEN [None EXCEPT !.id = 1]
                            ELSE IF n = First1 THEN [id |-> 2, msgs |-> {Msg(1, 99, FALSE)}, last |-> 1]
                            ELSE None]
  /\ \/ rep = mst /\ cur = NoInode
     \/ rep = [n \in Names |-> None] /\ cur = First(Inodes)
  /\ file = [i \in Inodes |-> IF i = cur THEN <<USER>> ELSE <<>>]
  /\ w = [p \in Writers |-> Ready]
  /\ wrk = NoInode /\ left = {} /\ flock = [i \in Inodes |-> "free"]
  /\ c = Rest /\ onserver = {} /\ staged = {} /\ garbled = FALSE
  /\ ops = 0 /\ faults = [no |-> 0, die |-> 0]
  /\ bound = {[id |-> 2, uid |-> 1, uuid |-> 99]}

Serve(p) == \/ \E n \in Names : append(p, n) \/ store(p, n) \/ expunge(p, n) \/ create(p, n)
                               \/ delete(p, n)
            \/ \E n, m \in Names : index_copy(p, n, m) \/ rename(p, n, m)
            \/ delete_user(p)
Log(p) == log_open(p) \/ log_lock(p) \/ log_write(p) \/ delmbox(p)
Client == \/ take_log \/ read_log \/ send_lock \/ do_append \/ upload_messages_from
          \/ do_mailboxes_work \/ do_user_work \/ user_reset \/ do_user_main
          \/ reserve_messages \/ reserve \/ folder_delete \/ folder_rename \/ do_folders
          \/ folder_create \/ update_flags \/ expunge_replica \/ upload_messages_list
          \/ update_uidlast
Next == (\E p \in Writers : Serve(p) \/ Log(p)) \/ Client \/ die \/ redo \/ restart \/ RESTART

Spec == Init /\ [][Next]_vars

(* A server process finishes its request, and sync_client polls.           *)
Fairness == WF_vars(Client) /\ \A p \in Writers : WF_vars(Log(p))
FairSpec == Spec /\ Fairness

-----------------------------------------------------------------------------
Lines == [t : {"MAILBOX", "APPEND", "USER"}, n : Names]

(* The types of the state; no UID lies above the last_uid of its mailbox;  *)
(* the file sync_client works on is never the log that is written to.      *)
TypeOK ==
  /\ \A n \in Names : \A b \in {mst[n], rep[n]} : b.last \in Nat /\ \A u \in Uids(b.msgs) : u <= b.last
  /\ cur \in Inodes \cup {NoInode} /\ wrk \in Inodes \cup {NoInode} /\ left \subseteq Inodes
  /\ wrk = NoInode => c.pc \in {"idle", "dead"}
  /\ cur # NoInode => cur \notin left \cup {wrk}
  /\ \A i \in Inodes : Range(file[i]) \subseteq Lines /\ flock[i] \in Writers \cup {"free", "client"}

(* The lines that are in a file that will be read or can be given to       *)
(* sync_client again, or that a server process is about to write.          *)
Pending ==
  UNION ({Range(file[i]) : i \in ({cur, wrk} \cup left) \ {NoInode}} \cup
         {UNION {Range(call) : call \in Range(w[p].out)} : p \in Writers} \cup
         {IF w[p].sub THEN {USER} ELSE {} : p \in Writers})

(* No change is lost: wherever the replica differs from the master some    *)
(* line still names the difference, and a mere APPEND line stands only for *)
(* what do_append can repair (messages behind the replica's last_uid).     *)
(* This is what sync_log_base's stat of the log, the promotion of failed   *)
(* actions in do_sync and the work file that a failure leaves are for.     *)
Covered ==
  \A n \in Names : rep[n] # mst[n] =>
    \/ USER \in Pending \/ MAILBOX(n) \in Pending
    \/ /\ APPEND(n) \in Pending /\ rep[n].id = mst[n].id
       /\ rep[n].msgs = {x \in mst[n].msgs : x.uid <= rep[n].last}

(* The replica never shows a message under a UID of a mailbox (its         *)
(* uniqueid) under which the master did not have that very message once,   *)
(* whatever was renamed, deleted or delivered while do_folders ran.        *)
NoForeignMail ==
  \A n \in Names : \A x \in rep[n].msgs :
    [id |-> rep[n].id, uid |-> x.uid, uuid |-> x.uuid] \in bound

(* man/sync_client.8: the transactions synchronise the replica with the    *)
(* master.  A message of the replica, then, has the contents that belong   *)
(* to its UUID.                                                            *)
RightBody == \A n \in Names : \A x \in rep[n].msgs : x.body = x.uuid

(* When the requests are over and no run of sync_client has failed (it     *)
(* leaves its work file, and nothing in the code takes that up again), the *)
(* replica becomes equal to the master and stays so.                       *)
Replicated == <>[](c.pc # "dead" /\ left = {}) => <>[](rep = mst)

(* man/sync_client.8 on -r: the client repeats until the shutdown file     *)
(* appears.  Without a fault, then, it never gives up.                     *)
KeepsRunning == faults = [no |-> 0, die |-> 0] => c.pc # "dead"
=============================================================================
