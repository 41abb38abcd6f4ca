--------------------------- MODULE MboxListProofs ---------------------------
(***************************************************************************)
(* Proofs about the mailbox list: the places are typed (TypeOK), and mail  *)
(* that nobody deleted stays in an active mailbox (NoLostMail), for any    *)
(* number of processes, names, requests and faults.                        *)
(***************************************************************************)
EXTENDS MboxList, FiniteSetTheorems, TLAPS

-----------------------------------------------------------------------------
(* The type invariant, strengthened: a request is at a step of its own     *)
(* handler, the transaction of DELETE and SETACL is open exactly in the    *)
(* steps between their BEGIN and their COMMIT, the entry it was opened for *)
(* is still there, and there is an inode left for every CREATE or RENAME   *)
(* that has not made its index file.                                       *)
CreatePcs == {"idle", "check", "reserve", "openhdr", "lockhdr", "mkindex", "store", "activate",
              "undo", "unreserve", "close"}
RenamePcs == {"idle", "check", "reserve", "lockold", "openhdr", "lockhdr", "mkindex", "link",
              "copy", "commit", "activate", "mdelete", "cleanup", "rm", "undo", "unreserve",
              "close"}
DeletePcs == {"idle", "lookup", "lockbox", "commit", "mdelete", "rm"}
SetaclPcs == {"idle", "lookup", "lockbox", "relook", "header", "commit", "activate", "close"}

Handler(j) == \/ j.op = "none" /\ j.pc = "idle"
              \/ j.op = "create" /\ j.pc \in CreatePcs
              \/ j.op = "rename" /\ j.pc \in RenamePcs
              \/ j.op = "delete" /\ j.pc \in DeletePcs
              \/ j.op = "setacl" /\ j.pc \in SetaclPcs

Jobs == [op : {"none", "create", "rename", "delete", "setacl"},
         pc : CreatePcs \cup RenamePcs \cup DeletePcs \cup SetaclPcs,
         n : Names, m : Names, acl : 0..MaxOps, r : Int, newopen : BOOLEAN, made : BOOLEAN]

JobsOK == job \in [Procs -> Jobs]
HandlersOK == \A p \in Procs : Handler(job[p]) /\ (job[p].op = "rename" <=> job[p].n # job[p].m)
ListsOK == db \in [Names -> Entries] /\ mup \in [Names -> Entries]
LocksOK == dblock \in Procs \cup {NoProc} /\ hlock \in [Names -> Procs \cup {NoProc}]
FilesOK == /\ hdr \in [Names -> Blank..MaxOps] /\ idx \in [Names -> {0} \cup Inodes]
           /\ mail \subseteq Inodes
CountersOK == /\ ino \in Nat /\ ops \in 0..MaxOps
              /\ faults \in [kill : Nat, lost : Nat, io : Nat]
              /\ Cardinality(Occupied) <= ino

InTransaction(j) == \/ j.op = "delete" /\ j.pc \in {"lockbox", "commit"}
                    \/ j.op = "setacl" /\ j.pc \in {"header", "commit"}
ListHeld == \A p \in Procs : dblock = p <=> InTransaction(job[p])
EntrySeen == \A p \in Procs : InTransaction(job[p]) =>
               /\ db[job[p].n] # Absent
               /\ job[p].op = "delete" => db[job[p].n].st = "active"

PreIndexPcs == {"check", "reserve", "lockold", "openhdr", "lockhdr", "mkindex"}
PreIndex == {p \in Procs : job[p].pc \in PreIndexPcs}
InodesLeft == /\ IsFiniteSet(PreIndex)
              /\ ino + Cardinality(PreIndex) <= Cardinality(Occupied) + ops

TypeInv == /\ JobsOK /\ HandlersOK /\ ListsOK /\ LocksOK /\ FilesOK /\ CountersOK
           /\ ListHeld /\ EntrySeen /\ InodesLeft

-----------------------------------------------------------------------------
(* What keeps mail: as long as no RENAME went on without its old mailbox   *)
(* or took away a reservation, and names with leftover files are not       *)
(* taken, a reservation has one owner until it is activated or taken back  *)
(* (Owned); it is made in an empty directory (Fresh); the files of the old *)
(* name, and of the new one from its index on, are locked (OldHeld,        *)
(* NewHeld, Removing); the new name has the index file of the old one      *)
(* before the entries change (Linked); and the old name belongs to nobody  *)
(* until its files are gone (Retired).                                     *)
OwnerPcs == {"reserve", "lockold", "openhdr", "lockhdr", "mkindex", "link", "copy", "store", "undo"}
Owner(j) == j.pc \in OwnerPcs \/ (j.op = "rename" /\ j.pc = "commit")
Owned == \A p \in Procs : Owner(job[p]) =>
           /\ db[target(job[p])].st = "reserved"
           /\ \A q \in Procs : Owner(job[q]) /\ target(job[q]) = target(job[p]) => q = p

Fills(j) == j.pc \in PreIndexPcs \ {"check"}
Fresh == \A p \in Procs : Fills(job[p]) => idx[target(job[p])] = 0

Held(p, n) == hlock[n] = p /\ hdr[n] # NoFile

HoldsOld(j) == \/ j.op = "rename" /\ j.pc \in {"openhdr", "lockhdr", "mkindex", "link", "copy",
                                               "commit", "activate", "mdelete", "cleanup"}
               \/ j.op = "delete" /\ j.pc \in {"commit", "mdelete"}
               \/ j.op = "setacl" /\ j.pc \in {"relook", "header"}
OldHeld == \A p \in Procs : HoldsOld(job[p]) => Held(p, job[p].n)

HoldsNew(j) == j.pc = "mkindex" \/ (j.op = "rename" /\ j.pc \in {"link", "copy", "commit"})
NewHeld == \A p \in Procs : HoldsNew(job[p]) => Held(p, target(job[p]))

Removes(j) == j.pc = "rm"
Removing == \A p \in Procs : Removes(job[p]) =>
              \/ hlock[job[p].n] = p
              \/ hlock[job[p].n] = NoProc /\ hdr[job[p].n] = NoFile

HasLink(j) == j.op = "rename" /\ j.pc \in {"copy", "commit"}
Linked == \A p \in Procs : HasLink(job[p]) => idx[target(job[p])] = idx[job[p].n]

Dropped(j) == \/ j.op = "rename" /\ j.pc \in {"activate", "mdelete", "cleanup", "rm"}
              \/ j.op = "delete" /\ j.pc \in {"mdelete", "rm"}
Retired == \A p \in Procs : Dropped(job[p]) =>
             /\ db[job[p].n].st # "active"
             /\ \A q \in Procs : Owner(job[q]) => target(job[q]) # job[p].n

Mailed == \A i \in 1..Cardinality(Occupied) \ dropped :
            i \in mail /\ \E n \in Names : db[n].st = "active" /\ idx[n] = i

Orderly == ~missed /\ ~stale
MailParts == /\ Owned /\ Fresh /\ OldHeld /\ NewHeld /\ Removing /\ Linked /\ Retired
             /\ Mailed
MailInv == Orderly => MailParts

-----------------------------------------------------------------------------
(* How a step changes what a process is doing: one job moves on, with the  *)
(* names of its request unchanged.                                         *)
Moves(p, l) == /\ \A q \in Procs \ {p} : job'[q] = job[q]
               /\ job'[p].pc = l /\ job'[p].op = job[p].op
               /\ job'[p].n = job[p].n /\ job'[p].m = job[p].m

Pcs == CreatePcs \cup RenamePcs \cup DeletePcs \cup SetaclPcs

(* Goto moves one job on.                                                  *)
LEMMA GotoMoves ==
  ASSUME JobsOK, NEW p \in Procs, NEW l \in Pcs, Goto(p, l)
  PROVE  JobsOK' /\ Moves(p, l)
BY DEF JobsOK, Jobs, Goto, Moves, Pcs

(* So does a step that also leaves an error code.                          *)
LEMMA FailMoves ==
  ASSUME JobsOK, NEW p \in Procs, NEW l \in Pcs, NEW r \in Int,
         job' = [job EXCEPT ![p].pc = l, ![p].r = r]
  PROVE  JobsOK' /\ Moves(p, l)
BY DEF JobsOK, Jobs, Moves, Pcs

(* An error of the system calls sends CREATE and RENAME to undo.           *)
LEMMA UndoMoves ==
  ASSUME JobsOK, NEW p \in Procs, job' = [job EXCEPT ![p].pc = "undo", ![p].r = -1]
  PROVE  JobsOK' /\ Moves(p, "undo")
<1>1. -1 \in Int /\ "undo" \in Pcs BY DEF Pcs, CreatePcs
<1> HIDE DEF Pcs
<1> QED BY <1>1, FailMoves

(* cmd_set at the MUPDATE master leaves a typed database, and answers.     *)
LEMMA CmdSetType ==
  ASSUME NEW d \in [Names -> Entries], NEW n \in Names, NEW acl \in 0..MaxOps,
         NEW t \in {"reserve", "activate", "delete"}
  PROVE  cmd_set(d, t, n, acl).d \in [Names -> Entries]
<1> 0 \in 0..MaxOps BY BoundAssumption
<1> MBTYPE_RESERVE(0) \in Entries /\ Active(acl) \in Entries /\ Absent \in Entries
  BY DEF Entries
<1>1. CASE t = "reserve" BY <1>1 DEF cmd_set
<1>2. CASE t = "activate" BY <1>2 DEF cmd_set
<1>3. CASE t = "delete" BY <1>3 DEF cmd_set
<1> QED BY <1>1, <1>2, <1>3

(* What the answers to one command, with or without the retry, have in     *)
(* common.                                                                 *)
AnswerOK(o) == o.d \in [Names -> Entries] /\ o.r \in Int

LEMMA SentType ==
  ASSUME NEW d \in [Names -> Entries], NEW n \in Names, NEW acl \in 0..MaxOps,
         NEW t \in {"reserve", "activate", "delete"}
  PROVE  /\ \A o \in Sent(d, t, n, acl) : AnswerOK(o)
         /\ \A o \in Sent(d, t, n, acl) : AnswerOK([o EXCEPT !.lost = TRUE])
         /\ \A o \in Lost(d, t, n, acl) : AnswerOK(o)
<1>1. MUPDATE_FAIL \in Int /\ MUPDATE_NOCONN \in Int
  BY DEF MUPDATE_FAIL, MUPDATE_NOCONN
<1>2. cmd_set(d, t, n, acl).d \in [Names -> Entries]
  BY CmdSetType
<1> QED BY <1>1, <1>2 DEF Sent, Lost, AnswerOK

LEMMA MupdateType ==
  ASSUME NEW d \in [Names -> Entries], NEW n \in Names, NEW acl \in 0..MaxOps,
         NEW t \in {"reserve", "activate", "delete"}
  PROVE  /\ \A o \in mupdate(d, t, n, acl) : AnswerOK(o)
         /\ \A o \in mupdate_retry(d, t, n, acl) : AnswerOK(o)
<1>1. \A o \in mupdate(d, t, n, acl) : AnswerOK(o)
  BY SentType DEF mupdate
<1>2. ASSUME NEW o \in mupdate_retry(d, t, n, acl)
      PROVE  AnswerOK(o)
  <2>1. PICK u \in mupdate(d, t, n, acl) :
          o \in IF u.r > 0 THEN {[s EXCEPT !.lost = TRUE] : s \in Sent(u.d, t, n, acl)} ELSE {u}
    BY <1>2 DEF mupdate_retry
  <2>2. AnswerOK(u) BY <1>1, <2>1
  <2>3. CASE o = u BY <2>2, <2>3
  <2>4. CASE o \in {[s EXCEPT !.lost = TRUE] : s \in Sent(u.d, t, n, acl)}
    <3>1. u.d \in [Names -> Entries] BY <2>2 DEF AnswerOK
    <3>2. PICK s \in Sent(u.d, t, n, acl) : o = [s EXCEPT !.lost = TRUE] BY <2>4
    <3> QED BY <3>1, <3>2, SentType
  <2> QED BY <2>1, <2>3, <2>4
<1> QED BY <1>1, <1>2

(* A fault adds to the number of its kind.                                 *)
LEMMA FaultType ==
  ASSUME faults \in [kill : Nat, lost : Nat, io : Nat], NEW k, Fault(k)
  PROVE  faults' \in [kill : Nat, lost : Nat, io : Nat]
BY KindAssumption DEF Fault

(* A step that waits for an answer of the MUPDATE master moves one job on. *)
LEMMA OutcomeMoves ==
  ASSUME TypeInv, NEW p \in Procs, NEW outcomes, NEW ok \in Pcs, NEW bad \in Pcs,
         \A o \in outcomes : AnswerOK(o),
         Outcome(p, outcomes, ok, bad)
  PROVE  /\ JobsOK' /\ (Moves(p, ok) \/ Moves(p, bad))
         /\ mup' \in [Names -> Entries]
         /\ faults' \in [kill : Nat, lost : Nat, io : Nat]
<1>1. PICK o \in outcomes :
        /\ mup' = o.d
        /\ IF o.lost THEN Fault("lost") ELSE UNCHANGED faults
        /\ job' = [job EXCEPT ![p].pc = IF o.r = 0 THEN ok ELSE bad, ![p].r = o.r]
  BY DEF Outcome
<1>2. AnswerOK(o) BY <1>1
<1>3. faults' \in [kill : Nat, lost : Nat, io : Nat]
  BY <1>1, FaultType DEF TypeInv, CountersOK
<1>4. JobsOK BY DEF TypeInv
<1>5. PICK l \in {ok, bad} : job' = [job EXCEPT ![p].pc = l, ![p].r = o.r]
  BY <1>1
<1>6. l \in Pcs /\ o.r \in Int BY <1>2, <1>5 DEF AnswerOK
<1>7. JobsOK' /\ Moves(p, l) BY <1>4, <1>5, <1>6, FailMoves
<1> QED BY <1>1, <1>2, <1>3, <1>5, <1>7 DEF AnswerOK

(* Counting the CREATEs and RENAMEs without an index file: one arrives     *)
(* with a request, and one leaves with every inode taken.                  *)
LEMMA InodesKept ==
  ASSUME TypeInv, JobsOK', NEW p \in Procs, NEW l, Moves(p, l),
         l \in PreIndexPcs => job[p].pc \in PreIndexPcs, ino' = ino, ops' = ops
  PROVE  InodesLeft'
<1>1. PreIndex' \subseteq PreIndex
  BY DEF Moves, PreIndex
<1>2. IsFiniteSet(PreIndex') /\ Cardinality(PreIndex') <= Cardinality(PreIndex)
  BY <1>1, FS_Subset DEF TypeInv, InodesLeft
<1>3. Cardinality(PreIndex) \in Nat /\ Cardinality(PreIndex') \in Nat
  BY <1>2, FS_CardinalityType DEF TypeInv, InodesLeft
<1>4. Cardinality(Occupied) \in Nat
  BY OccupiedAssumption, FS_CardinalityType
<1> QED BY <1>2, <1>3, <1>4 DEF TypeInv, InodesLeft, CountersOK

LEMMA InodeTaken ==
  ASSUME TypeInv, JobsOK', NEW p \in Procs, NEW l \in Pcs \ PreIndexPcs, Moves(p, l),
         job[p].pc = "mkindex", ino' \in {ino, ino + 1}, ops' = ops
  PROVE  InodesLeft' /\ ino' \in {0} \cup Inodes
<1>1. PreIndex' = PreIndex \ {p} /\ p \in PreIndex
  BY DEF Moves, PreIndex, PreIndexPcs
<1>2. IsFiniteSet(PreIndex') /\ Cardinality(PreIndex') = Cardinality(PreIndex) - 1
  BY <1>1, FS_RemoveElement DEF TypeInv, InodesLeft
<1>3. Cardinality(PreIndex) \in Nat /\ Cardinality(PreIndex') \in Nat
  BY <1>2, FS_CardinalityType DEF TypeInv, InodesLeft
<1>4. Cardinality(Occupied) \in Nat
  BY OccupiedAssumption, FS_CardinalityType
<1> QED BY <1>2, <1>3, <1>4, BoundAssumption DEF TypeInv, InodesLeft, CountersOK, Inodes

LEMMA RequestCounted ==
  ASSUME TypeInv, JobsOK', NEW p \in Procs, \A q \in Procs \ {p} : job'[q] = job[q],
         job[p].pc = "idle", ino' = ino, ops' = ops + 1
  PROVE  InodesLeft'
<1>1. PreIndex' \subseteq PreIndex \cup {p}
  BY DEF PreIndex
<1>2. IsFiniteSet(PreIndex \cup {p}) /\ Cardinality(PreIndex \cup {p}) <= Cardinality(PreIndex) + 1
  <2>1. p \notin PreIndex BY DEF PreIndex, PreIndexPcs
  <2>2. IsFiniteSet(PreIndex) BY DEF TypeInv, InodesLeft
  <2>3. Cardinality(PreIndex) \in Nat BY <2>2, FS_CardinalityType
  <2>4. /\ IsFiniteSet(PreIndex \cup {p})
        /\ p \notin PreIndex => Cardinality(PreIndex \cup {p}) = Cardinality(PreIndex) + 1
    BY <2>2, FS_AddElement
  <2> QED BY <2>1, <2>3, <2>4
<1>3. IsFiniteSet(PreIndex') /\ Cardinality(PreIndex') <= Cardinality(PreIndex \cup {p})
  BY <1>1, <1>2, FS_Subset
<1>4. /\ Cardinality(PreIndex) \in Nat /\ Cardinality(PreIndex') \in Nat
      /\ Cardinality(PreIndex \cup {p}) \in Nat
  BY <1>2, <1>3, FS_CardinalityType DEF TypeInv, InodesLeft
<1>5. Cardinality(Occupied) \in Nat
  BY OccupiedAssumption, FS_CardinalityType
<1> QED BY <1>2, <1>3, <1>4, <1>5 DEF TypeInv, InodesLeft, CountersOK

(* A step that leaves the transaction of the database and its entries      *)
(* alone, and moves one job between two steps of its handler, both outside *)
(* the transaction of that handler or both inside.                         *)
LEMMA Framed ==
  ASSUME TypeInv, JobsOK', NEW p \in Procs, NEW l \in Pcs, Moves(p, l), Handler(job[p])',
         UNCHANGED <<db, dblock, ops, ino>>,
         l \in PreIndexPcs => job[p].pc \in PreIndexPcs,
         InTransaction(job[p])' <=> InTransaction(job[p])
  PROVE  HandlersOK' /\ ListHeld' /\ EntrySeen' /\ InodesLeft'
<1>1. HandlersOK' BY DEF TypeInv, HandlersOK, Moves, Handler
<1>2. ListHeld' BY DEF TypeInv, ListHeld, Moves, InTransaction
<1>3. EntrySeen' BY DEF TypeInv, EntrySeen, Moves, InTransaction
<1>4. InodesLeft' BY InodesKept
<1> QED BY <1>1, <1>2, <1>3, <1>4

(* A step that changes entries of the database from outside a transaction: *)
(* it waits until nobody is in one.                                        *)
LEMMA FramedDb ==
  ASSUME TypeInv, JobsOK', NEW p \in Procs, NEW l \in Pcs, Moves(p, l), Handler(job[p])',
         UNCHANGED <<dblock, ops, ino>>, dblock = NoProc,
         l \in PreIndexPcs => job[p].pc \in PreIndexPcs,
         ~InTransaction(job[p])'
  PROVE  HandlersOK' /\ ListHeld' /\ EntrySeen' /\ InodesLeft'
<1>1. HandlersOK' BY DEF TypeInv, HandlersOK, Moves, Handler
<1>2. ListHeld' BY NoProcAssumption DEF TypeInv, ListHeld, Moves, InTransaction
<1>3. EntrySeen' BY <1>2, NoProcAssumption DEF TypeInv, EntrySeen, ListHeld
<1>4. InodesLeft' BY InodesKept
<1> QED BY <1>1, <1>2, <1>3, <1>4

(* Entries with an ACL in range are entries.                               *)
LEMMA EntryType ==
  /\ Absent \in Entries
  /\ \A a \in 0..MaxOps : MBTYPE_RESERVE(a) \in Entries /\ Active(a) \in Entries
  /\ \A e \in Entries : e.acl \in 0..MaxOps
  /\ \A e \in Entries, a \in 0..MaxOps : e # Absent => [e EXCEPT !.acl = a] \in Entries
<1> 0 \in 0..MaxOps BY BoundAssumption
<1>1. /\ Absent \in Entries
      /\ \A a \in 0..MaxOps : MBTYPE_RESERVE(a) \in Entries /\ Active(a) \in Entries
  BY DEF Entries
<1>2. ASSUME NEW e \in Entries
      PROVE  /\ e.acl \in 0..MaxOps
             /\ \A a \in 0..MaxOps : e # Absent => [e EXCEPT !.acl = a] \in Entries
  <2>1. CASE e = Absent BY <2>1 DEF Absent
  <2>2. CASE \E b \in 0..MaxOps : e = MBTYPE_RESERVE(b)
    <3>1. PICK b \in 0..MaxOps : e = MBTYPE_RESERVE(b) BY <2>2
    <3>2. \A a \in 0..MaxOps : [e EXCEPT !.acl = a] = MBTYPE_RESERVE(a)
      BY <3>1 DEF MBTYPE_RESERVE
    <3> QED BY <3>1, <3>2, <1>1 DEF MBTYPE_RESERVE
  <2>3. CASE \E b \in 0..MaxOps : e = Active(b)
    <3>1. PICK b \in 0..MaxOps : e = Active(b) BY <2>3
    <3>2. \A a \in 0..MaxOps : [e EXCEPT !.acl = a] = Active(a) BY <3>1 DEF Active
    <3> QED BY <3>1, <3>2, <1>1 DEF Active
  <2> QED BY <2>1, <2>2, <2>3 DEF Entries
<1> QED BY <1>1, <1>2

(* The initial state is typed.                                             *)
LEMMA TypeInit == Init => TypeInv
<1> SUFFICES ASSUME Init PROVE TypeInv
  OBVIOUS
<1> USE DEF Init
<1>1. Cardinality(Occupied) \in Nat
  BY OccupiedAssumption, FS_CardinalityType
<1>2. 0 \in 0..MaxOps BY BoundAssumption
<1>3. (CHOOSE n \in Names : TRUE) \in Names BY NamesAssumption
<1>4. JobsOK BY <1>2, <1>3 DEF JobsOK, Jobs, IdleJob, CreatePcs
<1>5. HandlersOK BY <1>3 DEF HandlersOK, Handler, IdleJob
<1>6. ListsOK BY <1>2, EntryType DEF ListsOK
<1>7. LocksOK BY DEF LocksOK
<1>8. FilesOK BY <1>1, BoundAssumption DEF FilesOK, Inodes, NoFile, Blank
<1>9. CountersOK BY <1>1, <1>2 DEF CountersOK
<1>10. ListHeld BY NoProcAssumption DEF ListHeld, InTransaction, IdleJob
<1>11. EntrySeen BY DEF EntrySeen, InTransaction, IdleJob
<1>12. InodesLeft
  <2>1. PreIndex = {} BY DEF PreIndex, PreIndexPcs, IdleJob
  <2> QED BY <2>1, <1>1, FS_EmptySet DEF InodesLeft
<1> QED BY <1>4, <1>5, <1>6, <1>7, <1>8, <1>9, <1>10, <1>11, <1>12 DEF TypeInv

(* The steps of the handlers, one by one: each is a move of one job.       *)
LEMMA CheckType ==
  ASSUME TypeInv, NEW p \in Procs, mycreatemailboxcheck(p)
  PROVE  TypeInv'
<1> USE DEF mycreatemailboxcheck, files, history
<1> DEFINE j == job[p]
           acl == IF j.op = "rename" THEN db[j.n].acl ELSE 0
<1>0. job[p] \in Jobs /\ JobsOK /\ job[p].pc = "check" /\ dblock = NoProc
  BY DEF TypeInv, JobsOK, At
<1>1. acl \in 0..MaxOps /\ target(j) \in Names
  BY <1>0, EntryType, BoundAssumption DEF TypeInv, ListsOK, Jobs, target
<1>2. PICK l \in {"idle", "reserve"} : JobsOK' /\ Moves(p, l)
  <2>1. CASE Refused(j)
    BY <2>1, <1>0, GotoMoves DEF Pcs, CreatePcs
  <2>2. CASE ~Refused(j)
    <3>1. job' = [job EXCEPT ![p].pc = "reserve", ![p].acl = acl] BY <2>2
    <3> QED BY <3>1, <1>0, <1>1 DEF JobsOK, Jobs, Moves, CreatePcs
  <2> QED BY <2>1, <2>2
<1>3. db' \in [Names -> Entries]
  BY <1>1, EntryType DEF TypeInv, ListsOK
<1>4. Handler(job[p])' /\ ~InTransaction(job[p])'
  BY <1>0, <1>2 DEF TypeInv, HandlersOK, Handler, Moves, CreatePcs, RenamePcs, DeletePcs,
                    SetaclPcs, InTransaction
<1>5. HandlersOK' /\ ListHeld' /\ EntrySeen' /\ InodesLeft'
  BY <1>0, <1>2, <1>4, FramedDb DEF Pcs, CreatePcs, PreIndexPcs
<1>6. ListsOK' /\ LocksOK' /\ FilesOK' /\ CountersOK'
  BY <1>3 DEF TypeInv, ListsOK, LocksOK, FilesOK, CountersOK
<1> QED BY <1>2, <1>5, <1>6 DEF TypeInv

LEMMA ReserveType ==
  ASSUME TypeInv, NEW p \in Procs, mupdate_reserve(p)
  PROVE  TypeInv'
<1> USE DEF mupdate_reserve, lists, files, history
<1>0. job[p] \in Jobs /\ JobsOK /\ Handler(job[p]) BY DEF TypeInv, JobsOK, HandlersOK
<1>t. target(job[p]) \in Names /\ job[p].n \in Names /\ job[p].m \in Names
  BY <1>0 DEF Jobs, target
<1>u. PICK o \in mupdate(mup, "reserve", target(job[p]), 0) :
        /\ mup' = o.d
        /\ IF o.lost THEN Fault("lost") ELSE UNCHANGED faults
        /\ job' = [job EXCEPT ![p].r = o.r, ![p].made = (o.r = 0),
                     ![p].pc = IF o.r # 0 THEN "undo"
                               ELSE IF job[p].op = "rename" THEN "lockold" ELSE "openhdr"]
  OBVIOUS
<1>v. AnswerOK(o) BY <1>t, MupdateType, BoundAssumption DEF TypeInv, ListsOK
<1>1. PICK l \in {"undo", "lockold", "openhdr"} :
        JobsOK' /\ Moves(p, l) /\ (l = "lockold" => job[p].op = "rename")
  <2>1. PICK l \in {"undo", "lockold", "openhdr"} :
          /\ job' = [job EXCEPT ![p].r = o.r, ![p].made = (o.r = 0), ![p].pc = l]
          /\ l = "lockold" => job[p].op = "rename"
    BY <1>u
  <2> QED BY <2>1, <1>0, <1>v DEF JobsOK, Jobs, Moves, AnswerOK, CreatePcs, RenamePcs
<1>2. Handler(job[p])' /\ (InTransaction(job[p])' <=> InTransaction(job[p]))
  BY <1>0, <1>1 DEF At, Handler, Moves, InTransaction, CreatePcs, RenamePcs, DeletePcs, SetaclPcs
<1>3. HandlersOK' /\ ListHeld' /\ EntrySeen' /\ InodesLeft'
  BY <1>0, <1>1, <1>2, Framed DEF At, Handler, Pcs, CreatePcs, RenamePcs, DeletePcs, SetaclPcs,
     PreIndexPcs
<1>x. faults' \in [kill : Nat, lost : Nat, io : Nat]
  BY <1>u, FaultType DEF TypeInv, CountersOK
<1>4. ListsOK' /\ LocksOK' /\ FilesOK' /\ CountersOK'
  BY <1>u, <1>v, <1>x DEF TypeInv, ListsOK, LocksOK, FilesOK, CountersOK, AnswerOK
<1> QED BY <1>1, <1>3, <1>4 DEF TypeInv

LEMMA LockoldType ==
  ASSUME TypeInv, NEW p \in Procs, lockold(p)
  PROVE  TypeInv'
<1> USE DEF lockold, lists, files, history
<1>0. job[p] \in Jobs /\ JobsOK /\ Handler(job[p]) BY DEF TypeInv, JobsOK, HandlersOK
<1>t. target(job[p]) \in Names /\ job[p].n \in Names /\ job[p].m \in Names
  BY <1>0 DEF Jobs, target
<1>1. PICK l \in {"openhdr", "commit"} : JobsOK' /\ Moves(p, l)
  BY <1>0, GotoMoves, UndoMoves DEF Pcs, CreatePcs, RenamePcs, DeletePcs, SetaclPcs, JobsOK, At
<1>2. Handler(job[p])' /\ (InTransaction(job[p])' <=> InTransaction(job[p]))
  BY <1>0, <1>1 DEF At, Handler, Moves, InTransaction, CreatePcs, RenamePcs, DeletePcs, SetaclPcs
<1>3. HandlersOK' /\ ListHeld' /\ EntrySeen' /\ InodesLeft'
  BY <1>0, <1>1, <1>2, Framed DEF At, Handler, Pcs, CreatePcs, RenamePcs, DeletePcs, SetaclPcs,
     PreIndexPcs
<1>4. ListsOK' /\ LocksOK' /\ FilesOK' /\ CountersOK'
  BY <1>t DEF TypeInv, ListsOK, LocksOK, FilesOK, CountersOK
<1> QED BY <1>1, <1>3, <1>4 DEF TypeInv

LEMMA OpenhdrType ==
  ASSUME TypeInv, NEW p \in Procs, openhdr(p)
  PROVE  TypeInv'
<1> USE DEF openhdr, lists, files, history
<1>0. job[p] \in Jobs /\ JobsOK /\ Handler(job[p]) BY DEF TypeInv, JobsOK, HandlersOK
<1>t. target(job[p]) \in Names /\ job[p].n \in Names /\ job[p].m \in Names
  BY <1>0 DEF Jobs, target
<1>1. PICK l \in {"lockhdr"} : JobsOK' /\ Moves(p, l)
  BY <1>0, GotoMoves, UndoMoves DEF Pcs, CreatePcs, RenamePcs, DeletePcs, SetaclPcs, JobsOK, At
<1>2. Handler(job[p])' /\ (InTransaction(job[p])' <=> InTransaction(job[p]))
  BY <1>0, <1>1 DEF At, Handler, Moves, InTransaction, CreatePcs, RenamePcs, DeletePcs, SetaclPcs
<1>3. HandlersOK' /\ ListHeld' /\ EntrySeen' /\ InodesLeft'
  BY <1>0, <1>1, <1>2, Framed DEF At, Handler, Pcs, CreatePcs, RenamePcs, DeletePcs, SetaclPcs,
     PreIndexPcs
<1>4. ListsOK' /\ LocksOK' /\ FilesOK' /\ CountersOK'
  BY <1>t, BoundAssumption DEF TypeInv, ListsOK, LocksOK, FilesOK, CountersOK, Blank
<1> QED BY <1>1, <1>3, <1>4 DEF TypeInv

LEMMA LockhdrType ==
  ASSUME TypeInv, NEW p \in Procs, lockhdr(p)
  PROVE  TypeInv'
<1> USE DEF lockhdr, lists, files, history
<1>0. job[p] \in Jobs /\ JobsOK /\ Handler(job[p]) BY DEF TypeInv, JobsOK, HandlersOK
<1>t. target(job[p]) \in Names /\ job[p].n \in Names /\ job[p].m \in Names
  BY <1>0 DEF Jobs, target
<1>1. PICK l \in {"mkindex", "undo"} : JobsOK' /\ Moves(p, l)
  BY <1>0, GotoMoves, UndoMoves DEF Pcs, CreatePcs, RenamePcs, DeletePcs, SetaclPcs, JobsOK, At
<1>2. Handler(job[p])' /\ (InTransaction(job[p])' <=> InTransaction(job[p]))
  BY <1>0, <1>1 DEF At, Handler, Moves, InTransaction, CreatePcs, RenamePcs, DeletePcs, SetaclPcs
<1>3. HandlersOK' /\ ListHeld' /\ EntrySeen' /\ InodesLeft'
  BY <1>0, <1>1, <1>2, Framed DEF At, Handler, Pcs, CreatePcs, RenamePcs, DeletePcs, SetaclPcs,
     PreIndexPcs
<1>4. ListsOK' /\ LocksOK' /\ FilesOK' /\ CountersOK'
  BY <1>t DEF TypeInv, ListsOK, LocksOK, FilesOK, CountersOK
<1> QED BY <1>1, <1>3, <1>4 DEF TypeInv

LEMMA LinkType ==
  ASSUME TypeInv, NEW p \in Procs, link(p)
  PROVE  TypeInv'
<1> USE DEF link, lists, files, history
<1>0. job[p] \in Jobs /\ JobsOK /\ Handler(job[p]) BY DEF TypeInv, JobsOK, HandlersOK
<1>t. target(job[p]) \in Names /\ job[p].n \in Names /\ job[p].m \in Names
  BY <1>0 DEF Jobs, target
<1>1. PICK l \in {"copy", "undo"} : JobsOK' /\ Moves(p, l)
  BY <1>0, GotoMoves, UndoMoves DEF Pcs, CreatePcs, RenamePcs, DeletePcs, SetaclPcs, JobsOK, At
<1>2. Handler(job[p])' /\ (InTransaction(job[p])' <=> InTransaction(job[p]))
  BY <1>0, <1>1 DEF At, Handler, Moves, InTransaction, CreatePcs, RenamePcs, DeletePcs, SetaclPcs
<1>3. HandlersOK' /\ ListHeld' /\ EntrySeen' /\ InodesLeft'
  BY <1>0, <1>1, <1>2, Framed DEF At, Handler, Pcs, CreatePcs, RenamePcs, DeletePcs, SetaclPcs,
     PreIndexPcs
<1>x. faults' \in [kill : Nat, lost : Nat, io : Nat]
  BY FaultType DEF TypeInv, CountersOK
<1>4. ListsOK' /\ LocksOK' /\ FilesOK' /\ CountersOK'
  BY <1>t, <1>x DEF TypeInv, ListsOK, LocksOK, FilesOK, CountersOK, Unlocked
<1> QED BY <1>1, <1>3, <1>4 DEF TypeInv

LEMMA CopyType ==
  ASSUME TypeInv, NEW p \in Procs, copy(p)
  PROVE  TypeInv'
<1> USE DEF copy, lists, files, history
<1>0. job[p] \in Jobs /\ JobsOK /\ Handler(job[p]) BY DEF TypeInv, JobsOK, HandlersOK
<1>1. PICK l \in {"commit", "undo"} : JobsOK' /\ Moves(p, l)
  <2>1. CASE job' = [job EXCEPT ![p].pc = "commit", ![p].newopen = TRUE]
    BY <2>1, <1>0 DEF JobsOK, Jobs, Moves, RenamePcs
  <2>2. CASE job' = [job EXCEPT ![p].pc = "undo", ![p].r = -1]
    BY <2>2, <1>0, UndoMoves
  <2> QED BY <2>1, <2>2
<1>2. Handler(job[p])' /\ (InTransaction(job[p])' <=> InTransaction(job[p]))
  BY <1>0, <1>1 DEF At, Handler, Moves, InTransaction, CreatePcs, RenamePcs, DeletePcs, SetaclPcs
<1>3. HandlersOK' /\ ListHeld' /\ EntrySeen' /\ InodesLeft'
  BY <1>0, <1>1, <1>2, Framed DEF At, Handler, Pcs, CreatePcs, RenamePcs, DeletePcs, SetaclPcs,
     PreIndexPcs
<1>x. faults' \in [kill : Nat, lost : Nat, io : Nat]
  BY FaultType DEF TypeInv, CountersOK
<1>4. ListsOK' /\ LocksOK' /\ FilesOK' /\ CountersOK'
  BY <1>x DEF TypeInv, ListsOK, LocksOK, FilesOK, CountersOK
<1> QED BY <1>1, <1>3, <1>4 DEF TypeInv

LEMMA ActivateType ==
  ASSUME TypeInv, NEW p \in Procs, mupdate_activate(p)
  PROVE  TypeInv'
<1> USE DEF mupdate_activate, lists, files, history
<1>0. job[p] \in Jobs /\ JobsOK /\ Handler(job[p]) BY DEF TypeInv, JobsOK, HandlersOK
<1>t. target(job[p]) \in Names /\ job[p].n \in Names /\ job[p].m \in Names
  BY <1>0 DEF Jobs, target
<1>1. /\ JobsOK' /\ (\E l \in {"idle", "mdelete", "close"} :
                       Moves(p, l) /\ (l = "mdelete" => job[p].op = "rename")
                                  /\ (l = "idle" => job[p].op = "create"))
      /\ mup' \in [Names -> Entries] /\ faults' \in [kill : Nat, lost : Nat, io : Nat]
  <2>1. job[p].op \in {"create", "rename", "setacl"}
    BY <1>0 DEF At, Handler, CreatePcs, RenamePcs, DeletePcs, SetaclPcs
  <2>2. \A n \in {job[p].n, job[p].m} :
          /\ \A o \in mupdate(mup, "activate", n, job[p].acl) : AnswerOK(o)
          /\ \A o \in mupdate_retry(mup, "activate", n, job[p].acl) : AnswerOK(o)
    BY <1>0, <1>t, MupdateType DEF TypeInv, ListsOK, Jobs
  <2>3. CASE job[p].op = "create"
    BY <2>2, <2>3, OutcomeMoves DEF Pcs, CreatePcs
  <2>4. CASE job[p].op = "rename"
    BY <2>2, <2>4, OutcomeMoves DEF Pcs, RenamePcs
  <2>5. CASE job[p].op = "setacl"
    BY <2>2, <2>5, OutcomeMoves DEF Pcs, SetaclPcs
  <2> QED BY <2>1, <2>3, <2>4, <2>5
<1>2. Handler(job[p])' /\ (InTransaction(job[p])' <=> InTransaction(job[p]))
  BY <1>0, <1>1 DEF At, Handler, Moves, InTransaction, CreatePcs, RenamePcs, DeletePcs, SetaclPcs
<1>3. HandlersOK' /\ ListHeld' /\ EntrySeen' /\ InodesLeft'
  BY <1>0, <1>1, <1>2, Framed DEF At, Handler, Pcs, CreatePcs, RenamePcs, DeletePcs, SetaclPcs,
     PreIndexPcs
<1>4. ListsOK' /\ LocksOK' /\ FilesOK' /\ CountersOK'
  BY <1>1 DEF TypeInv, ListsOK, LocksOK, FilesOK, CountersOK
<1> QED BY <1>1, <1>3, <1>4 DEF TypeInv

LEMMA MdeleteType ==
  ASSUME TypeInv, NEW p \in Procs, mupdate_delete(p)
  PROVE  TypeInv'
<1> USE DEF mupdate_delete, lists, files, history
<1>0. job[p] \in Jobs /\ JobsOK /\ Handler(job[p]) BY DEF TypeInv, JobsOK, HandlersOK
<1>t. target(job[p]) \in Names /\ job[p].n \in Names /\ job[p].m \in Names
  BY <1>0 DEF Jobs, target
<1>1. /\ JobsOK' /\ (\E l \in {"cleanup", "close", "rm", "idle"} :
                       Moves(p, l) /\ (l \in {"cleanup", "close"} => job[p].op = "rename"))
      /\ mup' \in [Names -> Entries] /\ faults' \in [kill : Nat, lost : Nat, io : Nat]
  <2>2. /\ \A o \in mupdate(mup, "delete", job[p].n, 0) : AnswerOK(o)
        /\ \A o \in mupdate_retry(mup, "delete", job[p].n, 0) : AnswerOK(o)
    BY <1>t, MupdateType, BoundAssumption DEF TypeInv, ListsOK
  <2>3. CASE job[p].op = "rename"
    BY <2>2, <2>3, OutcomeMoves DEF Pcs, RenamePcs
  <2>4. CASE job[p].op # "rename"
    BY <2>2, <2>4, OutcomeMoves DEF Pcs, DeletePcs
  <2> QED BY <2>3, <2>4
<1>2. Handler(job[p])' /\ (InTransaction(job[p])' <=> InTransaction(job[p]))
  BY <1>0, <1>1 DEF At, Handler, Moves, InTransaction, CreatePcs, RenamePcs, DeletePcs, SetaclPcs
<1>3. HandlersOK' /\ ListHeld' /\ EntrySeen' /\ InodesLeft'
  BY <1>0, <1>1, <1>2, Framed DEF At, Handler, Pcs, CreatePcs, RenamePcs, DeletePcs, SetaclPcs,
     PreIndexPcs
<1>4. ListsOK' /\ LocksOK' /\ FilesOK' /\ CountersOK'
  BY <1>1 DEF TypeInv, ListsOK, LocksOK, FilesOK, CountersOK
<1> QED BY <1>1, <1>3, <1>4 DEF TypeInv

LEMMA UnreserveType ==
  ASSUME TypeInv, NEW p \in Procs, unreserve(p)
  PROVE  TypeInv'
<1> USE DEF unreserve, lists, files, history
<1>0. job[p] \in Jobs /\ JobsOK /\ Handler(job[p]) BY DEF TypeInv, JobsOK, HandlersOK
<1>t. target(job[p]) \in Names /\ job[p].n \in Names /\ job[p].m \in Names
  BY <1>0 DEF Jobs, target
<1>1. /\ JobsOK' /\ Moves(p, "close")
      /\ mup' \in [Names -> Entries] /\ faults' \in [kill : Nat, lost : Nat, io : Nat]
  <2>2. \A o \in mupdate_retry(mup, "delete", target(job[p]), 0) : AnswerOK(o)
    BY <1>t, MupdateType, BoundAssumption DEF TypeInv, ListsOK
  <2> QED BY <2>2, OutcomeMoves DEF Pcs, CreatePcs
<1>2. Handler(job[p])' /\ (InTransaction(job[p])' <=> InTransaction(job[p]))
  BY <1>0, <1>1 DEF At, Handler, Moves, InTransaction, CreatePcs, RenamePcs, DeletePcs, SetaclPcs
<1>3. HandlersOK' /\ ListHeld' /\ EntrySeen' /\ InodesLeft'
  BY <1>0, <1>1, <1>2, Framed DEF At, Handler, Pcs, CreatePcs, RenamePcs, DeletePcs, SetaclPcs,
     PreIndexPcs
<1>4. ListsOK' /\ LocksOK' /\ FilesOK' /\ CountersOK'
  BY <1>1 DEF TypeInv, ListsOK, LocksOK, FilesOK, CountersOK
<1> QED BY <1>1, <1>3, <1>4 DEF TypeInv

LEMMA CleanupType ==
  ASSUME TypeInv, NEW p \in Procs, rename_cleanup(p)
  PROVE  TypeInv'
<1> USE DEF rename_cleanup, lists, files, history
<1>0. job[p] \in Jobs /\ JobsOK /\ Handler(job[p]) BY DEF TypeInv, JobsOK, HandlersOK
<1>t. target(job[p]) \in Names /\ job[p].n \in Names /\ job[p].m \in Names
  BY <1>0 DEF Jobs, target
<1>1. PICK l \in {"rm", "idle"} : JobsOK' /\ Moves(p, l)
  BY <1>0, GotoMoves, UndoMoves DEF Pcs, CreatePcs, RenamePcs, DeletePcs, SetaclPcs, JobsOK, At
<1>2. Handler(job[p])' /\ (InTransaction(job[p])' <=> InTransaction(job[p]))
  BY <1>0, <1>1 DEF At, Handler, Moves, InTransaction, CreatePcs, RenamePcs, DeletePcs, SetaclPcs
<1>3. HandlersOK' /\ ListHeld' /\ EntrySeen' /\ InodesLeft'
  BY <1>0, <1>1, <1>2, Framed DEF At, Handler, Pcs, CreatePcs, RenamePcs, DeletePcs, SetaclPcs,
     PreIndexPcs
<1>4. ListsOK' /\ LocksOK' /\ FilesOK' /\ CountersOK'
  BY <1>t DEF TypeInv, ListsOK, LocksOK, FilesOK, CountersOK, Unlocked
<1> QED BY <1>1, <1>3, <1>4 DEF TypeInv

LEMMA RmType ==
  ASSUME TypeInv, NEW p \in Procs, mailbox_delete(p)
  PROVE  TypeInv'
<1> USE DEF mailbox_delete, lists, files, history
<1>0. job[p] \in Jobs /\ JobsOK /\ Handler(job[p]) BY DEF TypeInv, JobsOK, HandlersOK
<1>t. target(job[p]) \in Names /\ job[p].n \in Names /\ job[p].m \in Names
  BY <1>0 DEF Jobs, target
<1>1. PICK l \in {"rm", "idle"} : JobsOK' /\ Moves(p, l)
  BY <1>0, GotoMoves DEF Pcs, CreatePcs, RenamePcs, JobsOK, At, Moves
<1>2. Handler(job[p])' /\ (InTransaction(job[p])' <=> InTransaction(job[p]))
  BY <1>0, <1>1 DEF At, Handler, Moves, InTransaction, CreatePcs, RenamePcs, DeletePcs, SetaclPcs
<1>3. HandlersOK' /\ ListHeld' /\ EntrySeen' /\ InodesLeft'
  BY <1>0, <1>1, <1>2, Framed DEF At, Handler, Pcs, CreatePcs, RenamePcs, DeletePcs, SetaclPcs,
     PreIndexPcs
<1>4. ListsOK' /\ LocksOK' /\ FilesOK' /\ CountersOK'
  BY <1>t, BoundAssumption DEF TypeInv, ListsOK, LocksOK, FilesOK, CountersOK, NoFile, Blank
<1> QED BY <1>1, <1>3, <1>4 DEF TypeInv

LEMMA CloseType ==
  ASSUME TypeInv, NEW p \in Procs, close(p)
  PROVE  TypeInv'
<1> USE DEF close, lists, files, history
<1>0. job[p] \in Jobs /\ JobsOK /\ Handler(job[p]) BY DEF TypeInv, JobsOK, HandlersOK
<1>1. PICK l \in {"idle"} : JobsOK' /\ Moves(p, l)
  BY <1>0, GotoMoves, UndoMoves DEF Pcs, CreatePcs, RenamePcs, DeletePcs, SetaclPcs, JobsOK, At
<1>2. Handler(job[p])' /\ (InTransaction(job[p])' <=> InTransaction(job[p]))
  BY <1>0, <1>1 DEF At, Handler, Moves, InTransaction, CreatePcs, RenamePcs, DeletePcs, SetaclPcs
<1>3. HandlersOK' /\ ListHeld' /\ EntrySeen' /\ InodesLeft'
  BY <1>0, <1>1, <1>2, Framed DEF At, Handler, Pcs, CreatePcs, RenamePcs, DeletePcs, SetaclPcs,
     PreIndexPcs
<1>4. ListsOK' /\ LocksOK' /\ FilesOK' /\ CountersOK'
  BY DEF TypeInv, ListsOK, LocksOK, FilesOK, CountersOK
<1> QED BY <1>1, <1>3, <1>4 DEF TypeInv

LEMMA HeaderType ==
  ASSUME TypeInv, NEW p \in Procs, write_header(p)
  PROVE  TypeInv'
<1> USE DEF write_header, lists, files, history
<1>0. job[p] \in Jobs /\ JobsOK /\ Handler(job[p]) BY DEF TypeInv, JobsOK, HandlersOK
<1>t. target(job[p]) \in Names /\ job[p].n \in Names /\ job[p].m \in Names
  BY <1>0 DEF Jobs, target
<1>1. PICK l \in {"commit"} : JobsOK' /\ Moves(p, l)
  BY <1>0, GotoMoves, UndoMoves DEF Pcs, CreatePcs, RenamePcs, DeletePcs, SetaclPcs, JobsOK, At
<1>2. Handler(job[p])' /\ (InTransaction(job[p])' <=> InTransaction(job[p]))
  BY <1>0, <1>1 DEF At, Handler, Moves, InTransaction, CreatePcs, RenamePcs, DeletePcs, SetaclPcs
<1>3. HandlersOK' /\ ListHeld' /\ EntrySeen' /\ InodesLeft'
  BY <1>0, <1>1, <1>2, Framed DEF At, Handler, Pcs, CreatePcs, RenamePcs, DeletePcs, SetaclPcs,
     PreIndexPcs
<1>4. ListsOK' /\ LocksOK' /\ FilesOK' /\ CountersOK'
  BY <1>0, <1>t DEF TypeInv, ListsOK, LocksOK, FilesOK, CountersOK, Jobs, Blank
<1> QED BY <1>1, <1>3, <1>4 DEF TypeInv


LEMMA MkindexType ==
  ASSUME TypeInv, NEW p \in Procs, mkindex(p)
  PROVE  TypeInv'
<1> USE DEF mkindex, lists, files, history
<1>0. job[p] \in Jobs /\ JobsOK /\ Handler(job[p]) BY DEF TypeInv, JobsOK, HandlersOK
<1>t. target(job[p]) \in Names /\ job[p].n \in Names /\ job[p].m \in Names
  BY <1>0 DEF Jobs, target
<1>1. PICK l \in {"link", "store", "undo"} :
        /\ JobsOK' /\ Moves(p, l)
        /\ (l = "link" => job[p].op = "rename") /\ (l = "store" => job[p].op # "rename")
  BY <1>0, GotoMoves, UndoMoves DEF Pcs, CreatePcs, RenamePcs, DeletePcs, SetaclPcs, At
<1>2. Handler(job[p])' /\ (InTransaction(job[p])' <=> InTransaction(job[p]))
  BY <1>0, <1>1 DEF At, Handler, Moves, InTransaction, CreatePcs, RenamePcs, DeletePcs, SetaclPcs
<1>3. HandlersOK'
  BY <1>1, <1>2 DEF TypeInv, HandlersOK, Moves, Handler
<1>4. ListHeld' /\ EntrySeen'
  BY <1>1, <1>2 DEF TypeInv, ListHeld, EntrySeen, Moves, InTransaction
<1>5. ino' \in {ino, ino + 1} /\ ops' = ops
  OBVIOUS
<1>6. InodesLeft' /\ ino' \in {0} \cup Inodes
  BY <1>1, <1>5, InodeTaken DEF At, Pcs, CreatePcs, RenamePcs, DeletePcs, SetaclPcs, PreIndexPcs
<1>7. faults' \in [kill : Nat, lost : Nat, io : Nat]
  BY FaultType DEF TypeInv, CountersOK
<1>8. ListsOK' /\ LocksOK'
  BY <1>t DEF TypeInv, ListsOK, LocksOK, Unlocked
<1>9. FilesOK'
  <2>1. CASE UNCHANGED files BY <2>1 DEF TypeInv, FilesOK
  <2>2. CASE ~UNCHANGED files
    <3>1. /\ idx' = [idx EXCEPT ![target(job[p])] = IF @ = 0 THEN ino + 1 ELSE @]
          /\ ino' = IF idx[target(job[p])] = 0 THEN ino + 1 ELSE ino
          /\ mail' = mail \ {idx[target(job[p])]}
          /\ hdr' = [hdr EXCEPT ![target(job[p])] = job[p].acl]
      BY <2>2
    <3> QED BY <3>1, <1>0, <1>t, <1>6 DEF TypeInv, FilesOK, CountersOK, Jobs, Blank
  <2> QED BY <2>1, <2>2
<1>10. CountersOK'
  <2>1. Cardinality(Occupied) \in Nat BY OccupiedAssumption, FS_CardinalityType
  <2> QED BY <2>1, <1>5, <1>7 DEF TypeInv, CountersOK
<1> QED BY <1>1, <1>3, <1>4, <1>6, <1>8, <1>9, <1>10 DEF TypeInv

LEMMA StoreType ==
  ASSUME TypeInv, NEW p \in Procs, store(p)
  PROVE  TypeInv'
<1> USE DEF store, lists, files, history
<1>0. job[p] \in Jobs /\ JobsOK /\ Handler(job[p]) BY DEF TypeInv, JobsOK, HandlersOK
<1>t. target(job[p]) \in Names /\ job[p].n \in Names /\ job[p].m \in Names
  BY <1>0 DEF Jobs, target
<1>1. PICK l \in {"activate"} : JobsOK' /\ Moves(p, l)
  BY <1>0, GotoMoves, UndoMoves DEF Pcs, CreatePcs, RenamePcs, DeletePcs, SetaclPcs, At
<1>2. Handler(job[p])' /\ ~InTransaction(job[p])' /\ ~InTransaction(job[p])
  BY <1>0, <1>1 DEF At, Handler, Moves, InTransaction, CreatePcs, RenamePcs, DeletePcs, SetaclPcs
<1>3. l \in Pcs /\ l \notin PreIndexPcs
  BY <1>1 DEF Pcs, CreatePcs, RenamePcs, DeletePcs, SetaclPcs, PreIndexPcs
<1>4. HandlersOK' /\ ListHeld' /\ EntrySeen' /\ InodesLeft'
  BY <1>1, <1>2, <1>3, FramedDb
<1>5. db' \in [Names -> Entries]
  BY <1>0, <1>t, EntryType DEF TypeInv, ListsOK, Jobs
<1>6. ListsOK' /\ LocksOK' /\ FilesOK' /\ CountersOK'
  BY <1>5, <1>t DEF TypeInv, ListsOK, LocksOK, FilesOK, CountersOK, Unlocked
<1> QED BY <1>1, <1>4, <1>6 DEF TypeInv

LEMMA RenameCommitType ==
  ASSUME TypeInv, NEW p \in Procs, rename_commit(p)
  PROVE  TypeInv'
<1> USE DEF rename_commit, lists, files, history
<1>0. job[p] \in Jobs /\ JobsOK /\ Handler(job[p]) BY DEF TypeInv, JobsOK, HandlersOK
<1>t. target(job[p]) \in Names /\ job[p].n \in Names /\ job[p].m \in Names
  BY <1>0 DEF Jobs, target
<1>1. PICK l \in {"activate", "undo"} : JobsOK' /\ Moves(p, l)
  BY <1>0, GotoMoves, UndoMoves DEF Pcs, CreatePcs, RenamePcs, DeletePcs, SetaclPcs, At
<1>2. Handler(job[p])' /\ ~InTransaction(job[p])' /\ ~InTransaction(job[p])
  BY <1>0, <1>1 DEF At, Handler, Moves, InTransaction, CreatePcs, RenamePcs, DeletePcs, SetaclPcs
<1>3. l \in Pcs /\ l \notin PreIndexPcs
  BY <1>1 DEF Pcs, CreatePcs, RenamePcs, DeletePcs, SetaclPcs, PreIndexPcs
<1>4. HandlersOK' /\ ListHeld' /\ EntrySeen' /\ InodesLeft'
  <2>1. CASE dblock = NoProc BY <2>1, <1>1, <1>2, <1>3, FramedDb
  <2>2. CASE UNCHANGED db BY <2>2, <1>1, <1>2, <1>3, Framed
  <2> QED BY <2>1, <2>2
<1>5. db' \in [Names -> Entries]
  BY <1>0, <1>t, EntryType DEF TypeInv, ListsOK, Jobs
<1>6. ListsOK' /\ LocksOK' /\ FilesOK' /\ CountersOK'
  BY <1>5, <1>t DEF TypeInv, ListsOK, LocksOK, FilesOK, CountersOK, Unlocked
<1> QED BY <1>1, <1>4, <1>6 DEF TypeInv

LEMMA UndoType ==
  ASSUME TypeInv, NEW p \in Procs, undo(p)
  PROVE  TypeInv'
<1> USE DEF undo, lists, files, history
<1>0. job[p] \in Jobs /\ JobsOK /\ Handler(job[p]) BY DEF TypeInv, JobsOK, HandlersOK
<1>t. target(job[p]) \in Names /\ job[p].n \in Names /\ job[p].m \in Names
  BY <1>0 DEF Jobs, target
<1>1. PICK l \in {"unreserve", "close"} : JobsOK' /\ Moves(p, l)
  BY <1>0, GotoMoves, UndoMoves DEF Pcs, CreatePcs, RenamePcs, DeletePcs, SetaclPcs, At
<1>2. Handler(job[p])' /\ ~InTransaction(job[p])' /\ ~InTransaction(job[p])
  BY <1>0, <1>1 DEF At, Handler, Moves, InTransaction, CreatePcs, RenamePcs, DeletePcs, SetaclPcs
<1>3. l \in Pcs /\ l \notin PreIndexPcs
  BY <1>1 DEF Pcs, CreatePcs, RenamePcs, DeletePcs, SetaclPcs, PreIndexPcs
<1>4. HandlersOK' /\ ListHeld' /\ EntrySeen' /\ InodesLeft'
  <2>1. CASE dblock = NoProc BY <2>1, <1>1, <1>2, <1>3, FramedDb
  <2>2. CASE UNCHANGED db BY <2>2, <1>1, <1>2, <1>3, Framed
  <2> QED BY <2>1, <2>2
<1>5. db' \in [Names -> Entries]
  BY <1>0, <1>t, EntryType DEF TypeInv, ListsOK, Jobs
<1>6. ListsOK' /\ LocksOK' /\ FilesOK' /\ CountersOK'
  BY <1>5, <1>t DEF TypeInv, ListsOK, LocksOK, FilesOK, CountersOK, Unlocked
<1> QED BY <1>1, <1>4, <1>6 DEF TypeInv

LEMMA LookupType ==
  ASSUME TypeInv, NEW p \in Procs, lookup(p)
  PROVE  TypeInv'
<1> USE DEF lookup, lists, files, history
<1>0. job[p] \in Jobs /\ JobsOK /\ Handler(job[p]) BY DEF TypeInv, JobsOK, HandlersOK
<1>t. target(job[p]) \in Names /\ job[p].n \in Names /\ job[p].m \in Names
  BY <1>0 DEF Jobs, target
<1>1. PICK l \in {"idle", "lockbox"} : JobsOK' /\ Moves(p, l) /\ (l = "lockbox" => db[job[p].n].st = "active" /\ dblock' = IF job[p].op = "delete" THEN p ELSE NoProc)
           /\ (l = "idle" => dblock' = dblock)
  BY <1>0, GotoMoves DEF Pcs, CreatePcs, RenamePcs, DeletePcs, SetaclPcs, At
<1>2. Handler(job[p])'
  BY <1>0, <1>1 DEF At, Handler, Moves, CreatePcs, RenamePcs, DeletePcs, SetaclPcs
<1>3. HandlersOK'
  BY <1>1, <1>2 DEF TypeInv, HandlersOK, Moves, Handler
<1>4. ListHeld'
  BY <1>0, <1>1, <1>2, NoProcAssumption DEF TypeInv, ListHeld, LocksOK, Moves, InTransaction,
     Handler, At, CreatePcs, RenamePcs, DeletePcs, SetaclPcs
<1>5. EntrySeen'
  BY <1>0, <1>1 DEF TypeInv, EntrySeen, Moves, InTransaction, At, Absent
<1>6. InodesLeft'
  BY <1>1, InodesKept DEF PreIndexPcs
<1>7. ListsOK'
  BY DEF TypeInv, ListsOK
<1>8. LocksOK'
  BY <1>t DEF TypeInv, LocksOK
<1>9. FilesOK' /\ CountersOK'
  BY DEF TypeInv, FilesOK, CountersOK
<1> QED BY <1>1, <1>3, <1>4, <1>5, <1>6, <1>7, <1>8, <1>9 DEF TypeInv

LEMMA LockboxType ==
  ASSUME TypeInv, NEW p \in Procs, lockbox(p)
  PROVE  TypeInv'
<1> USE DEF lockbox, lists, files, history
<1>0. job[p] \in Jobs /\ JobsOK /\ Handler(job[p]) BY DEF TypeInv, JobsOK, HandlersOK
<1>t. target(job[p]) \in Names /\ job[p].n \in Names /\ job[p].m \in Names
  BY <1>0 DEF Jobs, target
<1>1. PICK l \in {"idle", "commit", "relook"} : JobsOK' /\ Moves(p, l) /\ (l = "commit" <=> l # "idle" /\ job[p].op = "delete")
           /\ (IF l = "idle" THEN dblock' = ListReleased(p) ELSE dblock' = dblock)
  BY <1>0, GotoMoves DEF Pcs, CreatePcs, RenamePcs, DeletePcs, SetaclPcs, At
<1>2. Handler(job[p])'
  BY <1>0, <1>1 DEF At, Handler, Moves, CreatePcs, RenamePcs, DeletePcs, SetaclPcs
<1>3. HandlersOK'
  BY <1>1, <1>2 DEF TypeInv, HandlersOK, Moves, Handler
<1>4. ListHeld'
  BY <1>0, <1>1, <1>2, NoProcAssumption DEF TypeInv, ListHeld, LocksOK, Moves, InTransaction,
     Handler, At, ListReleased, CreatePcs, RenamePcs, DeletePcs, SetaclPcs
<1>5. EntrySeen'
  BY <1>0, <1>1 DEF TypeInv, EntrySeen, Moves, InTransaction, At, Handler, CreatePcs, RenamePcs,
     DeletePcs, SetaclPcs
<1>6. InodesLeft'
  BY <1>1, InodesKept DEF PreIndexPcs
<1>7. ListsOK'
  BY DEF TypeInv, ListsOK
<1>8. LocksOK'
  BY <1>t DEF TypeInv, LocksOK, ListReleased
<1>9. FilesOK' /\ CountersOK'
  BY DEF TypeInv, FilesOK, CountersOK
<1> QED BY <1>1, <1>3, <1>4, <1>5, <1>6, <1>7, <1>8, <1>9 DEF TypeInv

LEMMA DeleteCommitType ==
  ASSUME TypeInv, NEW p \in Procs, delete_commit(p)
  PROVE  TypeInv'
<1> USE DEF delete_commit, lists, files, history
<1>0. job[p] \in Jobs /\ JobsOK /\ Handler(job[p]) BY DEF TypeInv, JobsOK, HandlersOK
<1>t. target(job[p]) \in Names /\ job[p].n \in Names /\ job[p].m \in Names
  BY <1>0 DEF Jobs, target
<1>1. PICK l \in {"mdelete"} : JobsOK' /\ Moves(p, l)
  BY <1>0, GotoMoves DEF Pcs, CreatePcs, RenamePcs, DeletePcs, SetaclPcs, At
<1>2. Handler(job[p])'
  BY <1>0, <1>1 DEF At, Handler, Moves, CreatePcs, RenamePcs, DeletePcs, SetaclPcs
<1>3. HandlersOK'
  BY <1>1, <1>2 DEF TypeInv, HandlersOK, Moves, Handler
<1>4. ListHeld'
  BY <1>0, <1>1, <1>2, NoProcAssumption DEF TypeInv, ListHeld, LocksOK, Moves, InTransaction,
     Handler, At
<1>5. EntrySeen'
  BY <1>1, <1>4, NoProcAssumption DEF EntrySeen, ListHeld
<1>6. InodesLeft'
  BY <1>1, InodesKept DEF PreIndexPcs
<1>7. ListsOK'
  BY <1>t, EntryType DEF TypeInv, ListsOK
<1>8. LocksOK'
  BY <1>t DEF TypeInv, LocksOK
<1>9. FilesOK' /\ CountersOK'
  BY DEF TypeInv, FilesOK, CountersOK
<1> QED BY <1>1, <1>3, <1>4, <1>5, <1>6, <1>7, <1>8, <1>9 DEF TypeInv

LEMMA RelookType ==
  ASSUME TypeInv, NEW p \in Procs, relook(p)
  PROVE  TypeInv'
<1> USE DEF relook, lists, files, history
<1>0. job[p] \in Jobs /\ JobsOK /\ Handler(job[p]) BY DEF TypeInv, JobsOK, HandlersOK
<1>t. target(job[p]) \in Names /\ job[p].n \in Names /\ job[p].m \in Names
  BY <1>0 DEF Jobs, target
<1>1. PICK l \in {"close", "header"} : JobsOK' /\ Moves(p, l) /\ (l = "header" => dblock = NoProc /\ dblock' = p /\ db[job[p].n] # Absent)
           /\ (l = "close" => dblock' = dblock)
  BY <1>0, GotoMoves DEF Pcs, CreatePcs, RenamePcs, DeletePcs, SetaclPcs, At
<1>2. Handler(job[p])'
  BY <1>0, <1>1 DEF At, Handler, Moves, CreatePcs, RenamePcs, DeletePcs, SetaclPcs
<1>3. HandlersOK'
  BY <1>1, <1>2 DEF TypeInv, HandlersOK, Moves, Handler
<1>4. ListHeld'
  BY <1>0, <1>1, <1>2, NoProcAssumption DEF TypeInv, ListHeld, LocksOK, Moves, InTransaction,
     Handler, At, CreatePcs, RenamePcs, DeletePcs, SetaclPcs
<1>5. EntrySeen'
  BY <1>0, <1>1 DEF TypeInv, EntrySeen, Moves, InTransaction, At, Handler, CreatePcs, RenamePcs,
     DeletePcs, SetaclPcs
<1>6. InodesLeft'
  BY <1>1, InodesKept DEF PreIndexPcs
<1>7. ListsOK'
  BY DEF TypeInv, ListsOK
<1>8. LocksOK'
  BY <1>t DEF TypeInv, LocksOK
<1>9. FilesOK' /\ CountersOK'
  BY DEF TypeInv, FilesOK, CountersOK
<1> QED BY <1>1, <1>3, <1>4, <1>5, <1>6, <1>7, <1>8, <1>9 DEF TypeInv

LEMMA SetaclCommitType ==
  ASSUME TypeInv, NEW p \in Procs, setacl_commit(p)
  PROVE  TypeInv'
<1> USE DEF setacl_commit, lists, files, history
<1>0. job[p] \in Jobs /\ JobsOK /\ Handler(job[p]) BY DEF TypeInv, JobsOK, HandlersOK
<1>t. target(job[p]) \in Names /\ job[p].n \in Names /\ job[p].m \in Names
  BY <1>0 DEF Jobs, target
<1>1. PICK l \in {"activate"} : JobsOK' /\ Moves(p, l)
  BY <1>0, GotoMoves DEF Pcs, CreatePcs, RenamePcs, DeletePcs, SetaclPcs, At
<1>2. Handler(job[p])'
  BY <1>0, <1>1 DEF At, Handler, Moves, CreatePcs, RenamePcs, DeletePcs, SetaclPcs
<1>3. HandlersOK'
  BY <1>1, <1>2 DEF TypeInv, HandlersOK, Moves, Handler
<1>4. ListHeld'
  BY <1>0, <1>1, <1>2, NoProcAssumption DEF TypeInv, ListHeld, LocksOK, Moves, InTransaction,
     Handler, At
<1>5. EntrySeen'
  BY <1>1, <1>4, NoProcAssumption DEF EntrySeen, ListHeld
<1>6. InodesLeft'
  BY <1>1, InodesKept DEF PreIndexPcs
<1>7. ListsOK'
  <2>1. db[job[p].n] # Absent /\ db[job[p].n] \in Entries
    BY <1>t DEF TypeInv, EntrySeen, InTransaction, At, ListsOK
  <2>2. [db[job[p].n] EXCEPT !.acl = job[p].acl] \in Entries
    BY <2>1, <1>0, EntryType DEF Jobs
  <2>3. db' = [db EXCEPT ![job[p].n] = [db[job[p].n] EXCEPT !.acl = job[p].acl]]
    OBVIOUS
  <2> QED BY <2>2, <2>3, <1>t DEF TypeInv, ListsOK
<1>8. LocksOK'
  BY <1>t DEF TypeInv, LocksOK
<1>9. FilesOK' /\ CountersOK'
  BY DEF TypeInv, FilesOK, CountersOK
<1> QED BY <1>1, <1>3, <1>4, <1>5, <1>6, <1>7, <1>8, <1>9 DEF TypeInv


(* A process that ends lets go of its locks and its transaction.           *)
LEMMA ExitType ==
  ASSUME TypeInv, NEW p \in Procs, Exit(p) \/ Kill(p)
  PROVE  TypeInv'
<1> USE DEF Exit, Kill, Gone, lists, files, history
<1>0. job[p] \in Jobs /\ JobsOK /\ Handler(job[p]) BY DEF TypeInv, JobsOK, HandlersOK
<1>1. JobsOK' /\ Moves(p, "idle")
  <2>1. CASE Exit(p) BY <2>1, <1>0 DEF JobsOK, Moves, At
  <2>2. CASE Kill(p) BY <2>2, <1>0, GotoMoves DEF Pcs, CreatePcs
  <2> QED BY <2>1, <2>2
<1>2. Handler(job[p])' /\ ~InTransaction(job[p])'
  BY <1>0, <1>1 DEF Handler, Moves, InTransaction, CreatePcs, RenamePcs, DeletePcs, SetaclPcs
<1>3. HandlersOK'
  BY <1>1, <1>2 DEF TypeInv, HandlersOK, Moves, Handler
<1>4. ListHeld'
  BY <1>1, <1>2, NoProcAssumption DEF TypeInv, ListHeld, LocksOK, Moves, InTransaction,
     ListReleased
<1>5. EntrySeen'
  BY <1>1, <1>2 DEF TypeInv, EntrySeen, Moves, InTransaction
<1>6. InodesLeft'
  BY <1>1, InodesKept DEF PreIndexPcs
<1>7. ListsOK' /\ LocksOK' /\ FilesOK'
  BY DEF TypeInv, ListsOK, LocksOK, FilesOK, ListReleased
<1>8. CountersOK'
  BY FaultType DEF TypeInv, CountersOK
<1> QED BY <1>1, <1>3, <1>4, <1>5, <1>6, <1>7, <1>8 DEF TypeInv

(* A request fills the job of a process that has none.                     *)
LEMMA RequestType ==
  ASSUME TypeInv, NEW p \in Procs, NEW n \in Names, NEW m \in Names,
         NEW op \in {"create", "delete", "rename", "setacl"}, Request(p, op, n, m)
  PROVE  TypeInv'
<1> USE DEF Request, lists, files
<1>0. JobsOK /\ job[p].pc = "idle" /\ ops \in 0..MaxOps /\ ops + 1 \in 0..MaxOps
  BY BoundAssumption DEF TypeInv, At, CountersOK
<1> DEFINE l == IF op \in {"create", "rename"} THEN "check" ELSE "lookup"
<1>1. /\ JobsOK' /\ \A q \in Procs \ {p} : job'[q] = job[q]
      /\ job'[p].op = op /\ job'[p].n = n /\ job'[p].m = m /\ job'[p].pc = l
  <2> DEFINE a == IF op = "setacl" THEN ops + 1 ELSE 0
             new == [IdleJob(n) EXCEPT !.op = op, !.m = m, !.pc = l, !.acl = a]
  <2>1. job' = [job EXCEPT ![p] = new] OBVIOUS
  <2>2. a \in 0..MaxOps BY <1>0, BoundAssumption
  <2>3. new \in Jobs /\ new.op = op /\ new.n = n /\ new.m = m /\ new.pc = l
    <3>1. l \in {"check", "lookup"} OBVIOUS
    <3> HIDE DEF l, a
    <3>2. 0 \in Int /\ {"check", "lookup"} \subseteq Pcs BY DEF Pcs, CreatePcs, DeletePcs
    <3>3. IdleJob(n) \in [op : {"none"}, pc : {"idle"}, n : Names, m : Names, acl : {0}, r : Int,
                           newopen : BOOLEAN, made : BOOLEAN] /\ IdleJob(n).n = n
      BY <3>2 DEF IdleJob
    <3>4. new \in Jobs BY <2>2, <3>1, <3>2, <3>3 DEF Jobs, Pcs
    <3>5. new.op = op /\ new.n = n /\ new.m = m /\ new.pc = l BY <3>3
    <3> QED BY <3>4, <3>5
  <2> HIDE DEF new, l
  <2> QED BY <2>1, <2>3, <1>0 DEF JobsOK
<1>2. Handler(job[p])' /\ ~InTransaction(job[p])' /\ ~InTransaction(job[p])
  BY <1>0, <1>1 DEF Handler, InTransaction, CreatePcs, RenamePcs, DeletePcs, SetaclPcs
<1>3. HandlersOK' BY <1>1, <1>2 DEF TypeInv, HandlersOK, Handler
<1>4. ListHeld' BY <1>1, <1>2 DEF TypeInv, ListHeld, InTransaction
<1>5. EntrySeen' BY <1>1, <1>2 DEF TypeInv, EntrySeen, InTransaction
<1>6. InodesLeft' BY <1>0, <1>1, RequestCounted
<1>7. ListsOK' /\ LocksOK' /\ FilesOK' /\ CountersOK'
  BY <1>0 DEF TypeInv, ListsOK, LocksOK, FilesOK, CountersOK
<1> QED BY <1>1, <1>3, <1>4, <1>5, <1>6, <1>7 DEF TypeInv

(* Every step keeps the strengthened type invariant.                       *)
LEMMA TypeNext == TypeInv /\ [Next]_vars => TypeInv'
<1> SUFFICES ASSUME TypeInv, [Next]_vars PROVE TypeInv'
  OBVIOUS
<1>1. CASE UNCHANGED vars
  BY <1>1 DEF vars, TypeInv, JobsOK, HandlersOK, ListsOK, LocksOK, FilesOK, CountersOK, ListHeld,
              EntrySeen, InodesLeft, PreIndex
<1>2. CASE \E p \in Procs, n, m \in Names, op \in {"create", "delete", "rename", "setacl"} :
             Request(p, op, n, m)
  BY <1>2, RequestType
<1>3. ASSUME NEW p \in Procs, Step(p) PROVE TypeInv'
  BY <1>3, CheckType, ReserveType, LockoldType, OpenhdrType, LockhdrType, MkindexType, LinkType,
     CopyType, StoreType, RenameCommitType, ActivateType, MdeleteType, CleanupType, RmType,
     UndoType, UnreserveType, CloseType, LookupType, LockboxType, DeleteCommitType, RelookType,
     HeaderType, SetaclCommitType DEF Step
<1>4. ASSUME NEW p \in Procs, Exit(p) \/ Kill(p) PROVE TypeInv'
  BY <1>4, ExitType
<1> QED BY <1>1, <1>2, <1>3, <1>4 DEF Next, Done

(* The strengthened type invariant says all that TypeOK says.              *)
LEMMA TypeInvTypeOK == TypeInv => TypeOK
<1> SUFFICES ASSUME TypeInv PROVE TypeOK
  OBVIOUS
<1>1. ino \in {0} \cup Inodes
  <2>1. Cardinality(PreIndex) \in Nat /\ Cardinality(Occupied) \in Nat
    BY OccupiedAssumption, FS_CardinalityType DEF TypeInv, InodesLeft
  <2> QED BY <2>1, BoundAssumption DEF TypeInv, InodesLeft, CountersOK, Inodes
<1>2. \A p \in Procs : dblock = p => job[p].pc \in {"lockbox", "commit", "header"}
  BY DEF TypeInv, ListHeld, InTransaction
<1> QED BY <1>1, <1>2 DEF TypeInv, TypeOK, JobsOK, Jobs, ListsOK, LocksOK, FilesOK

(* The places hold what the code can put there, whatever the processes do: *)
(* in particular an open transaction belongs to a DELETE or a SETACL that  *)
(* is between its begin and its commit, and no handler leaves one open.    *)
THEOREM TypeCorrect == Spec => []TypeOK
<1>1. Spec => []TypeInv
  BY TypeInit, TypeNext, PTL DEF Spec
<1> QED BY <1>1, TypeInvTypeOK, PTL

-----------------------------------------------------------------------------
(* What the parts of MailParts have in common: they say of a process in    *)
(* some phases of its request what the places it works on hold.            *)
Others(p) == \A q \in Procs : q # p => job'[q] = job[q]
Same(p) == job'[p].n = job[p].n /\ target(job'[p]) = target(job[p])

(* The entries the database has not as reservations, and the files.        *)
Typed == /\ db \in [Names -> Entries] /\ hlock \in [Names -> Procs \cup {NoProc}]
         /\ hdr \in [Names -> Blank..MaxOps] /\ idx \in [Names -> {0} \cup Inodes]
         /\ \A q \in Procs : job[q].n \in Names /\ target(job[q]) \in Names /\ Handler(job[q])
         /\ \A q \in Procs : job[q].op = "rename" => target(job[q]) # job[q].n
         /\ \A q \in Procs : job[q].op # "rename" => target(job[q]) = job[q].n
         /\ JobsOK /\ NoProc \notin Procs

(* What MailParts needs to know of the types.                              *)
LEMMA TypeInvTyped == TypeInv => Typed
BY NoProcAssumption DEF TypeInv, Typed, ListsOK, LocksOK, FilesOK, JobsOK, Jobs, HandlersOK,
   target

(* Entries are records of a state and an ACL.                              *)
LEMMA EntryRecords ==
  \A e \in Entries : e \in [st : {"absent", "reserved", "active"}, acl : Int]
<1>1. 0 \in Int /\ 0..MaxOps \subseteq Int BY BoundAssumption
<1> QED BY <1>1 DEF Entries, Absent, MBTYPE_RESERVE, Active

(* The names of a request stay with it.                                    *)
LEMMA MovesSame ==
  ASSUME NEW p \in Procs, NEW l, Moves(p, l)
  PROVE  Others(p) /\ Same(p)
BY DEF Moves, Others, Same, target

(* A step that moves a request along, or ends it, and leaves the list and  *)
(* the files alone.                                                        *)
LEMMA Quiet ==
  ASSUME MailParts, NEW p \in Procs, Others(p), UNCHANGED <<db, hlock, hdr, idx, mail, dropped>>,
         Same(p) \/ (~Fills(job'[p]) /\ ~Owner(job'[p]) /\ ~HoldsOld(job'[p]) /\ ~HoldsNew(job'[p])
                      /\ ~Removes(job'[p]) /\ ~HasLink(job'[p]) /\ ~Dropped(job'[p])),
         Owner(job'[p]) => Owner(job[p]), Fills(job'[p]) => Fills(job[p]),
         HoldsOld(job'[p]) => HoldsOld(job[p]), HoldsNew(job'[p]) => HoldsNew(job[p]),
         Removes(job'[p]) => Removes(job[p]) \/ hlock[job[p].n] = p,
         HasLink(job'[p]) => HasLink(job[p]), Dropped(job'[p]) => Dropped(job[p])
  PROVE  MailParts'
<1> USE DEF Others, Same, MailParts
<1>1. Owned' BY DEF Owned
<1>2. Fresh' BY DEF Fresh
<1>3. OldHeld' BY DEF OldHeld, Held
<1>4. NewHeld' BY DEF NewHeld, Held
<1>5. Removing' BY DEF Removing
<1>6. Linked' BY DEF Linked
<1>7. Retired' BY DEF Retired
<1>8. Mailed' BY DEF Mailed
<1> QED BY <1>1, <1>2, <1>3, <1>4, <1>5, <1>6, <1>7, <1>8

(* The steps of the handlers keep MailParts.                               *)
(* The reservation at the MUPDATE master.                                   *)
LEMMA ReserveMail ==
  ASSUME TypeInv, MailParts, NEW p \in Procs, mupdate_reserve(p)
  PROVE  MailParts'
<1>0. Typed /\ JobsOK BY TypeInvTyped DEF TypeInv
<1>1. PICK l \in {"undo", "lockold", "openhdr"} : Moves(p, l) /\ (l = "lockold" <=> l # "undo" /\ job[p].op = "rename")
  <2>1. PICK o \in mupdate(mup, "reserve", target(job[p]), 0) :
          job' = [job EXCEPT ![p].r = o.r, ![p].made = (o.r = 0),
                     ![p].pc = IF o.r # 0 THEN "undo"
                               ELSE IF job[p].op = "rename" THEN "lockold" ELSE "openhdr"]
    BY DEF mupdate_reserve
  <2>2. PICK l \in {"undo", "lockold", "openhdr"} :
          /\ job' = [job EXCEPT ![p].r = o.r, ![p].made = (o.r = 0), ![p].pc = l]
          /\ l = "lockold" <=> l # "undo" /\ job[p].op = "rename"
    BY <2>1
  <2> QED BY <2>2, <1>0 DEF JobsOK, Jobs, Moves
<1>2. Others(p) /\ Same(p) BY <1>1, MovesSame
<1>3. /\ Owner(job'[p]) => Owner(job[p])
      /\ Fills(job'[p]) => Fills(job[p])
      /\ HoldsOld(job'[p]) => HoldsOld(job[p])
      /\ HoldsNew(job'[p]) => HoldsNew(job[p])
      /\ Removes(job'[p]) => Removes(job[p]) \/ HoldsOld(job[p])
      /\ HasLink(job'[p]) => HasLink(job[p])
      /\ Dropped(job'[p]) => Dropped(job[p])
  BY <1>0, <1>1 DEF mupdate_reserve, At, Typed, Handler, Moves, Owner, OwnerPcs, Fills,
     PreIndexPcs, HoldsOld, HoldsNew, Removes, HasLink, Dropped, target, CreatePcs, RenamePcs,
     DeletePcs, SetaclPcs
<1>4. HoldsOld(job[p]) => hlock[job[p].n] = p BY DEF MailParts, OldHeld, Held
<1>5. UNCHANGED <<db, hlock, hdr, idx, mail, dropped>>
  BY DEF mupdate_reserve, lists, files, history
<1> QED BY <1>2, <1>3, <1>4, <1>5, Quiet

(* The message files are linked.                                            *)
LEMMA CopyMail ==
  ASSUME TypeInv, MailParts, NEW p \in Procs, copy(p)
  PROVE  MailParts'
<1>0. Typed /\ JobsOK BY TypeInvTyped DEF TypeInv
<1>1. PICK l \in {"commit", "undo"} : Moves(p, l)
  <2>1. CASE job' = [job EXCEPT ![p].pc = "commit", ![p].newopen = TRUE]
    BY <2>1, <1>0 DEF JobsOK, Jobs, Moves
  <2>2. CASE job' = [job EXCEPT ![p].pc = "undo", ![p].r = -1]
    BY <2>2, <1>0, UndoMoves
  <2> QED BY <2>1, <2>2 DEF copy
<1>2. Others(p) /\ Same(p) BY <1>1, MovesSame
<1>3. /\ Owner(job'[p]) => Owner(job[p])
      /\ Fills(job'[p]) => Fills(job[p])
      /\ HoldsOld(job'[p]) => HoldsOld(job[p])
      /\ HoldsNew(job'[p]) => HoldsNew(job[p])
      /\ Removes(job'[p]) => Removes(job[p]) \/ HoldsOld(job[p])
      /\ HasLink(job'[p]) => HasLink(job[p])
      /\ Dropped(job'[p]) => Dropped(job[p])
  BY <1>0, <1>1 DEF copy, At, Typed, Handler, Moves, Owner, OwnerPcs, Fills, PreIndexPcs,
     HoldsOld, HoldsNew, Removes, HasLink, Dropped, target, CreatePcs, RenamePcs, DeletePcs,
     SetaclPcs
<1>4. HoldsOld(job[p]) => hlock[job[p].n] = p BY DEF MailParts, OldHeld, Held
<1>5. UNCHANGED <<db, hlock, hdr, idx, mail, dropped>> BY DEF copy, lists, files, history
<1> QED BY <1>2, <1>3, <1>4, <1>5, Quiet

(* The entry at the MUPDATE master becomes active.                          *)
LEMMA ActivateMail ==
  ASSUME TypeInv, MailParts, NEW p \in Procs, mupdate_activate(p)
  PROVE  MailParts'
<1>0. Typed /\ JobsOK BY TypeInvTyped DEF TypeInv
<1>1. PICK l \in {"idle", "mdelete", "close"} : Moves(p, l) /\ (l = "mdelete" => job[p].op = "rename")
  <2>1. \A n \in Names, acl \in 0..MaxOps :
          /\ \A o \in mupdate(mup, "activate", n, acl) : AnswerOK(o)
          /\ \A o \in mupdate_retry(mup, "activate", n, acl) : AnswerOK(o)
    BY MupdateType DEF TypeInv, ListsOK
  <2>2. job[p] \in Jobs /\ job[p].n \in Names /\ job[p].m \in Names /\ target(job[p]) \in Names
    BY <1>0 DEF Typed, JobsOK, Jobs
  <2>3. job[p].acl \in 0..MaxOps /\ 0 \in 0..MaxOps BY <2>2, BoundAssumption DEF Jobs
  <2>4. job[p].op \in {"create", "rename", "setacl"}
    BY <1>0 DEF mupdate_activate, Typed, At, Handler, CreatePcs, RenamePcs, DeletePcs, SetaclPcs
  <2>5. CASE job[p].op = "create"
    BY <2>1, <2>2, <2>3, <2>5, OutcomeMoves DEF mupdate_activate, Pcs, CreatePcs
  <2>6. CASE job[p].op = "rename"
    BY <2>1, <2>2, <2>3, <2>6, OutcomeMoves DEF mupdate_activate, Pcs, RenamePcs
  <2>7. CASE job[p].op = "setacl"
    BY <2>1, <2>2, <2>3, <2>7, OutcomeMoves DEF mupdate_activate, Pcs, SetaclPcs
  <2> QED BY <2>4, <2>5, <2>6, <2>7
<1>2. Others(p) /\ Same(p) BY <1>1, MovesSame
<1>3. /\ Owner(job'[p]) => Owner(job[p])
      /\ Fills(job'[p]) => Fills(job[p])
      /\ HoldsOld(job'[p]) => HoldsOld(job[p])
      /\ HoldsNew(job'[p]) => HoldsNew(job[p])
      /\ Removes(job'[p]) => Removes(job[p]) \/ HoldsOld(job[p])
      /\ HasLink(job'[p]) => HasLink(job[p])
      /\ Dropped(job'[p]) => Dropped(job[p])
  BY <1>0, <1>1 DEF mupdate_activate, At, Typed, Handler, Moves, Owner, OwnerPcs, Fills,
     PreIndexPcs, HoldsOld, HoldsNew, Removes, HasLink, Dropped, target, CreatePcs, RenamePcs,
     DeletePcs, SetaclPcs
<1>4. HoldsOld(job[p]) => hlock[job[p].n] = p BY DEF MailParts, OldHeld, Held
<1>5. UNCHANGED <<db, hlock, hdr, idx, mail, dropped>>
  BY DEF mupdate_activate, lists, files, history
<1> QED BY <1>2, <1>3, <1>4, <1>5, Quiet

(* The old entry at the MUPDATE master goes.                                *)
LEMMA MdeleteMail ==
  ASSUME TypeInv, MailParts, NEW p \in Procs, mupdate_delete(p)
  PROVE  MailParts'
<1>0. Typed /\ JobsOK BY TypeInvTyped DEF TypeInv
<1>1. PICK l \in {"cleanup", "close", "rm", "idle"} : Moves(p, l) /\ (l \in {"cleanup", "close"} <=> job[p].op = "rename")
  <2>1. \A n \in Names, acl \in 0..MaxOps :
          /\ \A o \in mupdate(mup, "delete", n, acl) : AnswerOK(o)
          /\ \A o \in mupdate_retry(mup, "delete", n, acl) : AnswerOK(o)
    BY MupdateType DEF TypeInv, ListsOK
  <2>2. job[p] \in Jobs /\ job[p].n \in Names /\ job[p].m \in Names /\ target(job[p]) \in Names
    BY <1>0 DEF Typed, JobsOK, Jobs
  <2>3. job[p].acl \in 0..MaxOps /\ 0 \in 0..MaxOps BY <2>2, BoundAssumption DEF Jobs
  <2>4. CASE job[p].op = "rename"
    BY <2>1, <2>2, <2>3, <2>4, OutcomeMoves DEF mupdate_delete, Pcs, RenamePcs
  <2>5. CASE job[p].op # "rename"
    BY <2>1, <2>2, <2>3, <2>5, OutcomeMoves DEF mupdate_delete, Pcs, DeletePcs
  <2> QED BY <2>4, <2>5
<1>2. Others(p) /\ Same(p) BY <1>1, MovesSame
<1>3. /\ Owner(job'[p]) => Owner(job[p])
      /\ Fills(job'[p]) => Fills(job[p])
      /\ HoldsOld(job'[p]) => HoldsOld(job[p])
      /\ HoldsNew(job'[p]) => HoldsNew(job[p])
      /\ Removes(job'[p]) => Removes(job[p]) \/ HoldsOld(job[p])
      /\ HasLink(job'[p]) => HasLink(job[p])
      /\ Dropped(job'[p]) => Dropped(job[p])
  BY <1>0, <1>1 DEF mupdate_delete, At, Typed, Handler, Moves, Owner, OwnerPcs, Fills,
     PreIndexPcs, HoldsOld, HoldsNew, Removes, HasLink, Dropped, target, CreatePcs, RenamePcs,
     DeletePcs, SetaclPcs
<1>4. HoldsOld(job[p]) => hlock[job[p].n] = p BY DEF MailParts, OldHeld, Held
<1>5. UNCHANGED <<db, hlock, hdr, idx, mail, dropped>>
  BY DEF mupdate_delete, lists, files, history
<1> QED BY <1>2, <1>3, <1>4, <1>5, Quiet

(* The reservation at the MUPDATE master goes.                              *)
LEMMA UnreserveMail ==
  ASSUME TypeInv, MailParts, NEW p \in Procs, unreserve(p)
  PROVE  MailParts'
<1>0. Typed /\ JobsOK BY TypeInvTyped DEF TypeInv
<1>1. PICK l \in {"close"} : Moves(p, l)
  <2>1. \A n \in Names, acl \in 0..MaxOps :
          /\ \A o \in mupdate(mup, "delete", n, acl) : AnswerOK(o)
          /\ \A o \in mupdate_retry(mup, "delete", n, acl) : AnswerOK(o)
    BY MupdateType DEF TypeInv, ListsOK
  <2>2. job[p] \in Jobs /\ job[p].n \in Names /\ job[p].m \in Names /\ target(job[p]) \in Names
    BY <1>0 DEF Typed, JobsOK, Jobs
  <2>3. job[p].acl \in 0..MaxOps /\ 0 \in 0..MaxOps BY <2>2, BoundAssumption DEF Jobs
  <2> QED BY <2>1, <2>2, <2>3, OutcomeMoves DEF unreserve, Pcs, CreatePcs
<1>2. Others(p) /\ Same(p) BY <1>1, MovesSame
<1>3. /\ Owner(job'[p]) => Owner(job[p])
      /\ Fills(job'[p]) => Fills(job[p])
      /\ HoldsOld(job'[p]) => HoldsOld(job[p])
      /\ HoldsNew(job'[p]) => HoldsNew(job[p])
      /\ Removes(job'[p]) => Removes(job[p]) \/ HoldsOld(job[p])
      /\ HasLink(job'[p]) => HasLink(job[p])
      /\ Dropped(job'[p]) => Dropped(job[p])
  BY <1>0, <1>1 DEF unreserve, At, Typed, Handler, Moves, Owner, OwnerPcs, Fills, PreIndexPcs,
     HoldsOld, HoldsNew, Removes, HasLink, Dropped, target, CreatePcs, RenamePcs, DeletePcs,
     SetaclPcs
<1>4. HoldsOld(job[p]) => hlock[job[p].n] = p BY DEF MailParts, OldHeld, Held
<1>5. UNCHANGED <<db, hlock, hdr, idx, mail, dropped>> BY DEF unreserve, lists, files, history
<1> QED BY <1>2, <1>3, <1>4, <1>5, Quiet

(* DELETE and SETACL look the name up.                                      *)
LEMMA LookupMail ==
  ASSUME TypeInv, MailParts, NEW p \in Procs, lookup(p)
  PROVE  MailParts'
<1>0. Typed /\ JobsOK BY TypeInvTyped DEF TypeInv
<1>1. PICK l \in {"idle", "lockbox"} : Moves(p, l)
  BY <1>0, GotoMoves, UndoMoves DEF lookup, Pcs, CreatePcs, RenamePcs, DeletePcs, SetaclPcs
<1>2. Others(p) /\ Same(p) BY <1>1, MovesSame
<1>3. /\ Owner(job'[p]) => Owner(job[p])
      /\ Fills(job'[p]) => Fills(job[p])
      /\ HoldsOld(job'[p]) => HoldsOld(job[p])
      /\ HoldsNew(job'[p]) => HoldsNew(job[p])
      /\ Removes(job'[p]) => Removes(job[p]) \/ HoldsOld(job[p])
      /\ HasLink(job'[p]) => HasLink(job[p])
      /\ Dropped(job'[p]) => Dropped(job[p])
  BY <1>0, <1>1 DEF lookup, At, Typed, Handler, Moves, Owner, OwnerPcs, Fills, PreIndexPcs,
     HoldsOld, HoldsNew, Removes, HasLink, Dropped, target, CreatePcs, RenamePcs, DeletePcs,
     SetaclPcs
<1>4. HoldsOld(job[p]) => hlock[job[p].n] = p BY DEF MailParts, OldHeld, Held
<1>5. UNCHANGED <<db, hlock, hdr, idx, mail, dropped>> BY DEF lookup, lists, files, history
<1> QED BY <1>2, <1>3, <1>4, <1>5, Quiet

(* SETACL looks it up again.                                                *)
LEMMA RelookMail ==
  ASSUME TypeInv, MailParts, NEW p \in Procs, relook(p)
  PROVE  MailParts'
<1>0. Typed /\ JobsOK BY TypeInvTyped DEF TypeInv
<1>1. PICK l \in {"close", "header"} : Moves(p, l)
  BY <1>0, GotoMoves, UndoMoves DEF relook, Pcs, CreatePcs, RenamePcs, DeletePcs, SetaclPcs
<1>2. Others(p) /\ Same(p) BY <1>1, MovesSame
<1>3. /\ Owner(job'[p]) => Owner(job[p])
      /\ Fills(job'[p]) => Fills(job[p])
      /\ HoldsOld(job'[p]) => HoldsOld(job[p])
      /\ HoldsNew(job'[p]) => HoldsNew(job[p])
      /\ Removes(job'[p]) => Removes(job[p]) \/ HoldsOld(job[p])
      /\ HasLink(job'[p]) => HasLink(job[p])
      /\ Dropped(job'[p]) => Dropped(job[p])
  BY <1>0, <1>1 DEF relook, At, Typed, Handler, Moves, Owner, OwnerPcs, Fills, PreIndexPcs,
     HoldsOld, HoldsNew, Removes, HasLink, Dropped, target, CreatePcs, RenamePcs, DeletePcs,
     SetaclPcs
<1>4. HoldsOld(job[p]) => hlock[job[p].n] = p BY DEF MailParts, OldHeld, Held
<1>5. UNCHANGED <<db, hlock, hdr, idx, mail, dropped>> BY DEF relook, lists, files, history
<1> QED BY <1>2, <1>3, <1>4, <1>5, Quiet

(* The reservation takes a free name with an empty directory.               *)
LEMMA CheckMail ==
  ASSUME TypeInv, MailParts, NEW p \in Procs, mycreatemailboxcheck(p), ~Reuse
  PROVE  MailParts'
<1>0. Typed /\ JobsOK BY TypeInvTyped DEF TypeInv
<1>1. PICK l \in {"idle", "reserve"} :
        /\ Moves(p, l)
        /\ UNCHANGED <<hlock, hdr, idx, mail, dropped>>
        /\ l = "idle" => db' = db
        /\ l = "reserve" => /\ db[target(job[p])].st = "absent" /\ hdr[target(job[p])] = NoFile
                            /\ idx[target(job[p])] = 0
                            /\ \A q \in Procs : job[q].pc = "rm" => job[q].n # target(job[p])
                            /\ db'[target(job[p])].st = "reserved"
                            /\ \A n \in Names : n # target(job[p]) => db'[n] = db[n]
  <2>1. CASE Refused(job[p])
    BY <2>1, <1>0, GotoMoves DEF mycreatemailboxcheck, files, history, Pcs, CreatePcs,
       RenamePcs, DeletePcs, SetaclPcs
  <2>2. CASE ~Refused(job[p])
    <3> DEFINE acl == IF job[p].op = "rename" THEN db[job[p].n].acl ELSE 0
    <3>1. /\ job' = [job EXCEPT ![p].pc = "reserve", ![p].acl = acl]
          /\ db' = [db EXCEPT ![target(job[p])] = MBTYPE_RESERVE(acl)]
          /\ UNCHANGED <<hlock, hdr, idx, mail, dropped>>
      BY <2>2 DEF mycreatemailboxcheck, files, history
    <3> HIDE DEF acl
    <3>2. Moves(p, "reserve") BY <3>1, <1>0 DEF JobsOK, Jobs, Moves
    <3>3. /\ db'[target(job[p])].st = "reserved"
          /\ \A n \in Names : n # target(job[p]) => db'[n] = db[n]
      BY <3>1, <1>0 DEF Typed, MBTYPE_RESERVE
    <3>4. db[target(job[p])].st = "absent" BY <2>2 DEF Refused, Absent
    <3> QED BY <2>2, <3>1, <3>2, <3>3, <3>4 DEF Refused, Leftover, At
  <2> QED BY <2>1, <2>2
<1>2. Others(p) /\ Same(p) BY <1>1, MovesSame
<1>3. /\ Owner(job'[p]) => l = "reserve"
      /\ Fills(job'[p]) => l = "reserve"
      /\ HoldsOld(job'[p]) => HoldsOld(job[p])
      /\ HoldsNew(job'[p]) => HoldsNew(job[p])
      /\ Removes(job'[p]) => Removes(job[p])
      /\ HasLink(job'[p]) => HasLink(job[p])
      /\ Dropped(job'[p]) => Dropped(job[p])
      /\ \A q \in Procs : Dropped(job[q]) => HoldsOld(job[q]) \/ job[q].pc = "rm"
      /\ \A q \in Procs : Removes(job[q]) <=> job[q].pc = "rm"
  BY <1>0, <1>1 DEF mycreatemailboxcheck, At, Typed, Handler, Moves, Owner, OwnerPcs, Fills,
     PreIndexPcs, HoldsOld, HoldsNew, Removes, HasLink, Dropped, target, CreatePcs, RenamePcs,
     DeletePcs, SetaclPcs
<1> HIDE DEF Moves
<1>4. Owned' BY <1>0, <1>1, <1>2, <1>3 DEF MailParts, Others, Same, Typed, Owned
<1>5. Fresh' BY <1>0, <1>1, <1>2, <1>3 DEF MailParts, Others, Same, Typed, Fresh
<1>6. OldHeld' BY <1>0, <1>1, <1>2, <1>3 DEF MailParts, Others, Same, Typed, OldHeld, Held
<1>7. NewHeld' BY <1>0, <1>1, <1>2, <1>3 DEF MailParts, Others, Same, Typed, NewHeld, Held
<1>8. Removing' BY <1>0, <1>1, <1>2, <1>3 DEF MailParts, Others, Same, Typed, Removing
<1>9. Linked' BY <1>0, <1>1, <1>2, <1>3 DEF MailParts, Others, Same, Typed, Linked
<1>10. Retired'
  BY <1>0, <1>1, <1>2, <1>3 DEF MailParts, Others, Same, Typed, Retired, OldHeld, Held
<1>11. Mailed'
  <2> SUFFICES ASSUME NEW i \in 1..Cardinality(Occupied) \ dropped'
               PROVE  i \in mail' /\ \E n \in Names : db'[n].st = "active" /\ idx'[n] = i
    BY DEF Mailed
  <2>1. PICK n \in Names : db[n].st = "active" /\ idx[n] = i /\ i \in mail
    BY <1>1 DEF MailParts, Mailed
  <2>2. i \in mail'
    BY <1>1, <2>1
  <2>3. \E k \in Names : db'[k].st = "active" /\ idx'[k] = i
    BY <1>0, <1>1, <2>1 DEF Typed, Absent
  <2> QED BY <2>2, <2>3
<1> QED BY <1>4, <1>5, <1>6, <1>7, <1>8, <1>9, <1>10, <1>11 DEF MailParts

(* RENAME locks the files of the old name.                                  *)
LEMMA LockoldMail ==
  ASSUME TypeInv, MailParts, NEW p \in Procs, lockold(p), Orderly'
  PROVE  MailParts'
<1>0. Typed /\ JobsOK BY TypeInvTyped DEF TypeInv
<1>1. PICK l \in {"openhdr"} :
        /\ Moves(p, l)
        /\ hdr[job[p].n] # NoFile
        /\ hlock[job[p].n] \in {NoProc, p}
        /\ hlock' = [hlock EXCEPT ![job[p].n] = p]
        /\ UNCHANGED <<db, hdr, idx, mail, dropped>>
  BY <1>0, GotoMoves, UndoMoves DEF lockold, lists, files, history, Pcs, CreatePcs, RenamePcs,
     DeletePcs, SetaclPcs, Orderly, FreeFor
<1>2. Others(p) /\ Same(p) BY <1>1, MovesSame
<1>3. /\ Owner(job'[p]) => Owner(job[p])
      /\ Fills(job'[p]) => Fills(job[p])
      /\ ~HoldsNew(job'[p])
      /\ HoldsNew(job'[p]) => HoldsNew(job[p])
      /\ Removes(job'[p]) => Removes(job[p])
      /\ HasLink(job'[p]) => HasLink(job[p])
      /\ Dropped(job'[p]) => Dropped(job[p])
  BY <1>0, <1>1 DEF lockold, At, Typed, Handler, Moves, Owner, OwnerPcs, Fills, PreIndexPcs,
     HoldsOld, HoldsNew, Removes, HasLink, Dropped, target, CreatePcs, RenamePcs, DeletePcs,
     SetaclPcs
<1> HIDE DEF Moves
<1>4. Owned' BY <1>0, <1>1, <1>2, <1>3 DEF MailParts, Others, Same, Typed, Owned
<1>5. Fresh' BY <1>0, <1>1, <1>2, <1>3 DEF MailParts, Others, Same, Typed, Fresh
<1>6. OldHeld' BY <1>0, <1>1, <1>2, <1>3 DEF MailParts, Others, Same, Typed, OldHeld, Held
<1>7. NewHeld' BY <1>0, <1>1, <1>2, <1>3 DEF MailParts, Others, Same, Typed, NewHeld, Held
<1>8. Removing' BY <1>0, <1>1, <1>2, <1>3 DEF MailParts, Others, Same, Typed, Removing
<1>9. Linked' BY <1>0, <1>1, <1>2, <1>3 DEF MailParts, Others, Same, Typed, Linked
<1>10. Retired' BY <1>0, <1>1, <1>2, <1>3 DEF MailParts, Others, Same, Typed, Retired
<1>11. Mailed' BY <1>1 DEF MailParts, Mailed
<1> QED BY <1>4, <1>5, <1>6, <1>7, <1>8, <1>9, <1>10, <1>11 DEF MailParts

(* mailbox_create empties the header file of a name nobody else has.        *)
LEMMA OpenhdrMail ==
  ASSUME TypeInv, MailParts, NEW p \in Procs, openhdr(p)
  PROVE  MailParts'
<1>0. Typed /\ JobsOK BY TypeInvTyped DEF TypeInv
<1>1. PICK l \in {"lockhdr"} :
        /\ Moves(p, l)
        /\ hdr' = [hdr EXCEPT ![target(job[p])] = Blank]
        /\ UNCHANGED <<db, hlock, idx, mail, dropped>>
  BY <1>0, GotoMoves, UndoMoves DEF openhdr, lists, files, history, Pcs, CreatePcs, RenamePcs,
     DeletePcs, SetaclPcs
<1>2. Others(p) /\ Same(p) BY <1>1, MovesSame
<1>3. /\ Owner(job'[p]) => Owner(job[p])
      /\ Fills(job'[p]) => Fills(job[p])
      /\ HoldsOld(job'[p]) => HoldsOld(job[p])
      /\ HoldsNew(job'[p]) => HoldsNew(job[p])
      /\ Removes(job'[p]) => Removes(job[p])
      /\ HasLink(job'[p]) => HasLink(job[p])
      /\ Dropped(job'[p]) => Dropped(job[p])
      /\ Owner(job[p])
      /\ \A q \in Procs : Removes(job[q]) => Dropped(job[q])
  BY <1>0, <1>1 DEF openhdr, At, Typed, Handler, Moves, Owner, OwnerPcs, Fills, PreIndexPcs,
     HoldsOld, HoldsNew, Removes, HasLink, Dropped, target, CreatePcs, RenamePcs, DeletePcs,
     SetaclPcs
<1> HIDE DEF Moves
<1>4. Owned' BY <1>0, <1>1, <1>2, <1>3 DEF MailParts, Others, Same, Typed, Owned
<1>5. Fresh' BY <1>0, <1>1, <1>2, <1>3 DEF MailParts, Others, Same, Typed, Fresh
<1>6. OldHeld'
  BY <1>0, <1>1, <1>2, <1>3 DEF MailParts, Others, Same, Typed, OldHeld, NoFile, Blank, Held
<1>7. NewHeld'
  BY <1>0, <1>1, <1>2, <1>3 DEF MailParts, Others, Same, Typed, NewHeld, NoFile, Blank, Held
<1>8. Removing' BY <1>0, <1>1, <1>2, <1>3 DEF MailParts, Others, Same, Typed, Removing, Retired
<1>9. Linked' BY <1>0, <1>1, <1>2, <1>3 DEF MailParts, Others, Same, Typed, Linked
<1>10. Retired' BY <1>0, <1>1, <1>2, <1>3 DEF MailParts, Others, Same, Typed, Retired
<1>11. Mailed' BY <1>1 DEF MailParts, Mailed
<1> QED BY <1>4, <1>5, <1>6, <1>7, <1>8, <1>9, <1>10, <1>11 DEF MailParts

(* mailbox_create locks it.                                                 *)
LEMMA LockhdrMail ==
  ASSUME TypeInv, MailParts, NEW p \in Procs, lockhdr(p)
  PROVE  MailParts'
<1>0. Typed /\ JobsOK BY TypeInvTyped DEF TypeInv
<1>1. PICK l \in {"mkindex", "undo"} :
        /\ Moves(p, l)
        /\ l = "mkindex" => /\ hdr[target(job[p])] # NoFile /\ hlock[target(job[p])] \in {NoProc, p}
                            /\ hlock' = [hlock EXCEPT ![target(job[p])] = p]
        /\ l = "undo" => hlock' = hlock
        /\ UNCHANGED <<db, hdr, idx, mail, dropped>>
  BY <1>0, GotoMoves, UndoMoves DEF lockhdr, lists, files, history, Pcs, CreatePcs, RenamePcs,
     DeletePcs, SetaclPcs, FreeFor
<1>2. Others(p) /\ Same(p) BY <1>1, MovesSame
<1>3. /\ Owner(job'[p]) => Owner(job[p])
      /\ Fills(job'[p]) => Fills(job[p])
      /\ HoldsOld(job'[p]) => HoldsOld(job[p])
      /\ HoldsNew(job'[p]) => l = "mkindex"
      /\ Removes(job'[p]) => Removes(job[p])
      /\ HasLink(job'[p]) => HasLink(job[p])
      /\ Dropped(job'[p]) => Dropped(job[p])
  BY <1>0, <1>1 DEF lockhdr, At, Typed, Handler, Moves, Owner, OwnerPcs, Fills, PreIndexPcs,
     HoldsOld, HoldsNew, Removes, HasLink, Dropped, target, CreatePcs, RenamePcs, DeletePcs,
     SetaclPcs
<1> HIDE DEF Moves
<1>4. Owned' BY <1>0, <1>1, <1>2, <1>3 DEF MailParts, Others, Same, Typed, Owned
<1>5. Fresh' BY <1>0, <1>1, <1>2, <1>3 DEF MailParts, Others, Same, Typed, Fresh
<1>6. OldHeld' BY <1>0, <1>1, <1>2, <1>3 DEF MailParts, Others, Same, Typed, OldHeld, Held
<1>7. NewHeld' BY <1>0, <1>1, <1>2, <1>3 DEF MailParts, Others, Same, Typed, NewHeld, Held
<1>8. Removing' BY <1>0, <1>1, <1>2, <1>3 DEF MailParts, Others, Same, Typed, Removing
<1>9. Linked' BY <1>0, <1>1, <1>2, <1>3 DEF MailParts, Others, Same, Typed, Linked
<1>10. Retired' BY <1>0, <1>1, <1>2, <1>3 DEF MailParts, Others, Same, Typed, Retired
<1>11. Mailed' BY <1>1 DEF MailParts, Mailed
<1> QED BY <1>4, <1>5, <1>6, <1>7, <1>8, <1>9, <1>10, <1>11 DEF MailParts

(* The index file is made in a directory without one.                       *)
LEMMA MkindexMail ==
  ASSUME TypeInv, MailParts, NEW p \in Procs, mkindex(p)
  PROVE  MailParts'
<1>0. Typed /\ JobsOK BY TypeInvTyped DEF TypeInv
<1>1. PICK l \in {"link", "store", "undo"} :
        /\ Moves(p, l)
        /\ l = "link" <=> l # "undo" /\ job[p].op = "rename"
        /\ \A n \in Names : n # target(job[p]) => idx'[n] = idx[n] /\ hdr'[n] = hdr[n] /\ hlock'[n] = hlock[n]
        /\ hdr[target(job[p])] # NoFile => hdr'[target(job[p])] # NoFile
        /\ l = "link" => hlock' = hlock
        /\ mail \ {idx[target(job[p])]} \subseteq mail'
        /\ UNCHANGED <<db, dropped>>
  <2>1. target(job[p]) \in Names /\ job[p] \in Jobs BY <1>0 DEF Typed, JobsOK
  <2>2. CASE Goto(p, IF job[p].op = "rename" THEN "link" ELSE "store") /\ UNCHANGED faults
    <3>1. PICK l \in {"link", "store"} : Goto(p, l) /\ (l = "link" <=> job[p].op = "rename")
      BY <2>2
    <3>2. Moves(p, l) BY <3>1, <1>0, GotoMoves DEF Pcs, CreatePcs, RenamePcs, DeletePcs, SetaclPcs
    <3>3. job'[p].pc # "undo" BY <3>1, <3>2 DEF Moves
    <3>4. /\ idx' = [idx EXCEPT ![target(job[p])] = IF @ = 0 THEN ino + 1 ELSE @]
          /\ mail' = mail \ {idx[target(job[p])]}
          /\ hdr' = [hdr EXCEPT ![target(job[p])] = job[p].acl]
          /\ hlock' = IF job[p].op = "rename" THEN hlock ELSE Unlocked(p, target(job[p]))
          /\ UNCHANGED <<db, dropped>>
      <4>1. job' # [job EXCEPT ![p].pc = "undo", ![p].r = -1]
        BY <3>3, <1>0, UndoMoves DEF Moves
      <4> QED BY <4>1 DEF mkindex, lists, history
    <3>5. job[p].acl # NoFile BY <2>1 DEF Jobs, NoFile
    <3> QED BY <2>1, <3>1, <3>2, <3>4, <3>5, <1>0 DEF Typed, Unlocked
  <2>3. CASE job' = [job EXCEPT ![p].pc = "undo", ![p].r = -1]
    <3>1. Moves(p, "undo") BY <2>3, <1>0, UndoMoves
    <3>2. ASSUME NEW l \in {"link", "store"} PROVE ~Goto(p, l)
      <4>1. "undo" # l BY <3>2
      <4>2. Goto(p, l) => Moves(p, l) BY <3>2, <1>0, GotoMoves DEF Pcs, CreatePcs, RenamePcs
      <4> QED BY <4>1, <4>2, <3>1 DEF Moves
    <3>3. UNCHANGED files /\ hlock' = Unlocked(p, target(job[p])) /\ UNCHANGED <<db, dropped>>
      BY <3>2 DEF mkindex, lists, history
    <3> QED BY <2>1, <3>1, <3>3, <1>0 DEF Typed, Unlocked, files
  <2> QED BY <2>2, <2>3 DEF mkindex
<1>2. Others(p) /\ Same(p) BY <1>1, MovesSame
<1>3. /\ Owner(job'[p]) => Owner(job[p])
      /\ ~Fills(job'[p])
      /\ HoldsOld(job'[p]) => HoldsOld(job[p])
      /\ HoldsNew(job'[p]) => l = "link"
      /\ ~Removes(job'[p])
      /\ ~HasLink(job'[p])
      /\ Dropped(job'[p]) => Dropped(job[p])
      /\ Owner(job[p]) /\ HoldsNew(job[p]) /\ Fills(job[p])
      /\ HoldsOld(job[p]) => job[p].n # target(job[p])
      /\ \A q \in Procs : HasLink(job[q]) => HoldsNew(job[q]) /\ HoldsOld(job[q])
      /\ \A q \in Procs : Fills(job[q]) => Owner(job[q])
      /\ \A q \in Procs : HoldsNew(job[q]) => Owner(job[q])
  BY <1>0, <1>1 DEF mkindex, At, Typed, Handler, Moves, Owner, OwnerPcs, Fills, PreIndexPcs,
     HoldsOld, HoldsNew, Removes, HasLink, Dropped, target, CreatePcs, RenamePcs, DeletePcs,
     SetaclPcs
<1> HIDE DEF Moves
<1>4. Owned' BY <1>0, <1>1, <1>2, <1>3 DEF MailParts, Others, Same, Typed, Owned
<1>5. Fresh' BY <1>0, <1>1, <1>2, <1>3 DEF MailParts, Others, Same, Typed, Fresh, Owned
<1>6. OldHeld'
  BY <1>0, <1>1, <1>2, <1>3 DEF MailParts, Others, Same, Typed, OldHeld, NewHeld, Held
<1>7. NewHeld' BY <1>0, <1>1, <1>2, <1>3 DEF MailParts, Others, Same, Typed, NewHeld, Owned, Held
<1>8. Removing'
  BY <1>0, <1>1, <1>2, <1>3 DEF MailParts, Others, Same, Typed, Removing, NewHeld, Held
<1>9. Linked'
  BY <1>0, <1>1, <1>2, <1>3 DEF MailParts, Others, Same, Typed, Linked, OldHeld, NewHeld, Owned,
     Held
<1>10. Retired' BY <1>0, <1>1, <1>2, <1>3 DEF MailParts, Others, Same, Typed, Retired
<1>11. Mailed'
  <2> SUFFICES ASSUME NEW i \in 1..Cardinality(Occupied) \ dropped'
               PROVE  i \in mail' /\ \E n \in Names : db'[n].st = "active" /\ idx'[n] = i
    BY DEF Mailed
  <2>1. PICK n \in Names : db[n].st = "active" /\ idx[n] = i /\ i \in mail
    BY <1>1 DEF MailParts, Mailed
  <2>2. i \in mail'
    BY <1>1, <1>3, <2>1 DEF MailParts, Fresh
  <2>3. \E k \in Names : db'[k].st = "active" /\ idx'[k] = i
    BY <1>0, <1>1, <1>3, <2>1 DEF MailParts, Owned, Typed
  <2> QED BY <2>2, <2>3
<1> QED BY <1>4, <1>5, <1>6, <1>7, <1>8, <1>9, <1>10, <1>11 DEF MailParts

(* The old index file takes the place of the new one.                       *)
LEMMA LinkMail ==
  ASSUME TypeInv, MailParts, NEW p \in Procs, link(p)
  PROVE  MailParts'
<1>0. Typed /\ JobsOK BY TypeInvTyped DEF TypeInv
<1>1. PICK l \in {"copy", "undo"} :
        /\ Moves(p, l)
        /\ \A n \in Names : n # target(job[p]) => idx'[n] = idx[n] /\ hlock'[n] = hlock[n]
        /\ l = "copy" => hlock' = hlock /\ idx'[target(job[p])] = idx[job[p].n]
        /\ UNCHANGED <<db, hdr, mail, dropped>>
  <2>1. target(job[p]) \in Names BY <1>0 DEF Typed
  <2>2. CASE idx' = [idx EXCEPT ![target(job[p])] = idx[job[p].n]] /\ Goto(p, "copy") /\ UNCHANGED hlock
    <3>1. Moves(p, "copy")
      BY <2>2, <1>0, GotoMoves DEF Pcs, CreatePcs, RenamePcs, DeletePcs, SetaclPcs
    <3> QED BY <2>1, <2>2, <3>1, <1>0 DEF link, lists, history, Typed
  <2>3. CASE /\ idx' = [idx EXCEPT ![target(job[p])] = 0] /\ hlock' = Unlocked(p, target(job[p]))
             /\ job' = [job EXCEPT ![p].pc = "undo", ![p].r = -1]
    <3>1. Moves(p, "undo") BY <2>3, <1>0, UndoMoves
    <3> QED BY <2>1, <2>3, <3>1, <1>0 DEF link, lists, history, Typed, Unlocked
  <2> QED BY <2>2, <2>3 DEF link
<1>2. Others(p) /\ Same(p) BY <1>1, MovesSame
<1>3. /\ Owner(job'[p]) => Owner(job[p])
      /\ ~Fills(job'[p])
      /\ HoldsOld(job'[p]) => HoldsOld(job[p])
      /\ HoldsNew(job'[p]) => l = "copy"
      /\ ~Removes(job'[p])
      /\ HasLink(job'[p]) => l = "copy"
      /\ Dropped(job'[p]) => Dropped(job[p])
      /\ Owner(job[p]) /\ HoldsNew(job[p]) /\ HoldsOld(job[p])
      /\ job[p].n # target(job[p])
      /\ \A q \in Procs : HasLink(job[q]) => HoldsNew(job[q]) /\ HoldsOld(job[q])
      /\ \A q \in Procs : Fills(job[q]) => Owner(job[q])
      /\ \A q \in Procs : HoldsNew(job[q]) => Owner(job[q])
  BY <1>0, <1>1 DEF link, At, Typed, Handler, Moves, Owner, OwnerPcs, Fills, PreIndexPcs,
     HoldsOld, HoldsNew, Removes, HasLink, Dropped, target, CreatePcs, RenamePcs, DeletePcs,
     SetaclPcs
<1> HIDE DEF Moves
<1>4. Owned' BY <1>0, <1>1, <1>2, <1>3 DEF MailParts, Others, Same, Typed, Owned
<1>5. Fresh' BY <1>0, <1>1, <1>2, <1>3 DEF MailParts, Others, Same, Typed, Fresh, Owned
<1>6. OldHeld'
  BY <1>0, <1>1, <1>2, <1>3 DEF MailParts, Others, Same, Typed, OldHeld, NewHeld, Held
<1>7. NewHeld' BY <1>0, <1>1, <1>2, <1>3 DEF MailParts, Others, Same, Typed, NewHeld, Owned, Held
<1>8. Removing'
  BY <1>0, <1>1, <1>2, <1>3 DEF MailParts, Others, Same, Typed, Removing, NewHeld, Held
<1>9. Linked'
  BY <1>0, <1>1, <1>2, <1>3 DEF MailParts, Others, Same, Typed, Linked, OldHeld, NewHeld, Owned,
     Held
<1>10. Retired' BY <1>0, <1>1, <1>2, <1>3 DEF MailParts, Others, Same, Typed, Retired
<1>11. Mailed'
  <2> SUFFICES ASSUME NEW i \in 1..Cardinality(Occupied) \ dropped'
               PROVE  i \in mail' /\ \E n \in Names : db'[n].st = "active" /\ idx'[n] = i
    BY DEF Mailed
  <2>1. PICK n \in Names : db[n].st = "active" /\ idx[n] = i /\ i \in mail
    BY <1>1 DEF MailParts, Mailed
  <2>2. i \in mail'
    BY <1>1, <2>1
  <2>3. \E k \in Names : db'[k].st = "active" /\ idx'[k] = i
    BY <1>0, <1>1, <1>3, <2>1 DEF MailParts, Owned, Typed
  <2> QED BY <2>2, <2>3
<1> QED BY <1>4, <1>5, <1>6, <1>7, <1>8, <1>9, <1>10, <1>11 DEF MailParts

(* CREATE activates its own reservation.                                    *)
LEMMA StoreMail ==
  ASSUME TypeInv, MailParts, NEW p \in Procs, store(p)
  PROVE  MailParts'
<1>0. Typed /\ JobsOK BY TypeInvTyped DEF TypeInv
<1>1. PICK l \in {"activate"} :
        /\ Moves(p, l)
        /\ \E acl : db' = [db EXCEPT ![target(job[p])] = Active(acl)]
        /\ UNCHANGED <<hlock, hdr, idx, mail, dropped>>
  <2>1. Moves(p, "activate")
    BY <1>0, GotoMoves DEF store, Pcs, CreatePcs, RenamePcs, DeletePcs, SetaclPcs
  <2>2. target(job[p]) = job[p].n
    BY <1>0 DEF store, Typed, At, Handler, CreatePcs, RenamePcs, DeletePcs, SetaclPcs
  <2> QED BY <2>1, <2>2 DEF store, files, history
<1>2. Others(p) /\ Same(p) BY <1>1, MovesSame
<1>3. /\ ~Owner(job'[p])
      /\ Fills(job'[p]) => Fills(job[p])
      /\ HoldsOld(job'[p]) => HoldsOld(job[p])
      /\ HoldsNew(job'[p]) => HoldsNew(job[p])
      /\ Removes(job'[p]) => Removes(job[p])
      /\ HasLink(job'[p]) => HasLink(job[p])
      /\ ~Dropped(job'[p])
      /\ Owner(job[p])
  BY <1>0, <1>1 DEF store, At, Typed, Handler, Moves, Owner, OwnerPcs, Fills, PreIndexPcs,
     HoldsOld, HoldsNew, Removes, HasLink, Dropped, target, CreatePcs, RenamePcs, DeletePcs,
     SetaclPcs
<1> HIDE DEF Moves
<1>4. Owned' BY <1>0, <1>1, <1>2, <1>3 DEF MailParts, Others, Same, Typed, Owned, Active
<1>5. Fresh' BY <1>0, <1>1, <1>2, <1>3 DEF MailParts, Others, Same, Typed, Fresh
<1>6. OldHeld' BY <1>0, <1>1, <1>2, <1>3 DEF MailParts, Others, Same, Typed, OldHeld, Held
<1>7. NewHeld' BY <1>0, <1>1, <1>2, <1>3 DEF MailParts, Others, Same, Typed, NewHeld, Held
<1>8. Removing' BY <1>0, <1>1, <1>2, <1>3 DEF MailParts, Others, Same, Typed, Removing
<1>9. Linked' BY <1>0, <1>1, <1>2, <1>3 DEF MailParts, Others, Same, Typed, Linked
<1>10. Retired'
  BY <1>0, <1>1, <1>2, <1>3 DEF MailParts, Others, Same, Typed, Retired, Owned, Active
<1>11. Mailed'
  <2> SUFFICES ASSUME NEW i \in 1..Cardinality(Occupied) \ dropped'
               PROVE  i \in mail' /\ \E n \in Names : db'[n].st = "active" /\ idx'[n] = i
    BY DEF Mailed
  <2>1. PICK n \in Names : db[n].st = "active" /\ idx[n] = i /\ i \in mail
    BY <1>1 DEF MailParts, Mailed
  <2>2. i \in mail'
    BY <1>1, <2>1
  <2>3. \E k \in Names : db'[k].st = "active" /\ idx'[k] = i
    BY <1>0, <1>1, <2>1 DEF Typed, Active
  <2> QED BY <2>2, <2>3
<1> QED BY <1>4, <1>5, <1>6, <1>7, <1>8, <1>9, <1>10, <1>11 DEF MailParts

(* RENAME takes the old entry away and activates its own reservation.       *)
LEMMA RenameCommitMail ==
  ASSUME TypeInv, MailParts, NEW p \in Procs, rename_commit(p), Orderly'
  PROVE  MailParts'
<1>0. Typed /\ JobsOK BY TypeInvTyped DEF TypeInv
<1>1. PICK l \in {"activate", "undo"} :
        /\ Moves(p, l)
        /\ l = "undo" => db' = db
        /\ \A n \in Names : n # target(job[p]) => hlock'[n] = hlock[n]
        /\ l = "activate" => /\ hlock' = hlock /\ db'[job[p].n].st = "absent" /\ db'[target(job[p])].st = "active"
                             /\ db[job[p].n].st # "reserved"
                             /\ \A n \in Names \ {job[p].n, target(job[p])} : db'[n] = db[n]
        /\ UNCHANGED <<hdr, idx, mail, dropped>>
  <2>1. target(job[p]) = job[p].m /\ job[p].m \in Names /\ job[p].n \in Names /\ job[p].n # job[p].m
    BY <1>0 DEF rename_commit, Typed, target
  <2>2. CASE Goto(p, "activate") /\ db' = [db EXCEPT ![job[p].n] = Absent, ![job[p].m] = Active(job[p].acl)]
               /\ stale' = (stale \/ db[job[p].n].st = "reserved") /\ hlock' = hlock
    <3>1. Moves(p, "activate") BY <2>2, <1>0, GotoMoves DEF Pcs, CreatePcs
    <3>2. db[job[p].n].st # "reserved" BY <2>2 DEF Orderly
    <3>3. UNCHANGED <<hdr, idx, mail, dropped>> BY DEF rename_commit, files
    <3> QED BY <2>1, <2>2, <3>1, <3>2, <3>3, <1>0 DEF Typed, Absent, Active
  <2>3. CASE job' = [job EXCEPT ![p].pc = "undo", ![p].r = -1] /\ hlock' = Unlocked(p, job[p].m) /\ db' = db
    <3>1. Moves(p, "undo") BY <2>3, <1>0, UndoMoves
    <3>3. UNCHANGED <<hdr, idx, mail, dropped>> BY DEF rename_commit, files
    <3> QED BY <2>1, <2>3, <3>1, <3>3, <1>0 DEF Typed, Unlocked
  <2> QED BY <2>2, <2>3 DEF rename_commit
<1>2. Others(p) /\ Same(p) BY <1>1, MovesSame
<1>3. /\ Owner(job'[p]) => l = "undo"
      /\ ~Fills(job'[p])
      /\ HoldsOld(job'[p]) => HoldsOld(job[p])
      /\ ~HoldsNew(job'[p])
      /\ Removes(job'[p]) => Removes(job[p])
      /\ ~HasLink(job'[p])
      /\ Dropped(job'[p]) => l = "activate"
      /\ Owner(job[p]) /\ HoldsOld(job[p]) /\ HoldsNew(job[p]) /\ HasLink(job[p])
      /\ job[p].n # target(job[p])
      /\ HoldsOld(job'[p]) => l = "activate"
      /\ \A q \in Procs : HoldsNew(job[q]) => Owner(job[q])
  BY <1>0, <1>1 DEF rename_commit, At, Typed, Handler, Moves, Owner, OwnerPcs, Fills,
     PreIndexPcs, HoldsOld, HoldsNew, Removes, HasLink, Dropped, target, CreatePcs, RenamePcs,
     DeletePcs, SetaclPcs
<1> HIDE DEF Moves
<1>4. Owned' BY <1>0, <1>1, <1>2, <1>3 DEF MailParts, Others, Same, Typed, Owned
<1>5. Fresh' BY <1>0, <1>1, <1>2, <1>3 DEF MailParts, Others, Same, Typed, Fresh
<1>6. OldHeld'
  BY <1>0, <1>1, <1>2, <1>3 DEF MailParts, Others, Same, Typed, OldHeld, NewHeld, Held
<1>7. NewHeld' BY <1>0, <1>1, <1>2, <1>3 DEF MailParts, Others, Same, Typed, NewHeld, Owned, Held
<1>8. Removing'
  BY <1>0, <1>1, <1>2, <1>3 DEF MailParts, Others, Same, Typed, Removing, NewHeld, Held
<1>9. Linked' BY <1>0, <1>1, <1>2, <1>3 DEF MailParts, Others, Same, Typed, Linked
<1>10. Retired' BY <1>0, <1>1, <1>2, <1>3 DEF MailParts, Others, Same, Typed, Retired, Owned
<1>11. Mailed'
  <2> SUFFICES ASSUME NEW i \in 1..Cardinality(Occupied) \ dropped'
               PROVE  i \in mail' /\ \E n \in Names : db'[n].st = "active" /\ idx'[n] = i
    BY DEF Mailed
  <2>1. PICK n \in Names : db[n].st = "active" /\ idx[n] = i /\ i \in mail
    BY <1>1 DEF MailParts, Mailed
  <2>2. i \in mail'
    BY <1>1, <2>1
  <2>3. \E k \in Names : db'[k].st = "active" /\ idx'[k] = i
    <3>1. CASE n = job[p].n
      <4>1. idx[target(job[p])] = i BY <3>1, <2>1, <1>3 DEF MailParts, Linked
      <4>2. CASE l = "activate" BY <4>1, <4>2, <1>0, <1>1 DEF Typed
      <4>3. CASE l = "undo" BY <4>3, <1>1, <2>1
      <4> QED BY <4>2, <4>3
    <3>2. CASE n # job[p].n
      BY <3>2, <1>0, <1>1, <1>3, <2>1 DEF MailParts, Owned, Typed
    <3> QED BY <3>1, <3>2
  <2> QED BY <2>2, <2>3
<1> QED BY <1>4, <1>5, <1>6, <1>7, <1>8, <1>9, <1>10, <1>11 DEF MailParts

(* RENAME closes the new mailbox and turns to the old one.                  *)
LEMMA CleanupMail ==
  ASSUME TypeInv, MailParts, NEW p \in Procs, rename_cleanup(p)
  PROVE  MailParts'
<1>0. Typed /\ JobsOK BY TypeInvTyped DEF TypeInv
<1>1. PICK l \in {"rm", "idle"} :
        /\ Moves(p, l)
        /\ l = "rm" => hlock[job[p].n] = p
        /\ \A n \in Names : n # target(job[p]) => hlock'[n] = hlock[n]
        /\ \A n \in Names : hlock'[n] # hlock[n] => hlock[n] = p /\ hlock'[n] = NoProc
        /\ UNCHANGED <<db, hdr, idx, mail, dropped>>
  <2>1. target(job[p]) = job[p].m
    BY <1>0 DEF rename_cleanup, Typed, At, Handler, target, CreatePcs, RenamePcs, DeletePcs,
       SetaclPcs
  <2>2. job[p].m \in Names BY <1>0, <2>1 DEF Typed
  <2>3. PICK l \in {"rm", "idle"} : Goto(p, l) /\ (l = "rm" => hlock[job[p].n] = p)
    BY DEF rename_cleanup
  <2>4. Moves(p, l) BY <2>3, <1>0, GotoMoves DEF Pcs, CreatePcs, RenamePcs, DeletePcs, SetaclPcs
  <2> QED BY <2>1, <2>2, <2>3, <2>4, <1>0 DEF rename_cleanup, lists, files, history, Typed,
      Unlocked
<1>2. Others(p) /\ Same(p) BY <1>1, MovesSame
<1>3. /\ Owner(job'[p]) => Owner(job[p])
      /\ Fills(job'[p]) => Fills(job[p])
      /\ ~HoldsOld(job'[p])
      /\ ~HoldsNew(job'[p])
      /\ Removes(job'[p]) => l = "rm"
      /\ HasLink(job'[p]) => HasLink(job[p])
      /\ Dropped(job'[p]) => Dropped(job[p])
      /\ job[p].n # target(job[p])
      /\ ~Removes(job[p])
  BY <1>0, <1>1 DEF rename_cleanup, At, Typed, Handler, Moves, Owner, OwnerPcs, Fills,
     PreIndexPcs, HoldsOld, HoldsNew, Removes, HasLink, Dropped, target, CreatePcs, RenamePcs,
     DeletePcs, SetaclPcs
<1> HIDE DEF Moves
<1>4. Owned' BY <1>0, <1>1, <1>2, <1>3 DEF MailParts, Others, Same, Typed, Owned
<1>5. Fresh' BY <1>0, <1>1, <1>2, <1>3 DEF MailParts, Others, Same, Typed, Fresh
<1>6. OldHeld' BY <1>0, <1>1, <1>2, <1>3 DEF MailParts, Others, Same, Typed, OldHeld, Held
<1>7. NewHeld' BY <1>0, <1>1, <1>2, <1>3 DEF MailParts, Others, Same, Typed, NewHeld, Held
<1>8. Removing' BY <1>0, <1>1, <1>2, <1>3 DEF MailParts, Others, Same, Typed, Removing
<1>9. Linked' BY <1>0, <1>1, <1>2, <1>3 DEF MailParts, Others, Same, Typed, Linked
<1>10. Retired' BY <1>0, <1>1, <1>2, <1>3 DEF MailParts, Others, Same, Typed, Retired
<1>11. Mailed' BY <1>1 DEF MailParts, Mailed
<1> QED BY <1>4, <1>5, <1>6, <1>7, <1>8, <1>9, <1>10, <1>11 DEF MailParts

(* The files of a name that is out of the list go.                          *)
LEMMA RmMail ==
  ASSUME TypeInv, MailParts, NEW p \in Procs, mailbox_delete(p)
  PROVE  MailParts'
<1>0. Typed /\ JobsOK BY TypeInvTyped DEF TypeInv
<1>1. PICK l \in {"rm", "idle"} :
        /\ Moves(p, l)
        /\ \A n \in Names : n # job[p].n => hlock'[n] = hlock[n] /\ hdr'[n] = hdr[n] /\ idx'[n] = idx[n]
        /\ idx'[job[p].n] \in {idx[job[p].n], 0}
        /\ \/ hlock' = hlock /\ hdr' = hdr
           \/ hdr[job[p].n] # NoFile /\ hdr'[job[p].n] = NoFile /\ hlock'[job[p].n] = NoProc
        /\ UNCHANGED <<db, mail, dropped>>
  <2>1. job[p].n \in Names BY <1>0 DEF Typed
  <2>2. PICK l \in {"rm", "idle"} : Moves(p, l)
    BY <1>0, GotoMoves DEF mailbox_delete, Pcs, CreatePcs, Moves, At
  <2> QED BY <2>1, <2>2, <1>0 DEF mailbox_delete, lists, history, Typed
<1>2. Others(p) /\ Same(p) BY <1>1, MovesSame
<1>3. /\ ~Owner(job'[p])
      /\ ~Fills(job'[p])
      /\ ~HoldsOld(job'[p])
      /\ ~HoldsNew(job'[p])
      /\ Removes(job'[p]) => Removes(job[p])
      /\ ~HasLink(job'[p])
      /\ Dropped(job'[p]) => Dropped(job[p])
      /\ Removes(job[p]) /\ Dropped(job[p])
      /\ \A q \in Procs : HasLink(job[q]) => HoldsNew(job[q]) /\ HoldsOld(job[q])
  BY <1>0, <1>1 DEF mailbox_delete, At, Typed, Handler, Moves, Owner, OwnerPcs, Fills,
     PreIndexPcs, HoldsOld, HoldsNew, Removes, HasLink, Dropped, target, CreatePcs, RenamePcs,
     DeletePcs, SetaclPcs
<1> HIDE DEF Moves
<1>4. Owned' BY <1>0, <1>1, <1>2, <1>3 DEF MailParts, Others, Same, Typed, Owned
<1>5. Fresh' BY <1>0, <1>1, <1>2, <1>3 DEF MailParts, Others, Same, Typed, Fresh
<1>6. OldHeld'
  BY <1>0, <1>1, <1>2, <1>3 DEF MailParts, Others, Same, Typed, OldHeld, Removing, Held
<1>7. NewHeld'
  BY <1>0, <1>1, <1>2, <1>3 DEF MailParts, Others, Same, Typed, NewHeld, Removing, Held
<1>8. Removing' BY <1>0, <1>1, <1>2, <1>3 DEF MailParts, Others, Same, Typed, Removing
<1>9. Linked'
  BY <1>0, <1>1, <1>2, <1>3 DEF MailParts, Others, Same, Typed, Linked, OldHeld, NewHeld,
     Removing, Held
<1>10. Retired' BY <1>0, <1>1, <1>2, <1>3 DEF MailParts, Others, Same, Typed, Retired
<1>11. Mailed'
  <2> SUFFICES ASSUME NEW i \in 1..Cardinality(Occupied) \ dropped'
               PROVE  i \in mail' /\ \E n \in Names : db'[n].st = "active" /\ idx'[n] = i
    BY DEF Mailed
  <2>1. PICK n \in Names : db[n].st = "active" /\ idx[n] = i /\ i \in mail
    BY <1>1 DEF MailParts, Mailed
  <2>2. i \in mail'
    BY <1>1, <2>1
  <2>3. \E k \in Names : db'[k].st = "active" /\ idx'[k] = i
    BY <1>0, <1>1, <1>3, <2>1 DEF MailParts, Retired, Typed
  <2> QED BY <2>2, <2>3
<1> QED BY <1>4, <1>5, <1>6, <1>7, <1>8, <1>9, <1>10, <1>11 DEF MailParts

(* A reservation is taken back by the request that made it.                 *)
LEMMA UndoMail ==
  ASSUME TypeInv, MailParts, NEW p \in Procs, undo(p)
  PROVE  MailParts'
<1>0. Typed /\ JobsOK BY TypeInvTyped DEF TypeInv
<1>1. PICK l \in {"unreserve", "close"} :
        /\ Moves(p, l)
        /\ \A n \in Names : n # target(job[p]) => db'[n] = db[n]
        /\ db'[target(job[p])].st = "absent" \/ db' = db
        /\ UNCHANGED <<hlock, hdr, idx, mail, dropped>>
  <2>1. PICK l \in {"unreserve", "close"} : Moves(p, l)
    BY <1>0, GotoMoves DEF undo, Pcs, CreatePcs, RenamePcs, DeletePcs, SetaclPcs
  <2> QED BY <2>1, <1>0 DEF undo, files, history, Typed, Absent
<1>2. Others(p) /\ Same(p) BY <1>1, MovesSame
<1>3. /\ ~Owner(job'[p])
      /\ Fills(job'[p]) => Fills(job[p])
      /\ HoldsOld(job'[p]) => HoldsOld(job[p])
      /\ HoldsNew(job'[p]) => HoldsNew(job[p])
      /\ Removes(job'[p]) => Removes(job[p])
      /\ HasLink(job'[p]) => HasLink(job[p])
      /\ ~Dropped(job'[p])
      /\ Owner(job[p])
  BY <1>0, <1>1 DEF undo, At, Typed, Handler, Moves, Owner, OwnerPcs, Fills, PreIndexPcs,
     HoldsOld, HoldsNew, Removes, HasLink, Dropped, target, CreatePcs, RenamePcs, DeletePcs,
     SetaclPcs
<1> HIDE DEF Moves
<1>4. Owned' BY <1>0, <1>1, <1>2, <1>3 DEF MailParts, Others, Same, Typed, Owned
<1>5. Fresh' BY <1>0, <1>1, <1>2, <1>3 DEF MailParts, Others, Same, Typed, Fresh
<1>6. OldHeld' BY <1>0, <1>1, <1>2, <1>3 DEF MailParts, Others, Same, Typed, OldHeld, Held
<1>7. NewHeld' BY <1>0, <1>1, <1>2, <1>3 DEF MailParts, Others, Same, Typed, NewHeld, Held
<1>8. Removing' BY <1>0, <1>1, <1>2, <1>3 DEF MailParts, Others, Same, Typed, Removing
<1>9. Linked' BY <1>0, <1>1, <1>2, <1>3 DEF MailParts, Others, Same, Typed, Linked
<1>10. Retired' BY <1>0, <1>1, <1>2, <1>3 DEF MailParts, Others, Same, Typed, Retired
<1>11. Mailed'
  <2> SUFFICES ASSUME NEW i \in 1..Cardinality(Occupied) \ dropped'
               PROVE  i \in mail' /\ \E n \in Names : db'[n].st = "active" /\ idx'[n] = i
    BY DEF Mailed
  <2>1. PICK n \in Names : db[n].st = "active" /\ idx[n] = i /\ i \in mail
    BY <1>1 DEF MailParts, Mailed
  <2>2. i \in mail'
    BY <1>1, <2>1
  <2>3. \E k \in Names : db'[k].st = "active" /\ idx'[k] = i
    BY <1>0, <1>1, <1>3, <2>1 DEF MailParts, Owned, Typed
  <2> QED BY <2>2, <2>3
<1> QED BY <1>4, <1>5, <1>6, <1>7, <1>8, <1>9, <1>10, <1>11 DEF MailParts

(* The mailboxes that are open are closed.                                  *)
LEMMA CloseMail ==
  ASSUME TypeInv, MailParts, NEW p \in Procs, close(p)
  PROVE  MailParts'
<1>0. Typed /\ JobsOK BY TypeInvTyped DEF TypeInv
<1>1. PICK l \in {"idle"} :
        /\ Moves(p, l)
        /\ \A n \in Names : hlock'[n] # hlock[n] => hlock[n] = p /\ hlock'[n] = NoProc
        /\ UNCHANGED <<db, hdr, idx, mail, dropped>>
  BY <1>0, GotoMoves, UndoMoves DEF close, lists, files, history, Pcs, CreatePcs, RenamePcs,
     DeletePcs, SetaclPcs
<1>2. Others(p) /\ Same(p) BY <1>1, MovesSame
<1>3. /\ Owner(job'[p]) => Owner(job[p])
      /\ Fills(job'[p]) => Fills(job[p])
      /\ ~HoldsOld(job'[p])
      /\ ~HoldsNew(job'[p])
      /\ ~Removes(job'[p])
      /\ HasLink(job'[p]) => HasLink(job[p])
      /\ Dropped(job'[p]) => Dropped(job[p])
      /\ ~Removes(job[p])
  BY <1>0, <1>1 DEF close, At, Typed, Handler, Moves, Owner, OwnerPcs, Fills, PreIndexPcs,
     HoldsOld, HoldsNew, Removes, HasLink, Dropped, target, CreatePcs, RenamePcs, DeletePcs,
     SetaclPcs
<1> HIDE DEF Moves
<1>4. Owned' BY <1>0, <1>1, <1>2, <1>3 DEF MailParts, Others, Same, Typed, Owned
<1>5. Fresh' BY <1>0, <1>1, <1>2, <1>3 DEF MailParts, Others, Same, Typed, Fresh
<1>6. OldHeld' BY <1>0, <1>1, <1>2, <1>3 DEF MailParts, Others, Same, Typed, OldHeld, Held
<1>7. NewHeld' BY <1>0, <1>1, <1>2, <1>3 DEF MailParts, Others, Same, Typed, NewHeld, Held
<1>8. Removing' BY <1>0, <1>1, <1>2, <1>3 DEF MailParts, Others, Same, Typed, Removing
<1>9. Linked' BY <1>0, <1>1, <1>2, <1>3 DEF MailParts, Others, Same, Typed, Linked
<1>10. Retired' BY <1>0, <1>1, <1>2, <1>3 DEF MailParts, Others, Same, Typed, Retired
<1>11. Mailed' BY <1>1 DEF MailParts, Mailed
<1> QED BY <1>4, <1>5, <1>6, <1>7, <1>8, <1>9, <1>10, <1>11 DEF MailParts

(* DELETE and SETACL lock the mailbox.                                      *)
LEMMA LockboxMail ==
  ASSUME TypeInv, MailParts, NEW p \in Procs, lockbox(p)
  PROVE  MailParts'
<1>0. Typed /\ JobsOK BY TypeInvTyped DEF TypeInv
<1>1. PICK l \in {"idle", "commit", "relook"} :
        /\ Moves(p, l)
        /\ l = "idle" => hlock' = hlock
        /\ l # "idle" => /\ hdr[job[p].n] # NoFile /\ hlock[job[p].n] \in {NoProc, p}
                         /\ hlock' = [hlock EXCEPT ![job[p].n] = p]
        /\ l = "commit" <=> l # "idle" /\ job[p].op = "delete"
        /\ UNCHANGED <<db, hdr, idx, mail, dropped>>
  BY <1>0, GotoMoves, UndoMoves DEF lockbox, lists, files, history, Pcs, CreatePcs, RenamePcs,
     DeletePcs, SetaclPcs, FreeFor
<1>2. Others(p) /\ Same(p) BY <1>1, MovesSame
<1>3. /\ Owner(job'[p]) => Owner(job[p])
      /\ Fills(job'[p]) => Fills(job[p])
      /\ HoldsOld(job'[p]) => l # "idle"
      /\ ~HoldsNew(job'[p])
      /\ Removes(job'[p]) => Removes(job[p])
      /\ HasLink(job'[p]) => HasLink(job[p])
      /\ Dropped(job'[p]) => Dropped(job[p])
  BY <1>0, <1>1 DEF lockbox, At, Typed, Handler, Moves, Owner, OwnerPcs, Fills, PreIndexPcs,
     HoldsOld, HoldsNew, Removes, HasLink, Dropped, target, CreatePcs, RenamePcs, DeletePcs,
     SetaclPcs
<1> HIDE DEF Moves
<1>4. Owned' BY <1>0, <1>1, <1>2, <1>3 DEF MailParts, Others, Same, Typed, Owned
<1>5. Fresh' BY <1>0, <1>1, <1>2, <1>3 DEF MailParts, Others, Same, Typed, Fresh
<1>6. OldHeld' BY <1>0, <1>1, <1>2, <1>3 DEF MailParts, Others, Same, Typed, OldHeld, Held
<1>7. NewHeld' BY <1>0, <1>1, <1>2, <1>3 DEF MailParts, Others, Same, Typed, NewHeld, Held
<1>8. Removing' BY <1>0, <1>1, <1>2, <1>3 DEF MailParts, Others, Same, Typed, Removing
<1>9. Linked' BY <1>0, <1>1, <1>2, <1>3 DEF MailParts, Others, Same, Typed, Linked
<1>10. Retired' BY <1>0, <1>1, <1>2, <1>3 DEF MailParts, Others, Same, Typed, Retired
<1>11. Mailed' BY <1>1 DEF MailParts, Mailed
<1> QED BY <1>4, <1>5, <1>6, <1>7, <1>8, <1>9, <1>10, <1>11 DEF MailParts

(* DELETE takes an active entry away, and its mail is deleted mail.         *)
LEMMA DeleteCommitMail ==
  ASSUME TypeInv, MailParts, NEW p \in Procs, delete_commit(p)
  PROVE  MailParts'
<1>0. Typed /\ JobsOK BY TypeInvTyped DEF TypeInv
<1>1. PICK l \in {"mdelete"} :
        /\ Moves(p, l)
        /\ \A n \in Names : n # job[p].n => db'[n] = db[n]
        /\ db'[job[p].n].st = "absent"
        /\ db[job[p].n].st = "active"
        /\ dropped' = dropped \cup {idx[job[p].n]}
        /\ UNCHANGED <<hlock, hdr, idx, mail>>
  <2>1. Moves(p, "mdelete")
    BY <1>0, GotoMoves DEF delete_commit, Pcs, CreatePcs, RenamePcs, DeletePcs, SetaclPcs
  <2>2. db[job[p].n].st = "active"
    BY DEF TypeInv, EntrySeen, InTransaction, delete_commit, At
  <2> QED BY <2>1, <2>2, <1>0 DEF delete_commit, files, Typed, Absent
<1>2. Others(p) /\ Same(p) BY <1>1, MovesSame
<1>3. /\ Owner(job'[p]) => Owner(job[p])
      /\ Fills(job'[p]) => Fills(job[p])
      /\ HoldsOld(job'[p]) => HoldsOld(job[p])
      /\ HoldsNew(job'[p]) => HoldsNew(job[p])
      /\ Removes(job'[p]) => Removes(job[p])
      /\ HasLink(job'[p]) => HasLink(job[p])
      /\ ~Owner(job'[p])
      /\ HoldsOld(job[p])
  BY <1>0, <1>1 DEF delete_commit, At, Typed, Handler, Moves, Owner, OwnerPcs, Fills,
     PreIndexPcs, HoldsOld, HoldsNew, Removes, HasLink, Dropped, target, CreatePcs, RenamePcs,
     DeletePcs, SetaclPcs
<1> HIDE DEF Moves
<1>4. Owned' BY <1>0, <1>1, <1>2, <1>3 DEF MailParts, Others, Same, Typed, Owned
<1>5. Fresh' BY <1>0, <1>1, <1>2, <1>3 DEF MailParts, Others, Same, Typed, Fresh
<1>6. OldHeld' BY <1>0, <1>1, <1>2, <1>3 DEF MailParts, Others, Same, Typed, OldHeld, Held
<1>7. NewHeld' BY <1>0, <1>1, <1>2, <1>3 DEF MailParts, Others, Same, Typed, NewHeld, Held
<1>8. Removing' BY <1>0, <1>1, <1>2, <1>3 DEF MailParts, Others, Same, Typed, Removing
<1>9. Linked' BY <1>0, <1>1, <1>2, <1>3 DEF MailParts, Others, Same, Typed, Linked
<1>10. Retired' BY <1>0, <1>1, <1>2, <1>3 DEF MailParts, Others, Same, Typed, Retired, Owned
<1>11. Mailed'
  <2> SUFFICES ASSUME NEW i \in 1..Cardinality(Occupied) \ dropped'
               PROVE  i \in mail' /\ \E n \in Names : db'[n].st = "active" /\ idx'[n] = i
    BY DEF Mailed
  <2>1. PICK n \in Names : db[n].st = "active" /\ idx[n] = i /\ i \in mail
    BY <1>1 DEF MailParts, Mailed
  <2>2. i \in mail'
    BY <1>1, <2>1
  <2>3. \E k \in Names : db'[k].st = "active" /\ idx'[k] = i
    BY <1>0, <1>1, <2>1 DEF Typed
  <2> QED BY <2>2, <2>3
<1> QED BY <1>4, <1>5, <1>6, <1>7, <1>8, <1>9, <1>10, <1>11 DEF MailParts

(* SETACL writes the header file it has locked.                             *)
LEMMA HeaderMail ==
  ASSUME TypeInv, MailParts, NEW p \in Procs, write_header(p)
  PROVE  MailParts'
<1>0. Typed /\ JobsOK BY TypeInvTyped DEF TypeInv
<1>1. PICK l \in {"commit"} :
        /\ Moves(p, l)
        /\ \A n \in Names : n # job[p].n => hdr'[n] = hdr[n]
        /\ hdr'[job[p].n] # NoFile
        /\ UNCHANGED <<db, hlock, idx, mail, dropped>>
  <2>1. Moves(p, "commit")
    BY <1>0, GotoMoves DEF write_header, Pcs, CreatePcs, RenamePcs, DeletePcs, SetaclPcs
  <2>2. job[p].acl # NoFile /\ job[p].n \in Names BY <1>0 DEF Typed, JobsOK, Jobs, NoFile
  <2> QED BY <2>1, <2>2, <1>0 DEF write_header, lists, history, Typed
<1>2. Others(p) /\ Same(p) BY <1>1, MovesSame
<1>3. /\ ~Owner(job'[p])
      /\ Fills(job'[p]) => Fills(job[p])
      /\ ~HoldsOld(job'[p])
      /\ ~HoldsNew(job'[p])
      /\ Removes(job'[p]) => Removes(job[p])
      /\ ~HasLink(job'[p])
      /\ Dropped(job'[p]) => Dropped(job[p])
      /\ HoldsOld(job[p])
      /\ ~Removes(job[p])
  BY <1>0, <1>1 DEF write_header, At, Typed, Handler, Moves, Owner, OwnerPcs, Fills,
     PreIndexPcs, HoldsOld, HoldsNew, Removes, HasLink, Dropped, target, CreatePcs, RenamePcs,
     DeletePcs, SetaclPcs
<1> HIDE DEF Moves
<1>4. Owned' BY <1>0, <1>1, <1>2, <1>3 DEF MailParts, Others, Same, Typed, Owned
<1>5. Fresh' BY <1>0, <1>1, <1>2, <1>3 DEF MailParts, Others, Same, Typed, Fresh
<1>6. OldHeld' BY <1>0, <1>1, <1>2, <1>3 DEF MailParts, Others, Same, Typed, OldHeld, Held
<1>7. NewHeld' BY <1>0, <1>1, <1>2, <1>3 DEF MailParts, Others, Same, Typed, NewHeld, Held
<1>8. Removing'
  BY <1>0, <1>1, <1>2, <1>3 DEF MailParts, Others, Same, Typed, Removing, OldHeld, Held
<1>9. Linked' BY <1>0, <1>1, <1>2, <1>3 DEF MailParts, Others, Same, Typed, Linked
<1>10. Retired' BY <1>0, <1>1, <1>2, <1>3 DEF MailParts, Others, Same, Typed, Retired
<1>11. Mailed' BY <1>1 DEF MailParts, Mailed
<1> QED BY <1>4, <1>5, <1>6, <1>7, <1>8, <1>9, <1>10, <1>11 DEF MailParts

(* SETACL changes the ACL of an entry and nothing else of it.               *)
LEMMA SetaclCommitMail ==
  ASSUME TypeInv, MailParts, NEW p \in Procs, setacl_commit(p)
  PROVE  MailParts'
<1>0. Typed /\ JobsOK BY TypeInvTyped DEF TypeInv
<1>1. PICK l \in {"activate"} :
        /\ Moves(p, l)
        /\ \A n \in Names : db'[n].st = db[n].st
        /\ UNCHANGED <<hlock, hdr, idx, mail, dropped>>
  <2>1. Moves(p, "activate")
    BY <1>0, GotoMoves DEF setacl_commit, Pcs, CreatePcs, RenamePcs, DeletePcs, SetaclPcs
  <2>2. \A n \in Names : db[n] \in [st : {"absent", "reserved", "active"}, acl : Int]
    BY <1>0, EntryRecords DEF Typed
  <2> QED BY <2>1, <2>2, <1>0 DEF setacl_commit, files, history, Typed
<1>2. Others(p) /\ Same(p) BY <1>1, MovesSame
<1>3. /\ Owner(job'[p]) => Owner(job[p])
      /\ Fills(job'[p]) => Fills(job[p])
      /\ HoldsOld(job'[p]) => HoldsOld(job[p])
      /\ HoldsNew(job'[p]) => HoldsNew(job[p])
      /\ Removes(job'[p]) => Removes(job[p])
      /\ HasLink(job'[p]) => HasLink(job[p])
      /\ Dropped(job'[p]) => Dropped(job[p])
  BY <1>0, <1>1 DEF setacl_commit, At, Typed, Handler, Moves, Owner, OwnerPcs, Fills,
     PreIndexPcs, HoldsOld, HoldsNew, Removes, HasLink, Dropped, target, CreatePcs, RenamePcs,
     DeletePcs, SetaclPcs
<1> HIDE DEF Moves
<1>4. Owned' BY <1>0, <1>1, <1>2, <1>3 DEF MailParts, Others, Same, Typed, Owned
<1>5. Fresh' BY <1>0, <1>1, <1>2, <1>3 DEF MailParts, Others, Same, Typed, Fresh
<1>6. OldHeld' BY <1>0, <1>1, <1>2, <1>3 DEF MailParts, Others, Same, Typed, OldHeld, Held
<1>7. NewHeld' BY <1>0, <1>1, <1>2, <1>3 DEF MailParts, Others, Same, Typed, NewHeld, Held
<1>8. Removing' BY <1>0, <1>1, <1>2, <1>3 DEF MailParts, Others, Same, Typed, Removing
<1>9. Linked' BY <1>0, <1>1, <1>2, <1>3 DEF MailParts, Others, Same, Typed, Linked
<1>10. Retired' BY <1>0, <1>1, <1>2, <1>3 DEF MailParts, Others, Same, Typed, Retired
<1>11. Mailed'
  <2> SUFFICES ASSUME NEW i \in 1..Cardinality(Occupied) \ dropped'
               PROVE  i \in mail' /\ \E n \in Names : db'[n].st = "active" /\ idx'[n] = i
    BY DEF Mailed
  <2>1. PICK n \in Names : db[n].st = "active" /\ idx[n] = i /\ i \in mail
    BY <1>1 DEF MailParts, Mailed
  <2>2. i \in mail'
    BY <1>1, <2>1
  <2>3. \E k \in Names : db'[k].st = "active" /\ idx'[k] = i
    BY <1>1, <2>1
  <2> QED BY <2>2, <2>3
<1> QED BY <1>4, <1>5, <1>6, <1>7, <1>8, <1>9, <1>10, <1>11 DEF MailParts

(* A process that ends works on nothing, and holds nothing.                *)
LEMMA GoneMail ==
  ASSUME TypeInv, MailParts, NEW p \in Procs, Exit(p) \/ Kill(p)
  PROVE  MailParts'
<1>0. Typed /\ JobsOK BY TypeInvTyped DEF TypeInv
<1>1. /\ Others(p) /\ job'[p].pc = "idle"
      /\ \A n \in Names : hlock'[n] # hlock[n] => hlock[n] = p /\ hlock'[n] = NoProc
      /\ UNCHANGED <<db, hdr, idx, mail, dropped>>
  <2>1. /\ \A n \in Names : hlock'[n] # hlock[n] => hlock[n] = p /\ hlock'[n] = NoProc
        /\ UNCHANGED <<db, hdr, idx, mail, dropped>>
    BY <1>0 DEF Exit, Kill, Gone, lists, files, history, Typed
  <2>2. CASE Exit(p) BY <2>1, <2>2 DEF Exit, At, Others
  <2>3. CASE Kill(p) BY <2>1, <2>3, <1>0, GotoMoves DEF Kill, Moves, Others, Pcs, CreatePcs
  <2> QED BY <2>2, <2>3
<1>2. /\ ~Owner(job'[p]) /\ ~Fills(job'[p]) /\ ~HoldsOld(job'[p]) /\ ~HoldsNew(job'[p])
      /\ ~Removes(job'[p]) /\ ~HasLink(job'[p]) /\ ~Dropped(job'[p])
  BY <1>1 DEF Owner, OwnerPcs, Fills, PreIndexPcs, HoldsOld, HoldsNew, Removes, HasLink, Dropped
<1> USE DEF Others, MailParts
<1>3. Owned' BY <1>1, <1>2 DEF Owned
<1>4. Fresh' BY <1>1, <1>2 DEF Fresh
<1>5. OldHeld' BY <1>0, <1>1, <1>2 DEF OldHeld, Held, Typed
<1>6. NewHeld' BY <1>0, <1>1, <1>2 DEF NewHeld, Held, Typed
<1>7. Removing' BY <1>0, <1>1, <1>2 DEF Removing, Typed
<1>8. Linked' BY <1>1, <1>2 DEF Linked
<1>9. Retired' BY <1>1, <1>2 DEF Retired
<1>10. Mailed' BY <1>1 DEF Mailed
<1> QED BY <1>3, <1>4, <1>5, <1>6, <1>7, <1>8, <1>9, <1>10

(* A request that arrives has done nothing yet.                            *)
LEMMA RequestMail ==
  ASSUME TypeInv, MailParts, NEW p \in Procs, NEW n \in Names, NEW m \in Names,
         NEW op \in {"create", "delete", "rename", "setacl"}, Request(p, op, n, m)
  PROVE  MailParts'
<1>1. Others(p) /\ job'[p].pc \in {"check", "lookup"}
  <2> DEFINE l == IF op \in {"create", "rename"} THEN "check" ELSE "lookup"
             a == IF op = "setacl" THEN ops + 1 ELSE 0
             new == [IdleJob(n) EXCEPT !.op = op, !.m = m, !.pc = l, !.acl = a]
  <2>1. job' = [job EXCEPT ![p] = new] BY DEF Request
  <2>2. new.pc \in {"check", "lookup"}
    <3>1. l \in {"check", "lookup"} OBVIOUS
    <3> HIDE DEF l, a
    <3> QED BY <3>1 DEF IdleJob
  <2> HIDE DEF new
  <2> QED BY <2>1, <2>2 DEF Others, TypeInv, JobsOK
<1>2. UNCHANGED <<db, hlock, hdr, idx, mail, dropped>> BY DEF Request, lists, files
<1>3. /\ ~Owner(job'[p]) /\ ~Fills(job'[p]) /\ ~HoldsOld(job'[p]) /\ ~HoldsNew(job'[p])
      /\ ~Removes(job'[p]) /\ ~HasLink(job'[p]) /\ ~Dropped(job'[p])
  BY <1>1 DEF Owner, OwnerPcs, Fills, PreIndexPcs, HoldsOld, HoldsNew, Removes, HasLink, Dropped
<1> QED BY <1>1, <1>2, <1>3, Quiet

(* At the start nobody has a request, and the mailboxes with mail are      *)
(* active, each with the index file that has its number.                   *)
LEMMA MailInit == Init => MailInv
<1> SUFFICES ASSUME Init PROVE MailParts
  BY DEF MailInv
<1>1. \A p \in Procs : /\ ~Owner(job[p]) /\ ~Fills(job[p]) /\ ~HoldsOld(job[p]) /\ ~HoldsNew(job[p])
                       /\ ~Removes(job[p]) /\ ~HasLink(job[p]) /\ ~Dropped(job[p])
  <2>1. \A p \in Procs : job[p].pc = "idle" BY DEF Init, IdleJob
  <2> QED BY <2>1 DEF Owner, OwnerPcs, Fills, PreIndexPcs, HoldsOld, HoldsNew, Removes, HasLink,
                      Dropped
<1>2. Owned /\ Fresh /\ OldHeld /\ NewHeld /\ Removing /\ Linked /\ Retired
  BY <1>1 DEF Owned, Fresh, OldHeld, NewHeld, Removing, Linked, Retired
<1>3. Mailed
  <2>1. PICK number \in [Occupied -> 1..Cardinality(Occupied)] :
          /\ \A n, k \in Occupied : number[n] = number[k] => n = k
          /\ idx = [n \in Names |-> IF n \in Occupied THEN number[n] ELSE 0]
    BY DEF Init
  <2>2. Cardinality(Occupied) \in Nat /\ IsFiniteSet(Occupied) /\ Occupied \subseteq Names
    BY OccupiedAssumption, FS_CardinalityType
  <2>3. /\ IsFiniteSet(1..Cardinality(Occupied))
        /\ Cardinality(1..Cardinality(Occupied)) = Cardinality(Occupied)
    BY <2>2, FS_Interval
  <2>4. number \in Injection(Occupied, 1..Cardinality(Occupied))
    BY <2>1 DEF Injection, IsInjective
  <2>5. number \in Surjection(Occupied, 1..Cardinality(Occupied))
    BY <2>3, <2>4, FS_Injection
  <2>6. \A i \in 1..Cardinality(Occupied) : \E n \in Occupied : number[n] = i
    BY <2>5 DEF Surjection
  <2>7. \A n \in Occupied : db[n].st = "active" /\ idx[n] = number[n]
    BY <2>1, <2>2 DEF Init, Active
  <2> QED BY <2>2, <2>6, <2>7 DEF Mailed, Init
<1> QED BY <1>2, <1>3 DEF MailParts

(* Every step keeps what keeps the mail.                                   *)
LEMMA MailNext ==
  ASSUME ~Reuse, TypeInv, MailInv, [Next]_vars
  PROVE  MailInv'
<1> SUFFICES ASSUME Orderly' PROVE MailParts'
  BY DEF MailInv
<1>1. CASE UNCHANGED vars
  BY <1>1 DEF vars, MailInv, Orderly, MailParts, Owned, Fresh, OldHeld, NewHeld, Held, Removing,
              Linked, Retired, Mailed
<1>2. ASSUME NEW p \in Procs, NEW n \in Names, NEW m \in Names,
             NEW op \in {"create", "delete", "rename", "setacl"}, Request(p, op, n, m)
      PROVE  MailParts'
  BY <1>2, RequestMail DEF Request, MailInv, Orderly
<1>3. ASSUME NEW p \in Procs, Step(p) PROVE MailParts'
  <2>1. MailParts
    BY <1>3 DEF MailInv, Orderly, Step, mycreatemailboxcheck, mupdate_reserve, lockold, openhdr,
       lockhdr, mkindex, link, copy, store, rename_commit, mupdate_activate, mupdate_delete,
       rename_cleanup, mailbox_delete, undo, unreserve, close, lookup, lockbox, delete_commit,
       relook, write_header, setacl_commit, history
  <2> QED BY <1>3, <2>1, CheckMail, ReserveMail, LockoldMail, OpenhdrMail, LockhdrMail,
      MkindexMail,
     LinkMail, CopyMail, StoreMail, RenameCommitMail, ActivateMail, MdeleteMail, CleanupMail,
     RmMail, UndoMail, UnreserveMail, CloseMail, LookupMail, LockboxMail, DeleteCommitMail,
     RelookMail, HeaderMail, SetaclCommitMail DEF Step
<1>4. ASSUME NEW p \in Procs, Exit(p) \/ Kill(p) PROVE MailParts'
  BY <1>4, GoneMail DEF Exit, Kill, Gone, history, MailInv, Orderly
<1> QED BY <1>1, <1>2, <1>3, <1>4 DEF Next, Done

(* Mail that nobody deleted is in an active mailbox after every step, for  *)
(* any number of processes, whatever requests overlap, whichever process   *)
(* dies where, and whatever fails, as long as no RENAME went on without    *)
(* its old mailbox or took another request's reservation away, and names   *)
(* with leftover files are not taken: CREATE empties what it finds, see    *)
(* CreatedAlone.                                                           *)
THEOREM MailIsKept == ~Reuse => (Spec => []NoLostMail)
<1> SUFFICES ASSUME ~Reuse PROVE Spec => []NoLostMail
  OBVIOUS
<1>1. Spec => []TypeInv
  BY TypeInit, TypeNext, PTL DEF Spec
<1>2. TypeInv /\ MailInv /\ [Next]_vars => MailInv'
  BY MailNext
<1>3. MailInv => NoLostMail
  BY DEF MailInv, Orderly, MailParts, Mailed, NoLostMail
<1> QED BY <1>1, <1>2, <1>3, MailInit, PTL DEF Spec
=============================================================================
