---------------------- MODULE MboxListAgreementProofs -----------------------
(***************************************************************************)
(* Proof that the mailboxes database, the files and the MUPDATE master     *)
(* agree about every mailbox when all requests are served (Agreement), for *)
(* any number of processes, names, requests, lost connections and failing  *)
(* system calls.                                                           *)
(***************************************************************************)
EXTENDS MboxListProofs

-----------------------------------------------------------------------------
(* What Agreement says of one name.                                        *)
Good(n) == /\ db[n].st # "reserved"
           /\ db[n].st = "active" => hdr[n] = db[n].acl /\ idx[n] # 0
           /\ faults.lost = 0 => mup[n] = db[n]

HasFiles(n, acl) == hdr[n] = acl /\ idx[n] # 0
Known(n, e) == faults.lost = 0 => mup[n] = e

(* The name that CREATE and RENAME make, step by step.                     *)
MadePcs == {"lockold", "openhdr", "lockhdr", "mkindex", "link", "copy", "store", "commit"}
NewPhase(j) ==
  /\ j.pc = "check" => Good(target(j))
  /\ j.pc = "reserve" => db[target(j)] = MBTYPE_RESERVE(j.acl) /\ Known(target(j), Absent)
  /\ j.pc \in MadePcs =>
       db[target(j)] = MBTYPE_RESERVE(j.acl) /\ Known(target(j), MBTYPE_RESERVE(0)) /\ j.made
  /\ j.pc \in {"link", "copy", "store", "commit", "activate"} => HasFiles(target(j), j.acl)
  /\ j.pc = "activate" => db[target(j)] = Active(j.acl)
  /\ j.pc = "undo" => /\ db[target(j)] = MBTYPE_RESERVE(j.acl)
                      /\ Known(target(j), IF j.made THEN MBTYPE_RESERVE(0) ELSE Absent)
  /\ j.pc = "unreserve" => db[target(j)] = Absent
  /\ j.pc \in {"mdelete", "cleanup", "rm", "close"} => Good(target(j))

(* The name that RENAME leaves and the one that DELETE removes.            *)
OldPhase(j) ==
  /\ j.pc \in {"check", "unreserve", "cleanup", "rm", "close", "lookup", "lockbox"} => Good(j.n)
  /\ j.pc \in (MadePcs \cup {"reserve", "undo"}) => Good(j.n) /\ db[j.n].st = "active"
  /\ j.pc \in {"activate", "mdelete", "cleanup", "rm"} => db[j.n] = Absent

(* The name whose ACL SETACL changes.                                      *)
AclPhase(j) ==
  /\ j.pc \in {"lookup", "lockbox", "relook", "header", "close"} => Good(j.n)
  /\ j.pc \in {"lockbox", "relook", "header", "commit", "activate"} => db[j.n].st = "active"
  /\ j.pc \in {"commit", "activate"} => HasFiles(j.n, j.acl)
  /\ j.pc = "activate" => db[j.n].acl = j.acl

Phase(j) == /\ j.op \in {"create", "rename"} => NewPhase(j)
            /\ j.op \in {"rename", "delete"} => OldPhase(j)
            /\ j.op = "setacl" => AclPhase(j)

(* As long as no two requests for one name overlapped and no process was   *)
(* killed: requests have names of their own, a process at work has locks   *)
(* of its own names only, each request is in its phase, and a name without *)
(* a request is as Agreement wants it.                                     *)
Apart == \A p, q \in Procs : p # q => Uses(job[p]) \cap Uses(job[q]) = {}
OwnLocks == \A p \in Procs, n \in Names : hlock[n] = p /\ job[p].pc # "idle" => n \in Uses(job[p])
InPhase == \A p \in Procs : job[p].pc # "idle" => Phase(job[p])
Settled == \A n \in Names : (\A p \in Procs : n \notin Uses(job[p])) => Good(n)

Calm == ~raced /\ faults.kill = 0
CalmParts == Apart /\ OwnLocks /\ InPhase /\ Settled
CalmInv == Calm => CalmParts

-----------------------------------------------------------------------------
(* A step of p that touches the places of its own names only.              *)
Frame(p) == /\ \A n \in Names \ {job[p].n, job[p].m} :
                 db'[n] = db[n] /\ mup'[n] = mup[n] /\ hdr'[n] = hdr[n] /\ idx'[n] = idx[n]
            /\ faults'.lost = 0 => faults.lost = 0
            /\ \A n \in Names : \/ hlock'[n] \in {hlock[n], NoProc}
                                \/ hlock'[n] = p /\ n \in {job[p].n, job[p].m}

(* The phases of the requests of other processes do not change with it.    *)
LEMMA PhaseFramed ==
  ASSUME NEW p \in Procs, NEW q \in Procs, job'[q] = job[q], Frame(p),
         job[q].n \in Names \ {job[p].n, job[p].m}, target(job[q]) \in Names \ {job[p].n, job[p].m},
         Phase(job[q])
  PROVE  Phase(job[q])'
<1> DEFINE j == job[q]
<1>1. \A n \in {j.n, target(j)} :
        /\ db'[n] = db[n] /\ hdr'[n] = hdr[n] /\ idx'[n] = idx[n] /\ mup'[n] = mup[n]
  BY DEF Frame
<1>2. faults'.lost = 0 => faults.lost = 0 BY DEF Frame
<1>3. job'[q] = j /\ target(job'[q]) = target(j) OBVIOUS
<1>4. j.op \in {"create", "rename"} => NewPhase(job[q])'
  <2> SUFFICES ASSUME NewPhase(job[q]) PROVE NewPhase(job[q])'
    BY DEF Phase
  <2> QED BY <1>1, <1>2, <1>3 DEF NewPhase, Good, HasFiles, Known
<1>5. j.op \in {"rename", "delete"} => OldPhase(job[q])'
  <2> SUFFICES ASSUME OldPhase(job[q]) PROVE OldPhase(job[q])'
    BY DEF Phase
  <2> QED BY <1>1, <1>2, <1>3 DEF OldPhase, Good
<1>6. j.op = "setacl" => AclPhase(job[q])'
  <2> SUFFICES ASSUME AclPhase(job[q]) PROVE AclPhase(job[q])'
    BY DEF Phase
  <2> QED BY <1>1, <1>2, <1>3 DEF AclPhase, Good, HasFiles
<1> QED BY <1>3, <1>4, <1>5, <1>6 DEF Phase

(* A step of p that stays within its names, and leaves its own request in  *)
(* phase or, at its end, the names as Agreement wants them.                *)
LEMMA Local ==
  ASSUME TypeInv, CalmParts, NEW p \in Procs, job[p].pc # "idle", NEW l \in Pcs, Moves(p, l), Frame(p),
         l # "idle" => Phase(job[p])',
         l = "idle" => Good(job[p].n)' /\ Good(job[p].m)'
  PROVE  CalmParts'
<1>0. Typed BY TypeInvTyped
<1>1. Others(p) /\ Same(p) /\ job'[p].m = job[p].m BY MovesSame DEF Moves
<1>2. \A q \in Procs : q # p => Uses(job'[q]) = Uses(job[q]) /\ job'[q] = job[q]
  BY <1>1 DEF Others
<1>3. Uses(job'[p]) \subseteq Uses(job[p]) /\ Uses(job[p]) = {job[p].n, job[p].m}
  BY <1>1 DEF Uses, Same
<1>4. Apart' BY <1>2, <1>3 DEF CalmParts, Apart
<1>5. OwnLocks'
  <2> SUFFICES ASSUME NEW q \in Procs, NEW n \in Names, hlock'[n] = q, job'[q].pc # "idle"
               PROVE  n \in Uses(job'[q])
    BY DEF OwnLocks
  <2>1. NoProc \notin Procs BY NoProcAssumption
  <2>2. CASE q # p
    <3>1. hlock[n] = q BY <2>1, <2>2 DEF Frame
    <3> QED BY <3>1, <2>2, <1>2 DEF CalmParts, OwnLocks
  <2>3. CASE q = p
    <3>1. Uses(job'[p]) = {job[p].n, job[p].m} BY <2>3, <1>1 DEF Uses, Same
    <3>2. hlock[n] = p \/ n \in {job[p].n, job[p].m} BY <2>1, <2>3 DEF Frame
    <3> QED BY <3>1, <3>2, <2>3, <1>3 DEF CalmParts, OwnLocks
  <2> QED BY <2>2, <2>3
<1>6. InPhase'
  <2> SUFFICES ASSUME NEW q \in Procs, job'[q].pc # "idle" PROVE Phase(job[q])'
    BY DEF InPhase
  <2>1. CASE q = p BY <2>1, <1>1 DEF Moves
  <2>2. CASE q # p
    <3>1. job'[q] = job[q] /\ job[q].pc # "idle" BY <2>2, <1>2
    <3>2. Uses(job[q]) = {job[q].n, job[q].m} BY <3>1 DEF Uses
    <3>3. target(job[q]) \in {job[q].n, job[q].m} BY DEF target
    <3>4. job[q].n \in Names /\ target(job[q]) \in Names BY <1>0 DEF Typed
    <3>5. Uses(job[p]) \cap Uses(job[q]) = {} BY <2>2 DEF CalmParts, Apart
    <3>6. job[q].n \notin {job[p].n, job[p].m} /\ target(job[q]) \notin {job[p].n, job[p].m}
      BY <3>2, <3>3, <3>5, <1>3
    <3>7. Phase(job[q]) BY <3>1 DEF CalmParts, InPhase
    <3> QED BY <3>1, <3>4, <3>6, <3>7, PhaseFramed
  <2> QED BY <2>1, <2>2
<1>7. Settled'
  <2> SUFFICES ASSUME NEW n \in Names, \A q \in Procs : n \notin Uses(job'[q]) PROVE Good(n)'
    BY DEF Settled
  <2>1. CASE n \in {job[p].n, job[p].m}
    <3>1. l = "idle" BY <2>1, <1>1 DEF Uses, Moves
    <3>2. n = job'[p].n \/ n = job'[p].m BY <2>1, <1>1 DEF Same
    <3>3. CASE n = job'[p].n BY <3>1, <3>3 DEF Good
    <3>4. CASE n = job'[p].m BY <3>1, <3>4 DEF Good
    <3> QED BY <3>2, <3>3, <3>4
  <2>2. CASE n \notin {job[p].n, job[p].m}
    <3>1. \A q \in Procs : n \notin Uses(job[q]) BY <2>2, <1>2, <1>3
    <3>2. Good(n) BY <3>1 DEF CalmParts, Settled
    <3> QED BY <3>2, <2>2 DEF Good, Frame
  <2> QED BY <2>1, <2>2
<1> QED BY <1>4, <1>5, <1>6, <1>7 DEF CalmParts

(* fcntl answers EDEADLK to nobody that others do not wait for: a process  *)
(* with an open transaction, or with the lock of another request's name.   *)
LEMMA NobodyWaits ==
  ASSUME TypeInv, CalmParts, NEW p \in Procs, job[p].pc # "idle", ~InTransaction(job[p])
  PROVE  ~EDEADLK(p)
<1> SUFFICES ASSUME EDEADLK(p) PROVE FALSE
  OBVIOUS
<1>1. PICK r \in Procs : WaitsFor(r, p) BY DEF EDEADLK
<1>2. r # p BY <1>1 DEF WaitsFor
<1>3. dblock # p BY DEF TypeInv, ListHeld
<1>4. PICK n \in WantsHeader(r) : hlock[n] = p BY <1>1, <1>3 DEF WaitsFor
<1>5. n \in Uses(job[r]) /\ n \in Names
  BY <1>4, TypeInvTyped DEF WantsHeader, Uses, target, Typed
<1>6. n \in Uses(job[p]) BY <1>4, <1>5 DEF CalmParts, OwnLocks
<1> QED BY <1>2, <1>5, <1>6 DEF CalmParts, Apart

(* The ACL a request works with and its reservation at the master stay     *)
(* with it.                                                                *)
Keeps(p) == job'[p].acl = job[p].acl /\ job'[p].made = job[p].made

LEMMA GotoKeeps ==
  ASSUME JobsOK, NEW p \in Procs, NEW l \in Pcs, Goto(p, l)
  PROVE  Moves(p, l) /\ Keeps(p)
BY DEF JobsOK, Jobs, Goto, Moves, Keeps, Pcs

LEMMA UndoKeeps ==
  ASSUME JobsOK, NEW p \in Procs, job' = [job EXCEPT ![p].pc = "undo", ![p].r = -1]
  PROVE  Moves(p, "undo") /\ Keeps(p)
BY DEF JobsOK, Jobs, Moves, Keeps, Pcs

(* What a process learns from the answer to one command: another name's    *)
(* entry is untouched, and unless the connection was lost the command was  *)
(* obeyed once.                                                            *)
Answer(o, d, t, n, acl) ==
  /\ \A k \in Names \ {n} : o.d[k] = d[k]
  /\ ~o.lost => o.d = cmd_set(d, t, n, acl).d /\ (o.r = 0 <=> cmd_set(d, t, n, acl).ok)
  /\ o.lost \in BOOLEAN

LEMMA CmdSetElsewhere ==
  ASSUME NEW d \in [Names -> Entries], NEW n \in Names, NEW acl,
         NEW t \in {"reserve", "activate", "delete"}, NEW k \in Names \ {n}
  PROVE  cmd_set(d, t, n, acl).d[k] = d[k]
<1>1. CASE t = "reserve" BY <1>1 DEF cmd_set
<1>2. CASE t = "activate" BY <1>2 DEF cmd_set
<1>3. CASE t = "delete" BY <1>3 DEF cmd_set
<1> QED BY <1>1, <1>2, <1>3

LEMMA SentAnswer ==
  ASSUME NEW d \in [Names -> Entries], NEW n \in Names, NEW acl \in 0..MaxOps,
         NEW t \in {"reserve", "activate", "delete"}
  PROVE  \A o \in mupdate(d, t, n, acl) : Answer(o, d, t, n, acl)
<1>1. \A k \in Names \ {n} : cmd_set(d, t, n, acl).d[k] = d[k] BY CmdSetElsewhere
<1>2. MUPDATE_FAIL # 0 BY DEF MUPDATE_FAIL
<1>3. ASSUME NEW o \in Sent(d, t, n, acl) PROVE Answer(o, d, t, n, acl)
  <2>1. /\ o.d = cmd_set(d, t, n, acl).d /\ o.lost = FALSE
        /\ o.r = IF cmd_set(d, t, n, acl).ok THEN 0 ELSE MUPDATE_FAIL
    BY <1>3 DEF Sent
  <2>2. o.r = 0 <=> cmd_set(d, t, n, acl).ok BY <2>1, <1>2
  <2> QED BY <2>1, <2>2, <1>1 DEF Answer
<1>4. ASSUME NEW o \in Lost(d, t, n, acl) PROVE Answer(o, d, t, n, acl)
  <2>1. o.d \in {d, cmd_set(d, t, n, acl).d} /\ o.lost = TRUE BY <1>4 DEF Lost
  <2> QED BY <2>1, <1>1 DEF Answer
<1> QED BY <1>3, <1>4 DEF mupdate

LEMMA RetryAnswer ==
  ASSUME NEW d \in [Names -> Entries], NEW n \in Names, NEW acl \in 0..MaxOps,
         NEW t \in {"reserve", "activate", "delete"}
  PROVE  \A o \in mupdate_retry(d, t, n, acl) : Answer(o, d, t, n, acl)
<1> SUFFICES ASSUME NEW o \in mupdate_retry(d, t, n, acl) PROVE Answer(o, d, t, n, acl)
  OBVIOUS
<1>1. PICK u \in mupdate(d, t, n, acl) :
        o \in IF u.r > 0 THEN {[s EXCEPT !.lost = TRUE] : s \in Sent(u.d, t, n, acl)} ELSE {u}
  BY DEF mupdate_retry
<1>2. Answer(u, d, t, n, acl) BY SentAnswer, <1>1
<1>3. CASE o = u BY <1>2, <1>3
<1>4. CASE o \in {[s EXCEPT !.lost = TRUE] : s \in Sent(u.d, t, n, acl)}
  <2>1. PICK s \in Sent(u.d, t, n, acl) : o = [s EXCEPT !.lost = TRUE] BY <1>4
  <2>2. u.d \in [Names -> Entries] BY MupdateType, <1>1 DEF AnswerOK
  <2>3. s.d = cmd_set(u.d, t, n, acl).d /\ o.d = s.d /\ o.lost = TRUE BY <2>1 DEF Sent
  <2>4. \A k \in Names \ {n} : s.d[k] = u.d[k] BY <2>2, <2>3, CmdSetElsewhere
  <2> QED BY <2>3, <2>4, <1>2 DEF Answer
<1> QED BY <1>1, <1>3, <1>4

(* A lost connection is counted, and nothing else is.                      *)
LEMMA FaultCounts ==
  ASSUME TypeInv, NEW k, Fault(k)
  PROVE  /\ faults'.lost = 0 => faults.lost = 0 /\ k # "lost"
         /\ faults'.kill = 0 => faults.kill = 0 /\ k # "kill"
BY KindAssumption DEF Fault, TypeInv, CountersOK

(* A step that waits for an answer of the MUPDATE master.                  *)
LEMMA OutcomeFacts ==
  ASSUME TypeInv, NEW p \in Procs, NEW outcomes, NEW ok \in Pcs, NEW bad \in Pcs,
         NEW t, NEW n \in Names, NEW acl,
         \A o \in outcomes : Answer(o, mup, t, n, acl),
         Outcome(p, outcomes, ok, bad)
  PROVE  \E l \in {ok, bad} :
           /\ Moves(p, l) /\ Keeps(p)
           /\ \A k \in Names \ {n} : mup'[k] = mup[k]
           /\ faults'.lost = 0 => /\ faults.lost = 0 /\ mup' = cmd_set(mup, t, n, acl).d
                                  /\ cmd_set(mup, t, n, acl).ok => l = ok
<1>1. PICK o \in outcomes :
        /\ mup' = o.d
        /\ IF o.lost THEN Fault("lost") ELSE UNCHANGED faults
        /\ job' = [job EXCEPT ![p].pc = IF o.r = 0 THEN ok ELSE bad, ![p].r = o.r]
  BY DEF Outcome
<1>2. Answer(o, mup, t, n, acl) BY <1>1
<1>3. faults'.lost = 0 => ~o.lost /\ faults.lost = 0 BY <1>1, FaultCounts
<1>4. PICK l \in {ok, bad} : job' = [job EXCEPT ![p].pc = l, ![p].r = o.r] /\ (o.r = 0 => l = ok)
  BY <1>1
<1>5. Moves(p, l) /\ Keeps(p) BY <1>4 DEF TypeInv, JobsOK, Jobs, Moves, Keeps
<1> QED BY <1>1, <1>2, <1>3, <1>4, <1>5 DEF Answer

(* The steps of the handlers keep CalmParts.                               *)
(* DELETE and SETACL look the name up.                                      *)
LEMMA LookupCalm ==
  ASSUME TypeInv, CalmParts, NEW p \in Procs, lookup(p)
  PROVE  CalmParts'
<1>0. Typed /\ JobsOK /\ job[p].pc # "idle" BY TypeInvTyped DEF TypeInv, lookup, At
<1>n. job[p].n \in Names /\ job[p].m \in Names /\ target(job[p]) \in {job[p].n, job[p].m}
      /\ (job[p].op = "rename" <=> job[p].n # job[p].m)
  BY <1>0 DEF Typed, JobsOK, Jobs, target, TypeInv, HandlersOK
<1>p. Phase(job[p]) BY <1>0 DEF CalmParts, InPhase
<1>1. PICK l \in {"idle", "lockbox"} :
        /\ Moves(p, l)
        /\ Keeps(p)
        /\ l = "lockbox" => db[job[p].n].st = "active"
        /\ UNCHANGED <<db, mup, hdr, idx, hlock, faults>>
  BY <1>0, GotoKeeps, UndoKeeps DEF lookup, lists, files, history, Pcs, CreatePcs, RenamePcs,
     DeletePcs, SetaclPcs
<1>2. l \in Pcs BY DEF Pcs, CreatePcs, RenamePcs, DeletePcs, SetaclPcs
<1>3. Frame(p)
  BY <1>0, <1>1, <1>n DEF Frame, Typed
<1>4. l # "idle" => Phase(job[p])'
  BY <1>0, <1>1, <1>n, <1>p DEF lookup, At, Typed, Moves, Keeps, Handler, target, Phase,
     NewPhase, OldPhase, AclPhase, Good, HasFiles, Known, MadePcs, CreatePcs, RenamePcs,
     DeletePcs, SetaclPcs
<1>5. l = "idle" => Good(job[p].n)' /\ Good(job[p].m)'
  BY <1>0, <1>1, <1>n, <1>p DEF lookup, At, Typed, Moves, Keeps, Handler, target, Phase,
     NewPhase, OldPhase, AclPhase, Good, HasFiles, Known, MadePcs, CreatePcs, RenamePcs,
     DeletePcs, SetaclPcs
<1> QED BY <1>0, <1>1, <1>2, <1>3, <1>4, <1>5, Local

(* mailbox_create empties the header file.                                  *)
LEMMA OpenhdrCalm ==
  ASSUME TypeInv, CalmParts, NEW p \in Procs, openhdr(p)
  PROVE  CalmParts'
<1>0. Typed /\ JobsOK /\ job[p].pc # "idle" BY TypeInvTyped DEF TypeInv, openhdr, At
<1>n. job[p].n \in Names /\ job[p].m \in Names /\ target(job[p]) \in {job[p].n, job[p].m}
      /\ (job[p].op = "rename" <=> job[p].n # job[p].m)
  BY <1>0 DEF Typed, JobsOK, Jobs, target, TypeInv, HandlersOK
<1>p. Phase(job[p]) BY <1>0 DEF CalmParts, InPhase
<1>1. PICK l \in {"lockhdr"} :
        /\ Moves(p, l)
        /\ Keeps(p)
        /\ hdr' = [hdr EXCEPT ![target(job[p])] = Blank]
        /\ UNCHANGED <<db, mup, idx, hlock, faults>>
  BY <1>0, GotoKeeps, UndoKeeps DEF openhdr, lists, files, history, Pcs, CreatePcs, RenamePcs,
     DeletePcs, SetaclPcs
<1>2. l \in Pcs BY DEF Pcs, CreatePcs, RenamePcs, DeletePcs, SetaclPcs
<1>3. Frame(p)
  BY <1>0, <1>1, <1>n DEF Frame, Typed
<1>4. l # "idle" => Phase(job[p])'
  BY <1>0, <1>1, <1>n, <1>p DEF openhdr, At, Typed, Moves, Keeps, Handler, target, Phase,
     NewPhase, OldPhase, AclPhase, Good, HasFiles, Known, MadePcs, CreatePcs, RenamePcs,
     DeletePcs, SetaclPcs
<1>5. l = "idle" => Good(job[p].n)' /\ Good(job[p].m)'
  BY <1>0, <1>1, <1>n, <1>p DEF openhdr, At, Typed, Moves, Keeps, Handler, target, Phase,
     NewPhase, OldPhase, AclPhase, Good, HasFiles, Known, MadePcs, CreatePcs, RenamePcs,
     DeletePcs, SetaclPcs
<1> QED BY <1>0, <1>1, <1>2, <1>3, <1>4, <1>5, Local

(* CREATE activates its reservation.                                        *)
LEMMA StoreCalm ==
  ASSUME TypeInv, CalmParts, NEW p \in Procs, store(p)
  PROVE  CalmParts'
<1>0. Typed /\ JobsOK /\ job[p].pc # "idle" BY TypeInvTyped DEF TypeInv, store, At
<1>n. job[p].n \in Names /\ job[p].m \in Names /\ target(job[p]) \in {job[p].n, job[p].m}
      /\ (job[p].op = "rename" <=> job[p].n # job[p].m)
  BY <1>0 DEF Typed, JobsOK, Jobs, target, TypeInv, HandlersOK
<1>p. Phase(job[p]) BY <1>0 DEF CalmParts, InPhase
<1>1. PICK l \in {"activate"} :
        /\ Moves(p, l)
        /\ Keeps(p)
        /\ db' = [db EXCEPT ![job[p].n] = Active(job[p].acl)]
        /\ UNCHANGED <<mup, hdr, idx, hlock, faults>>
  BY <1>0, GotoKeeps, UndoKeeps DEF store, lists, files, history, Pcs, CreatePcs, RenamePcs,
     DeletePcs, SetaclPcs
<1>2. l \in Pcs BY DEF Pcs, CreatePcs, RenamePcs, DeletePcs, SetaclPcs
<1>3. Frame(p)
  BY <1>0, <1>1, <1>n DEF Frame, Typed
<1>4. l # "idle" => Phase(job[p])'
  BY <1>0, <1>1, <1>n, <1>p DEF store, At, Typed, Moves, Keeps, Handler, target, Phase,
     NewPhase, OldPhase, AclPhase, Good, HasFiles, Known, MadePcs, CreatePcs, RenamePcs,
     DeletePcs, SetaclPcs
<1>5. l = "idle" => Good(job[p].n)' /\ Good(job[p].m)'
  BY <1>0, <1>1, <1>n, <1>p DEF store, At, Typed, Moves, Keeps, Handler, target, Phase,
     NewPhase, OldPhase, AclPhase, Good, HasFiles, Known, MadePcs, CreatePcs, RenamePcs,
     DeletePcs, SetaclPcs
<1> QED BY <1>0, <1>1, <1>2, <1>3, <1>4, <1>5, Local

(* The reservation takes a free name.                                       *)
LEMMA CheckCalm ==
  ASSUME TypeInv, CalmParts, NEW p \in Procs, mycreatemailboxcheck(p)
  PROVE  CalmParts'
<1>0. Typed /\ JobsOK /\ job[p].pc # "idle" BY TypeInvTyped DEF TypeInv, mycreatemailboxcheck, At
<1>n. job[p].n \in Names /\ job[p].m \in Names /\ target(job[p]) \in {job[p].n, job[p].m}
      /\ (job[p].op = "rename" <=> job[p].n # job[p].m)
  BY <1>0 DEF Typed, JobsOK, Jobs, target, TypeInv, HandlersOK
<1>p. Phase(job[p]) BY <1>0 DEF CalmParts, InPhase
<1>1. PICK l \in {"idle", "reserve"} :
        /\ Moves(p, l)
        /\ l = "idle" => Keeps(p) /\ db' = db
        /\ l = "reserve" => /\ db[target(job[p])] = Absent
                            /\ job[p].op = "rename" => db[job[p].n].st = "active"
                            /\ db' = [db EXCEPT ![target(job[p])] = MBTYPE_RESERVE(job'[p].acl)]
        /\ UNCHANGED <<mup, hdr, idx, hlock, faults>>
  <2>1. CASE Refused(job[p])
    BY <2>1, <1>0, GotoKeeps DEF mycreatemailboxcheck, files, history, Pcs, CreatePcs,
       RenamePcs, DeletePcs, SetaclPcs
  <2>2. CASE ~Refused(job[p])
    <3> DEFINE acl == IF job[p].op = "rename" THEN db[job[p].n].acl ELSE 0
    <3>1. /\ job' = [job EXCEPT ![p].pc = "reserve", ![p].acl = acl]
          /\ db' = [db EXCEPT ![target(job[p])] = MBTYPE_RESERVE(acl)]
          /\ UNCHANGED <<mup, hdr, idx, hlock, faults>>
      BY <2>2 DEF mycreatemailboxcheck, files, history
    <3> HIDE DEF acl
    <3>2. Moves(p, "reserve") /\ job'[p].acl = acl BY <3>1, <1>0 DEF JobsOK, Jobs, Moves
    <3> QED BY <2>2, <3>1, <3>2 DEF Refused
  <2> QED BY <2>1, <2>2
<1>2. l \in Pcs BY DEF Pcs, CreatePcs, RenamePcs, DeletePcs, SetaclPcs
<1>3. Frame(p)
  BY <1>0, <1>1, <1>n DEF Frame, Typed
<1>4. l # "idle" => Phase(job[p])'
  BY <1>0, <1>1, <1>n, <1>p DEF mycreatemailboxcheck, At, Typed, Moves, Keeps, Handler, target,
     Phase, NewPhase, OldPhase, AclPhase, Good, HasFiles, Known, MadePcs, CreatePcs, RenamePcs,
     DeletePcs, SetaclPcs
<1>5. l = "idle" => Good(job[p].n)' /\ Good(job[p].m)'
  BY <1>0, <1>1, <1>n, <1>p DEF mycreatemailboxcheck, At, Typed, Moves, Keeps, Handler, target,
     Phase, NewPhase, OldPhase, AclPhase, Good, HasFiles, Known, MadePcs, CreatePcs, RenamePcs,
     DeletePcs, SetaclPcs
<1> QED BY <1>0, <1>1, <1>2, <1>3, <1>4, <1>5, Local

(* The reservation at the MUPDATE master.                                   *)
LEMMA ReserveCalm ==
  ASSUME TypeInv, CalmParts, NEW p \in Procs, mupdate_reserve(p)
  PROVE  CalmParts'
<1>0. Typed /\ JobsOK /\ job[p].pc # "idle" BY TypeInvTyped DEF TypeInv, mupdate_reserve, At
<1>n. job[p].n \in Names /\ job[p].m \in Names /\ target(job[p]) \in {job[p].n, job[p].m}
      /\ (job[p].op = "rename" <=> job[p].n # job[p].m)
  BY <1>0 DEF Typed, JobsOK, Jobs, target, TypeInv, HandlersOK
<1>p. Phase(job[p]) BY <1>0 DEF CalmParts, InPhase
<1>1. PICK l \in {"undo", "lockold", "openhdr"} :
        /\ Moves(p, l)
        /\ job'[p].acl = job[p].acl
        /\ job'[p].made <=> l # "undo"
        /\ l = "lockold" <=> l # "undo" /\ job[p].op = "rename"
        /\ faults'.lost = 0 => faults.lost = 0 /\ l # "undo" /\ mup'[target(job[p])] = MBTYPE_RESERVE(0)
        /\ \A k \in Names \ {target(job[p])} : mup'[k] = mup[k]
        /\ UNCHANGED <<db, hdr, idx, hlock>>
  <2>1. PICK o \in mupdate(mup, "reserve", target(job[p]), 0) :
          /\ mup' = o.d
          /\ IF o.lost THEN Fault("lost") ELSE UNCHANGED faults
          /\ job' = [job EXCEPT ![p].r = o.r, ![p].made = (o.r = 0),
                     ![p].pc = IF o.r # 0 THEN "undo"
                               ELSE IF job[p].op = "rename" THEN "lockold" ELSE "openhdr"]
    BY DEF mupdate_reserve
  <2>2. Answer(o, mup, "reserve", target(job[p]), 0)
    BY <2>1, <1>n, SentAnswer, BoundAssumption DEF TypeInv, ListsOK
  <2>3. faults'.lost = 0 => ~o.lost /\ faults.lost = 0 BY <2>1, FaultCounts
  <2>4. PICK l \in {"undo", "lockold", "openhdr"} :
          /\ job' = [job EXCEPT ![p].r = o.r, ![p].made = (o.r = 0), ![p].pc = l]
          /\ (o.r = 0) <=> l # "undo"
          /\ l = "lockold" <=> l # "undo" /\ job[p].op = "rename"
    BY <2>1
  <2>5. Moves(p, l) /\ job'[p].acl = job[p].acl /\ (job'[p].made <=> l # "undo")
    BY <2>4, <1>0 DEF JobsOK, Jobs, Moves
  <2>6. faults'.lost = 0 => /\ faults.lost = 0 /\ mup[target(job[p])] = Absent
    BY <2>3, <1>0, <1>p DEF mupdate_reserve, At, Typed, Handler, Phase, NewPhase, Known,
       CreatePcs, RenamePcs, DeletePcs, SetaclPcs
  <2>7. faults'.lost = 0 => o.d[target(job[p])] = MBTYPE_RESERVE(0) /\ o.r = 0
    BY <2>2, <2>3, <2>6, <1>n DEF Answer, cmd_set, TypeInv, ListsOK
  <2> QED BY <2>1, <2>2, <2>4, <2>5, <2>6, <2>7 DEF mupdate_reserve, files, history, Answer
<1>2. l \in Pcs BY DEF Pcs, CreatePcs, RenamePcs, DeletePcs, SetaclPcs
<1>3. Frame(p)
  BY <1>0, <1>1, <1>n DEF Frame, Typed
<1>4. l # "idle" => Phase(job[p])'
  <2>1. job[p].pc = "reserve" /\ job[p].op \in {"create", "rename"}
    BY <1>0 DEF mupdate_reserve, At, Typed, Handler, CreatePcs, RenamePcs, DeletePcs, SetaclPcs
  <2>2. /\ job'[p].pc = l /\ job'[p].op = job[p].op /\ job'[p].n = job[p].n /\ job'[p].m = job[p].m
        /\ target(job'[p]) = target(job[p]) /\ job'[p].acl = job[p].acl
    BY <1>1 DEF Moves, target
  <2>3. job[p].op = "rename" => target(job[p]) # job[p].n BY <1>0 DEF Typed
  <2>4. NewPhase(job[p])'
    <3>1. CASE l = "undo"
      BY <3>1, <1>1, <1>p, <2>1, <2>2 DEF Phase, NewPhase, Known, MadePcs
    <3>2. CASE l # "undo"
      BY <3>2, <1>1, <1>p, <2>1, <2>2 DEF Phase, NewPhase, Known, MadePcs
    <3> QED BY <3>1, <3>2
  <2>5. job[p].op = "rename" => OldPhase(job[p])'
    BY <1>n, <1>1, <1>p, <2>1, <2>2, <2>3 DEF Phase, OldPhase, Good, MadePcs
  <2> QED BY <2>1, <2>2, <2>4, <2>5 DEF Phase
<1>5. l = "idle" => Good(job[p].n)' /\ Good(job[p].m)'
  BY <1>0, <1>1, <1>n, <1>p DEF mupdate_reserve, At, Typed, Moves, Keeps, Handler, target,
     Phase, NewPhase, OldPhase, AclPhase, Good, HasFiles, Known, MadePcs, CreatePcs, RenamePcs,
     DeletePcs, SetaclPcs
<1> QED BY <1>0, <1>1, <1>2, <1>3, <1>4, <1>5, Local

(* RENAME locks the old name: it has its files, and nobody waits for p.     *)
LEMMA LockoldCalm ==
  ASSUME TypeInv, CalmParts, NEW p \in Procs, lockold(p)
  PROVE  CalmParts'
<1>0. Typed /\ JobsOK /\ job[p].pc # "idle" BY TypeInvTyped DEF TypeInv, lockold, At
<1>n. job[p].n \in Names /\ job[p].m \in Names /\ target(job[p]) \in {job[p].n, job[p].m}
      /\ (job[p].op = "rename" <=> job[p].n # job[p].m)
  BY <1>0 DEF Typed, JobsOK, Jobs, target, TypeInv, HandlersOK
<1>p. Phase(job[p]) BY <1>0 DEF CalmParts, InPhase
<1>1. PICK l \in {"openhdr"} :
        /\ Moves(p, l)
        /\ Keeps(p)
        /\ hlock' = [hlock EXCEPT ![job[p].n] = p]
        /\ UNCHANGED <<db, mup, hdr, idx, faults>>
  <2>1. ~EDEADLK(p) BY <1>0, NobodyWaits DEF lockold, At, InTransaction
  <2>2. job[p].op = "rename"
    BY <1>0 DEF lockold, At, Typed, Handler, CreatePcs, RenamePcs, DeletePcs, SetaclPcs
  <2>3. hdr[job[p].n] = db[job[p].n].acl /\ idx[job[p].n] # 0
    BY <2>2, <1>p DEF lockold, At, Phase, OldPhase, Good, MadePcs
  <2>4. hdr[job[p].n] # NoFile
    <3>1. db[job[p].n].acl \in 0..MaxOps BY <1>0, <1>n, EntryType DEF Typed
    <3> QED BY <3>1, <2>3 DEF NoFile
  <2> QED BY <2>1, <2>3, <2>4, <1>0, GotoKeeps DEF lockold, lists, files, Pcs, CreatePcs
<1>2. l \in Pcs BY DEF Pcs, CreatePcs, RenamePcs, DeletePcs, SetaclPcs
<1>3. Frame(p)
  BY <1>0, <1>1, <1>n DEF Frame, Typed
<1>4. l # "idle" => Phase(job[p])'
  BY <1>0, <1>1, <1>n, <1>p DEF lockold, At, Typed, Moves, Keeps, Handler, target, Phase,
     NewPhase, OldPhase, AclPhase, Good, HasFiles, Known, MadePcs, CreatePcs, RenamePcs,
     DeletePcs, SetaclPcs
<1>5. l = "idle" => Good(job[p].n)' /\ Good(job[p].m)'
  BY <1>0, <1>1, <1>n, <1>p DEF lockold, At, Typed, Moves, Keeps, Handler, target, Phase,
     NewPhase, OldPhase, AclPhase, Good, HasFiles, Known, MadePcs, CreatePcs, RenamePcs,
     DeletePcs, SetaclPcs
<1> QED BY <1>0, <1>1, <1>2, <1>3, <1>4, <1>5, Local

(* mailbox_create locks the header file.                                    *)
LEMMA LockhdrCalm ==
  ASSUME TypeInv, CalmParts, NEW p \in Procs, lockhdr(p)
  PROVE  CalmParts'
<1>0. Typed /\ JobsOK /\ job[p].pc # "idle" BY TypeInvTyped DEF TypeInv, lockhdr, At
<1>n. job[p].n \in Names /\ job[p].m \in Names /\ target(job[p]) \in {job[p].n, job[p].m}
      /\ (job[p].op = "rename" <=> job[p].n # job[p].m)
  BY <1>0 DEF Typed, JobsOK, Jobs, target, TypeInv, HandlersOK
<1>p. Phase(job[p]) BY <1>0 DEF CalmParts, InPhase
<1>1. PICK l \in {"mkindex", "undo"} :
        /\ Moves(p, l)
        /\ Keeps(p)
        /\ hlock' = hlock \/ hlock' = [hlock EXCEPT ![target(job[p])] = p]
        /\ UNCHANGED <<db, mup, hdr, idx, faults>>
  BY <1>0, GotoKeeps, UndoKeeps DEF lockhdr, lists, files, history, Pcs, CreatePcs, RenamePcs,
     DeletePcs, SetaclPcs
<1>2. l \in Pcs BY DEF Pcs, CreatePcs, RenamePcs, DeletePcs, SetaclPcs
<1>3. Frame(p)
  BY <1>0, <1>1, <1>n DEF Frame, Typed
<1>4. l # "idle" => Phase(job[p])'
  BY <1>0, <1>1, <1>n, <1>p DEF lockhdr, At, Typed, Moves, Keeps, Handler, target, Phase,
     NewPhase, OldPhase, AclPhase, Good, HasFiles, Known, MadePcs, CreatePcs, RenamePcs,
     DeletePcs, SetaclPcs
<1>5. l = "idle" => Good(job[p].n)' /\ Good(job[p].m)'
  BY <1>0, <1>1, <1>n, <1>p DEF lockhdr, At, Typed, Moves, Keeps, Handler, target, Phase,
     NewPhase, OldPhase, AclPhase, Good, HasFiles, Known, MadePcs, CreatePcs, RenamePcs,
     DeletePcs, SetaclPcs
<1> QED BY <1>0, <1>1, <1>2, <1>3, <1>4, <1>5, Local

(* The index file is made and the header file is filled.                    *)
LEMMA MkindexCalm ==
  ASSUME TypeInv, CalmParts, NEW p \in Procs, mkindex(p)
  PROVE  CalmParts'
<1>0. Typed /\ JobsOK /\ job[p].pc # "idle" BY TypeInvTyped DEF TypeInv, mkindex, At
<1>n. job[p].n \in Names /\ job[p].m \in Names /\ target(job[p]) \in {job[p].n, job[p].m}
      /\ (job[p].op = "rename" <=> job[p].n # job[p].m)
  BY <1>0 DEF Typed, JobsOK, Jobs, target, TypeInv, HandlersOK
<1>p. Phase(job[p]) BY <1>0 DEF CalmParts, InPhase
<1>1. PICK l \in {"link", "store", "undo"} :
        /\ Moves(p, l)
        /\ Keeps(p)
        /\ l = "link" <=> l # "undo" /\ job[p].op = "rename"
        /\ l # "undo" => hdr'[target(job[p])] = job[p].acl /\ idx'[target(job[p])] # 0
        /\ \A n \in Names \ {target(job[p])} : hdr'[n] = hdr[n] /\ idx'[n] = idx[n]
        /\ \A n \in Names : hlock'[n] \in {hlock[n], NoProc}
        /\ faults'.lost = 0 => faults.lost = 0
        /\ UNCHANGED <<db, mup>>
  <2>1. ino \in Nat BY DEF TypeInv, CountersOK
  <2>2. CASE \E l \in {"link", "store"} :
               /\ Goto(p, l) /\ (l = "link" <=> job[p].op = "rename")
               /\ idx' = [idx EXCEPT ![target(job[p])] = IF @ = 0 THEN ino + 1 ELSE @]
               /\ hdr' = [hdr EXCEPT ![target(job[p])] = job[p].acl]
               /\ hlock' = IF job[p].op = "rename" THEN hlock ELSE Unlocked(p, target(job[p]))
               /\ UNCHANGED faults
    <3>1. PICK l \in {"link", "store"} : Goto(p, l) /\ (l = "link" <=> job[p].op = "rename")
      BY <2>2
    <3>2. Moves(p, l) /\ Keeps(p)
      BY <3>1, <1>0, GotoKeeps DEF Pcs, CreatePcs, RenamePcs, DeletePcs, SetaclPcs
    <3>3. hdr'[target(job[p])] = job[p].acl /\ idx'[target(job[p])] # 0
      BY <2>1, <2>2, <1>0, <1>n DEF Typed
    <3>4. UNCHANGED <<db, mup>> BY DEF mkindex, lists
    <3>5. /\ \A n \in Names \ {target(job[p])} : hdr'[n] = hdr[n] /\ idx'[n] = idx[n]
          /\ \A n \in Names : hlock'[n] \in {hlock[n], NoProc}
      BY <2>2, <1>0, <1>n DEF Typed, Unlocked
    <3> QED BY <2>2, <3>1, <3>2, <3>3, <3>4, <3>5
  <2>3. CASE /\ Fault("io") /\ job' = [job EXCEPT ![p].pc = "undo", ![p].r = -1]
             /\ hlock' = Unlocked(p, target(job[p])) /\ UNCHANGED files
    <3>1. Moves(p, "undo") /\ Keeps(p) BY <2>3, <1>0, UndoKeeps
    <3>2. faults'.lost = 0 => faults.lost = 0 BY <2>3, FaultCounts
    <3>3. UNCHANGED <<db, mup>> BY DEF mkindex, lists
    <3> QED BY <2>3, <3>1, <3>2, <3>3, <1>0, <1>n DEF Typed, Unlocked, files
  <2> QED BY <2>2, <2>3 DEF mkindex
<1>2. l \in Pcs BY DEF Pcs, CreatePcs, RenamePcs, DeletePcs, SetaclPcs
<1>3. Frame(p)
  BY <1>0, <1>1, <1>n DEF Frame, Typed
<1>4. l # "idle" => Phase(job[p])'
  BY <1>0, <1>1, <1>n, <1>p DEF mkindex, At, Typed, Moves, Keeps, Handler, target, Phase,
     NewPhase, OldPhase, AclPhase, Good, HasFiles, Known, MadePcs, CreatePcs, RenamePcs,
     DeletePcs, SetaclPcs
<1>5. l = "idle" => Good(job[p].n)' /\ Good(job[p].m)'
  BY <1>0, <1>1, <1>n, <1>p DEF mkindex, At, Typed, Moves, Keeps, Handler, target, Phase,
     NewPhase, OldPhase, AclPhase, Good, HasFiles, Known, MadePcs, CreatePcs, RenamePcs,
     DeletePcs, SetaclPcs
<1> QED BY <1>0, <1>1, <1>2, <1>3, <1>4, <1>5, Local

(* The old index file takes the place of the new one.                       *)
LEMMA LinkCalm ==
  ASSUME TypeInv, CalmParts, NEW p \in Procs, link(p)
  PROVE  CalmParts'
<1>0. Typed /\ JobsOK /\ job[p].pc # "idle" BY TypeInvTyped DEF TypeInv, link, At
<1>n. job[p].n \in Names /\ job[p].m \in Names /\ target(job[p]) \in {job[p].n, job[p].m}
      /\ (job[p].op = "rename" <=> job[p].n # job[p].m)
  BY <1>0 DEF Typed, JobsOK, Jobs, target, TypeInv, HandlersOK
<1>p. Phase(job[p]) BY <1>0 DEF CalmParts, InPhase
<1>1. PICK l \in {"copy", "undo"} :
        /\ Moves(p, l)
        /\ Keeps(p)
        /\ l = "copy" => idx'[target(job[p])] = idx[job[p].n]
        /\ \A n \in Names \ {target(job[p])} : idx'[n] = idx[n]
        /\ \A n \in Names : hlock'[n] \in {hlock[n], NoProc}
        /\ faults'.lost = 0 => faults.lost = 0
        /\ UNCHANGED <<db, mup, hdr>>
  <2>2. CASE idx' = [idx EXCEPT ![target(job[p])] = idx[job[p].n]] /\ Goto(p, "copy") /\ UNCHANGED <<hlock, faults>>
    <3>1. Moves(p, "copy") /\ Keeps(p)
      BY <2>2, <1>0, GotoKeeps DEF Pcs, CreatePcs, RenamePcs, DeletePcs, SetaclPcs
    <3> QED BY <2>2, <3>1, <1>0, <1>n DEF link, lists, history, Typed
  <2>3. CASE /\ idx' = [idx EXCEPT ![target(job[p])] = 0] /\ hlock' = Unlocked(p, target(job[p]))
             /\ job' = [job EXCEPT ![p].pc = "undo", ![p].r = -1] /\ Fault("io")
    <3>1. Moves(p, "undo") /\ Keeps(p) BY <2>3, <1>0, UndoKeeps
    <3>2. faults'.lost = 0 => faults.lost = 0 BY <2>3, FaultCounts
    <3> QED BY <2>3, <3>1, <3>2, <1>0, <1>n DEF link, lists, history, Typed, Unlocked
  <2> QED BY <2>2, <2>3 DEF link
<1>2. l \in Pcs BY DEF Pcs, CreatePcs, RenamePcs, DeletePcs, SetaclPcs
<1>3. Frame(p)
  BY <1>0, <1>1, <1>n DEF Frame, Typed
<1>4. l # "idle" => Phase(job[p])'
  BY <1>0, <1>1, <1>n, <1>p DEF link, At, Typed, Moves, Keeps, Handler, target, Phase, NewPhase,
     OldPhase, AclPhase, Good, HasFiles, Known, MadePcs, CreatePcs, RenamePcs, DeletePcs,
     SetaclPcs
<1>5. l = "idle" => Good(job[p].n)' /\ Good(job[p].m)'
  BY <1>0, <1>1, <1>n, <1>p DEF link, At, Typed, Moves, Keeps, Handler, target, Phase, NewPhase,
     OldPhase, AclPhase, Good, HasFiles, Known, MadePcs, CreatePcs, RenamePcs, DeletePcs,
     SetaclPcs
<1> QED BY <1>0, <1>1, <1>2, <1>3, <1>4, <1>5, Local

(* The message files are linked.                                            *)
LEMMA CopyCalm ==
  ASSUME TypeInv, CalmParts, NEW p \in Procs, copy(p)
  PROVE  CalmParts'
<1>0. Typed /\ JobsOK /\ job[p].pc # "idle" BY TypeInvTyped DEF TypeInv, copy, At
<1>n. job[p].n \in Names /\ job[p].m \in Names /\ target(job[p]) \in {job[p].n, job[p].m}
      /\ (job[p].op = "rename" <=> job[p].n # job[p].m)
  BY <1>0 DEF Typed, JobsOK, Jobs, target, TypeInv, HandlersOK
<1>p. Phase(job[p]) BY <1>0 DEF CalmParts, InPhase
<1>1. PICK l \in {"commit", "undo"} :
        /\ Moves(p, l)
        /\ Keeps(p)
        /\ faults'.lost = 0 => faults.lost = 0
        /\ UNCHANGED <<db, mup, hdr, idx, hlock>>
  <2>1. CASE job' = [job EXCEPT ![p].pc = "commit", ![p].newopen = TRUE] /\ UNCHANGED faults
    BY <2>1, <1>0 DEF JobsOK, Jobs, Moves, Keeps, copy, lists, files
  <2>2. CASE job' = [job EXCEPT ![p].pc = "undo", ![p].r = -1] /\ Fault("io")
    BY <2>2, <1>0, UndoKeeps, FaultCounts DEF copy, lists, files
  <2> QED BY <2>1, <2>2 DEF copy
<1>2. l \in Pcs BY DEF Pcs, CreatePcs, RenamePcs, DeletePcs, SetaclPcs
<1>3. Frame(p)
  BY <1>0, <1>1, <1>n DEF Frame, Typed
<1>4. l # "idle" => Phase(job[p])'
  BY <1>0, <1>1, <1>n, <1>p DEF copy, At, Typed, Moves, Keeps, Handler, target, Phase, NewPhase,
     OldPhase, AclPhase, Good, HasFiles, Known, MadePcs, CreatePcs, RenamePcs, DeletePcs,
     SetaclPcs
<1>5. l = "idle" => Good(job[p].n)' /\ Good(job[p].m)'
  BY <1>0, <1>1, <1>n, <1>p DEF copy, At, Typed, Moves, Keeps, Handler, target, Phase, NewPhase,
     OldPhase, AclPhase, Good, HasFiles, Known, MadePcs, CreatePcs, RenamePcs, DeletePcs,
     SetaclPcs
<1> QED BY <1>0, <1>1, <1>2, <1>3, <1>4, <1>5, Local

(* The entry at the MUPDATE master becomes active.                          *)
LEMMA ActivateCalm ==
  ASSUME TypeInv, CalmParts, NEW p \in Procs, mupdate_activate(p)
  PROVE  CalmParts'
<1>0. Typed /\ JobsOK /\ job[p].pc # "idle" BY TypeInvTyped DEF TypeInv, mupdate_activate, At
<1>n. job[p].n \in Names /\ job[p].m \in Names /\ target(job[p]) \in {job[p].n, job[p].m}
      /\ (job[p].op = "rename" <=> job[p].n # job[p].m)
  BY <1>0 DEF Typed, JobsOK, Jobs, target, TypeInv, HandlersOK
<1>p. Phase(job[p]) BY <1>0 DEF CalmParts, InPhase
<1>e. \A e \in Entries : e.st = "active" => e = Active(e.acl)
  BY DEF Entries, Active, Absent, MBTYPE_RESERVE
<1>1. PICK l \in {"idle", "mdelete", "close"} :
        /\ Moves(p, l)
        /\ Keeps(p)
        /\ l = "idle" <=> job[p].op = "create"
        /\ l = "mdelete" => job[p].op = "rename"
        /\ faults'.lost = 0 => /\ faults.lost = 0 /\ mup'[target(job[p])] = Active(job[p].acl)
                            /\ (job[p].op = "rename" => l = "mdelete")
        /\ \A k \in Names \ {target(job[p])} : mup'[k] = mup[k]
        /\ UNCHANGED <<db, hdr, idx, hlock>>
  <2>1. \A n \in Names, acl \in 0..MaxOps :
          /\ \A o \in mupdate(mup, "activate", n, acl) : Answer(o, mup, "activate", n, acl)
          /\ \A o \in mupdate_retry(mup, "activate", n, acl) : Answer(o, mup, "activate", n, acl)
    BY SentAnswer, RetryAnswer DEF TypeInv, ListsOK
  <2>2. job[p].acl \in 0..MaxOps /\ 0 \in 0..MaxOps /\ target(job[p]) \in Names
    BY <1>0, <1>n, BoundAssumption DEF JobsOK, Jobs
  <2>3. job[p].op \in {"create", "rename", "setacl"}
    BY <1>0 DEF mupdate_activate, Typed, At, Handler, CreatePcs, RenamePcs, DeletePcs, SetaclPcs
  <2>4. cmd_set(mup, "activate", target(job[p]), job[p].acl) =
          [d |-> [mup EXCEPT ![target(job[p])] = Active(job[p].acl)], ok |-> TRUE]
    BY DEF cmd_set
  <2>5. UNCHANGED <<db, hdr, idx, hlock>> BY DEF mupdate_activate, files
  <2>m. mup \in [Names -> Entries] BY DEF TypeInv, ListsOK
  <2>6. CASE job[p].op = "create"
    <3>1. target(job[p]) = job[p].n BY <2>6 DEF target
    <3>2. \A o \in mupdate_retry(mup, "activate", job[p].n, job[p].acl) : Answer(o, mup,
        "activate", job[p].n, job[p].acl) BY <2>1, <2>2, <1>n
    <3>3. Outcome(p, mupdate_retry(mup, "activate", job[p].n, job[p].acl), "idle", "idle")
      BY <2>6, <2>2 DEF mupdate_activate
    <3>4. PICK ok \in Pcs, bad \in Pcs : ok = "idle" /\ bad = "idle"
      BY DEF Pcs, CreatePcs, RenamePcs, DeletePcs, SetaclPcs
    <3>o. Outcome(p, mupdate_retry(mup, "activate", job[p].n, job[p].acl), ok, bad) BY <3>3, <3>4
    <3>5. \E l \in {ok, bad} :
            /\ Moves(p, l) /\ Keeps(p)
            /\ \A k \in Names \ {job[p].n} : mup'[k] = mup[k]
            /\ faults'.lost = 0 => /\ faults.lost = 0 /\ mup' = cmd_set(mup, "activate", job[p].n, job[p].acl).d
                                   /\ cmd_set(mup, "activate", job[p].n, job[p].acl).ok => l = ok
      BY <3>2, <3>o, <1>n, OutcomeFacts
    <3> QED BY <3>4, <2>2, <2>4, <2>5, <2>6, <2>m, <3>1, <3>5, <1>n
  <2>7. CASE job[p].op = "rename"
    <3>1. target(job[p]) = job[p].m BY <2>7 DEF target
    <3>2. \A o \in mupdate_retry(mup, "activate", job[p].m, job[p].acl) : Answer(o, mup,
        "activate", job[p].m, job[p].acl) BY <2>1, <2>2, <1>n
    <3>3. Outcome(p, mupdate_retry(mup, "activate", job[p].m, job[p].acl), "mdelete", "close")
      BY <2>7, <2>2 DEF mupdate_activate
    <3>4. "mdelete" \in Pcs /\ "close" \in Pcs
      BY DEF Pcs, CreatePcs, RenamePcs, DeletePcs, SetaclPcs
    <3> DEFINE outcomes == mupdate_retry(mup, "activate", job[p].m, job[p].acl)
    <3> HIDE DEF outcomes
    <3>5. \E l \in {"mdelete", "close"} :
            /\ Moves(p, l) /\ Keeps(p)
            /\ \A k \in Names \ {job[p].m} : mup'[k] = mup[k]
            /\ faults'.lost = 0 => /\ faults.lost = 0 /\ mup' = cmd_set(mup, "activate", job[p].m, job[p].acl).d
                                   /\ cmd_set(mup, "activate", job[p].m, job[p].acl).ok => l = "mdelete"
      BY <3>2, <3>3, <3>4, <1>n, OutcomeFacts DEF outcomes
    <3> QED BY <2>2, <2>4, <2>5, <2>7, <2>m, <3>1, <3>5, <1>n
  <2>8. CASE job[p].op = "setacl"
    <3>1. target(job[p]) = job[p].n BY <2>8 DEF target
    <3>2. \A o \in mupdate(mup, "activate", job[p].n, job[p].acl) : Answer(o, mup, "activate",
        job[p].n, job[p].acl) BY <2>1, <2>2, <1>n
    <3>3. Outcome(p, mupdate(mup, "activate", job[p].n, job[p].acl), "close", "close")
      BY <2>8, <2>2 DEF mupdate_activate
    <3>4. PICK ok \in Pcs, bad \in Pcs : ok = "close" /\ bad = "close"
      BY DEF Pcs, CreatePcs, RenamePcs, DeletePcs, SetaclPcs
    <3>o. Outcome(p, mupdate(mup, "activate", job[p].n, job[p].acl), ok, bad) BY <3>3, <3>4
    <3>5. \E l \in {ok, bad} :
            /\ Moves(p, l) /\ Keeps(p)
            /\ \A k \in Names \ {job[p].n} : mup'[k] = mup[k]
            /\ faults'.lost = 0 => /\ faults.lost = 0 /\ mup' = cmd_set(mup, "activate", job[p].n, job[p].acl).d
                                   /\ cmd_set(mup, "activate", job[p].n, job[p].acl).ok => l = ok
      BY <3>2, <3>o, <1>n, OutcomeFacts
    <3> QED BY <3>4, <2>2, <2>4, <2>5, <2>8, <2>m, <3>1, <3>5, <1>n
  <2> QED BY <2>3, <2>6, <2>7, <2>8
<1>2. l \in Pcs BY DEF Pcs, CreatePcs, RenamePcs, DeletePcs, SetaclPcs
<1>3. Frame(p)
  BY <1>0, <1>1, <1>n DEF Frame, Typed
<1>4. l # "idle" => Phase(job[p])'
  BY <1>0, <1>1, <1>n, <1>p, <1>e DEF mupdate_activate, At, Typed, Moves, Keeps, Handler,
     target, Phase, NewPhase, OldPhase, AclPhase, Good, HasFiles, Known, MadePcs, Active,
     Absent, CreatePcs, RenamePcs, DeletePcs, SetaclPcs
<1>5. l = "idle" => Good(job[p].n)' /\ Good(job[p].m)'
  BY <1>0, <1>1, <1>n, <1>p, <1>e DEF mupdate_activate, At, Typed, Moves, Keeps, Handler,
     target, Phase, NewPhase, OldPhase, AclPhase, Good, HasFiles, Known, MadePcs, Active,
     Absent, CreatePcs, RenamePcs, DeletePcs, SetaclPcs
<1> QED BY <1>0, <1>1, <1>2, <1>3, <1>4, <1>5, Local

(* The old entry at the MUPDATE master goes.                                *)
LEMMA MdeleteCalm ==
  ASSUME TypeInv, CalmParts, NEW p \in Procs, mupdate_delete(p)
  PROVE  CalmParts'
<1>0. Typed /\ JobsOK /\ job[p].pc # "idle" BY TypeInvTyped DEF TypeInv, mupdate_delete, At
<1>n. job[p].n \in Names /\ job[p].m \in Names /\ target(job[p]) \in {job[p].n, job[p].m}
      /\ (job[p].op = "rename" <=> job[p].n # job[p].m)
  BY <1>0 DEF Typed, JobsOK, Jobs, target, TypeInv, HandlersOK
<1>p. Phase(job[p]) BY <1>0 DEF CalmParts, InPhase
<1>1. PICK l \in {"cleanup", "close", "rm", "idle"} :
        /\ Moves(p, l)
        /\ Keeps(p)
        /\ l \in {"cleanup", "close"} <=> job[p].op = "rename"
        /\ faults'.lost = 0 => faults.lost = 0 /\ mup'[job[p].n] = Absent
        /\ \A k \in Names \ {job[p].n} : mup'[k] = mup[k]
        /\ UNCHANGED <<db, hdr, idx, hlock>>
  <2>1. \A n \in Names, acl \in 0..MaxOps :
          /\ \A o \in mupdate(mup, "delete", n, acl) : Answer(o, mup, "delete", n, acl)
          /\ \A o \in mupdate_retry(mup, "delete", n, acl) : Answer(o, mup, "delete", n, acl)
    BY SentAnswer, RetryAnswer DEF TypeInv, ListsOK
  <2>2. job[p].acl \in 0..MaxOps /\ 0 \in 0..MaxOps /\ target(job[p]) \in Names
    BY <1>0, <1>n, BoundAssumption DEF JobsOK, Jobs
  <2>3. job[p].op \in {"rename", "delete"}
    BY <1>0 DEF mupdate_delete, Typed, At, Handler, CreatePcs, RenamePcs, DeletePcs, SetaclPcs
  <2>m. mup \in [Names -> Entries] BY DEF TypeInv, ListsOK
  <2>4. cmd_set(mup, "delete", job[p].n, 0).d[job[p].n] = Absent
    BY <2>m, <1>n DEF cmd_set
  <2>5. UNCHANGED <<db, hdr, idx, hlock>> BY DEF mupdate_delete, files
  <2>6. CASE job[p].op = "rename"
    <3>2. \A o \in mupdate_retry(mup, "delete", job[p].n, 0) : Answer(o, mup, "delete",
        job[p].n, 0) BY <2>1, <2>2, <1>n
    <3>3. Outcome(p, mupdate_retry(mup, "delete", job[p].n, 0), "cleanup", "close")
      BY <2>6, <2>2 DEF mupdate_delete
    <3>4. "cleanup" \in Pcs /\ "close" \in Pcs
      BY DEF Pcs, CreatePcs, RenamePcs, DeletePcs, SetaclPcs
    <3> DEFINE outcomes == mupdate_retry(mup, "delete", job[p].n, 0)
    <3> HIDE DEF outcomes
    <3>5. \E l \in {"cleanup", "close"} :
            /\ Moves(p, l) /\ Keeps(p)
            /\ \A k \in Names \ {job[p].n} : mup'[k] = mup[k]
            /\ faults'.lost = 0 => /\ faults.lost = 0 /\ mup' = cmd_set(mup, "delete", job[p].n, 0).d
                                   /\ cmd_set(mup, "delete", job[p].n, 0).ok => l = "cleanup"
      BY <3>2, <3>3, <3>4, <1>n, OutcomeFacts DEF outcomes
    <3> QED BY <2>2, <2>4, <2>5, <2>6, <2>m, <3>5, <1>n
  <2>7. CASE job[p].op = "delete"
    <3>2. \A o \in mupdate(mup, "delete", job[p].n, 0) : Answer(o, mup, "delete", job[p].n, 0)
      BY <2>1, <2>2, <1>n
    <3>3. Outcome(p, mupdate(mup, "delete", job[p].n, 0), "rm", "idle")
      BY <2>7, <2>2 DEF mupdate_delete
    <3>4. "rm" \in Pcs /\ "idle" \in Pcs BY DEF Pcs, CreatePcs, RenamePcs, DeletePcs, SetaclPcs
    <3> DEFINE outcomes == mupdate(mup, "delete", job[p].n, 0)
    <3> HIDE DEF outcomes
    <3>5. \E l \in {"rm", "idle"} :
            /\ Moves(p, l) /\ Keeps(p)
            /\ \A k \in Names \ {job[p].n} : mup'[k] = mup[k]
            /\ faults'.lost = 0 => /\ faults.lost = 0 /\ mup' = cmd_set(mup, "delete", job[p].n, 0).d
                                   /\ cmd_set(mup, "delete", job[p].n, 0).ok => l = "rm"
      BY <3>2, <3>3, <3>4, <1>n, OutcomeFacts DEF outcomes
    <3> QED BY <2>2, <2>4, <2>5, <2>7, <2>m, <3>5, <1>n
  <2> QED BY <2>3, <2>6, <2>7
<1>2. l \in Pcs BY DEF Pcs, CreatePcs, RenamePcs, DeletePcs, SetaclPcs
<1>3. Frame(p)
  BY <1>0, <1>1, <1>n DEF Frame, Typed
<1>4. l # "idle" => Phase(job[p])'
  BY <1>0, <1>1, <1>n, <1>p DEF mupdate_delete, At, Typed, Moves, Keeps, Handler, target, Phase,
     NewPhase, OldPhase, AclPhase, Good, HasFiles, Known, MadePcs, Absent, CreatePcs, RenamePcs,
     DeletePcs, SetaclPcs
<1>5. l = "idle" => Good(job[p].n)' /\ Good(job[p].m)'
  BY <1>0, <1>1, <1>n, <1>p DEF mupdate_delete, At, Typed, Moves, Keeps, Handler, target, Phase,
     NewPhase, OldPhase, AclPhase, Good, HasFiles, Known, MadePcs, Absent, CreatePcs, RenamePcs,
     DeletePcs, SetaclPcs
<1> QED BY <1>0, <1>1, <1>2, <1>3, <1>4, <1>5, Local

(* The reservation at the MUPDATE master goes.                              *)
LEMMA UnreserveCalm ==
  ASSUME TypeInv, CalmParts, NEW p \in Procs, unreserve(p)
  PROVE  CalmParts'
<1>0. Typed /\ JobsOK /\ job[p].pc # "idle" BY TypeInvTyped DEF TypeInv, unreserve, At
<1>n. job[p].n \in Names /\ job[p].m \in Names /\ target(job[p]) \in {job[p].n, job[p].m}
      /\ (job[p].op = "rename" <=> job[p].n # job[p].m)
  BY <1>0 DEF Typed, JobsOK, Jobs, target, TypeInv, HandlersOK
<1>p. Phase(job[p]) BY <1>0 DEF CalmParts, InPhase
<1>1. PICK l \in {"close"} :
        /\ Moves(p, l)
        /\ Keeps(p)
        /\ faults'.lost = 0 => faults.lost = 0 /\ mup'[target(job[p])] = Absent
        /\ \A k \in Names \ {target(job[p])} : mup'[k] = mup[k]
        /\ UNCHANGED <<db, hdr, idx, hlock>>
  <2>1. \A n \in Names, acl \in 0..MaxOps :
          /\ \A o \in mupdate(mup, "delete", n, acl) : Answer(o, mup, "delete", n, acl)
          /\ \A o \in mupdate_retry(mup, "delete", n, acl) : Answer(o, mup, "delete", n, acl)
    BY SentAnswer, RetryAnswer DEF TypeInv, ListsOK
  <2>2. job[p].acl \in 0..MaxOps /\ 0 \in 0..MaxOps /\ target(job[p]) \in Names
    BY <1>0, <1>n, BoundAssumption DEF JobsOK, Jobs
  <2>m. mup \in [Names -> Entries] BY DEF TypeInv, ListsOK
  <2>4. cmd_set(mup, "delete", target(job[p]), 0).d[target(job[p])] = Absent
    BY <2>m, <2>2 DEF cmd_set
  <2>5. UNCHANGED <<db, hdr, idx, hlock>> BY DEF unreserve, files
  <2>6. \A o \in mupdate_retry(mup, "delete", target(job[p]), 0) : Answer(o, mup, "delete",
      target(job[p]), 0) BY <2>1, <2>2, <1>n
  <2>7. Outcome(p, mupdate_retry(mup, "delete", target(job[p]), 0), "close", "close")
    BY <2>2 DEF unreserve
  <2>8. PICK ok \in Pcs, bad \in Pcs : ok = "close" /\ bad = "close"
    BY DEF Pcs, CreatePcs, RenamePcs, DeletePcs, SetaclPcs
  <2>o. Outcome(p, mupdate_retry(mup, "delete", target(job[p]), 0), ok, bad) BY <2>7, <2>8
  <2>9. \E l \in {ok, bad} :
          /\ Moves(p, l) /\ Keeps(p)
          /\ \A k \in Names \ {target(job[p])} : mup'[k] = mup[k]
          /\ faults'.lost = 0 => /\ faults.lost = 0 /\ mup' = cmd_set(mup, "delete", target(job[p]), 0).d
                                 /\ cmd_set(mup, "delete", target(job[p]), 0).ok => l = ok
    BY <2>2, <2>6, <2>o, OutcomeFacts
  <2> QED BY <2>8, <2>2, <2>4, <2>5, <2>m, <2>9
<1>2. l \in Pcs BY DEF Pcs, CreatePcs, RenamePcs, DeletePcs, SetaclPcs
<1>3. Frame(p)
  BY <1>0, <1>1, <1>n DEF Frame, Typed
<1>4. l # "idle" => Phase(job[p])'
  BY <1>0, <1>1, <1>n, <1>p DEF unreserve, At, Typed, Moves, Keeps, Handler, target, Phase,
     NewPhase, OldPhase, AclPhase, Good, HasFiles, Known, MadePcs, Absent, CreatePcs, RenamePcs,
     DeletePcs, SetaclPcs
<1>5. l = "idle" => Good(job[p].n)' /\ Good(job[p].m)'
  BY <1>0, <1>1, <1>n, <1>p DEF unreserve, At, Typed, Moves, Keeps, Handler, target, Phase,
     NewPhase, OldPhase, AclPhase, Good, HasFiles, Known, MadePcs, CreatePcs, RenamePcs,
     DeletePcs, SetaclPcs
<1> QED BY <1>0, <1>1, <1>2, <1>3, <1>4, <1>5, Local

(* RENAME takes the old entry away and activates its reservation.           *)
LEMMA RenameCommitCalm ==
  ASSUME TypeInv, CalmParts, NEW p \in Procs, rename_commit(p)
  PROVE  CalmParts'
<1>0. Typed /\ JobsOK /\ job[p].pc # "idle" BY TypeInvTyped DEF TypeInv, rename_commit, At
<1>n. job[p].n \in Names /\ job[p].m \in Names /\ target(job[p]) \in {job[p].n, job[p].m}
      /\ (job[p].op = "rename" <=> job[p].n # job[p].m)
  BY <1>0 DEF Typed, JobsOK, Jobs, target, TypeInv, HandlersOK
<1>p. Phase(job[p]) BY <1>0 DEF CalmParts, InPhase
<1>1. PICK l \in {"activate", "undo"} :
        /\ Moves(p, l)
        /\ Keeps(p)
        /\ l = "undo" => db' = db
        /\ l = "activate" => db'[job[p].n] = Absent /\ db'[target(job[p])] = Active(job[p].acl)
        /\ \A n \in Names \ {job[p].n, job[p].m} : db'[n] = db[n]
        /\ \A n \in Names : hlock'[n] \in {hlock[n], NoProc}
        /\ UNCHANGED <<mup, hdr, idx, faults>>
  <2>1. target(job[p]) = job[p].m BY DEF rename_commit, target
  <2>2. CASE Goto(p, "activate") /\ db' = [db EXCEPT ![job[p].n] = Absent, ![job[p].m] = Active(job[p].acl)] /\ hlock' = hlock
    <3>1. Moves(p, "activate") /\ Keeps(p) BY <2>2, <1>0, GotoKeeps DEF Pcs, CreatePcs
    <3> QED BY <2>1, <2>2, <3>1, <1>0, <1>n DEF Typed, rename_commit, files
  <2>3. CASE job' = [job EXCEPT ![p].pc = "undo", ![p].r = -1] /\ hlock' = Unlocked(p, job[p].m) /\ db' = db
    <3>1. Moves(p, "undo") /\ Keeps(p) BY <2>3, <1>0, UndoKeeps
    <3> QED BY <2>1, <2>3, <3>1, <1>0, <1>n DEF Typed, rename_commit, files, Unlocked
  <2> QED BY <2>2, <2>3 DEF rename_commit
<1>2. l \in Pcs BY DEF Pcs, CreatePcs, RenamePcs, DeletePcs, SetaclPcs
<1>3. Frame(p)
  BY <1>0, <1>1, <1>n DEF Frame, Typed
<1>4. l # "idle" => Phase(job[p])'
  BY <1>0, <1>1, <1>n, <1>p DEF rename_commit, At, Typed, Moves, Keeps, Handler, target, Phase,
     NewPhase, OldPhase, AclPhase, Good, HasFiles, Known, MadePcs, CreatePcs, RenamePcs,
     DeletePcs, SetaclPcs
<1>5. l = "idle" => Good(job[p].n)' /\ Good(job[p].m)'
  BY <1>0, <1>1, <1>n, <1>p DEF rename_commit, At, Typed, Moves, Keeps, Handler, target, Phase,
     NewPhase, OldPhase, AclPhase, Good, HasFiles, Known, MadePcs, CreatePcs, RenamePcs,
     DeletePcs, SetaclPcs
<1> QED BY <1>0, <1>1, <1>2, <1>3, <1>4, <1>5, Local

(* RENAME closes the new mailbox and turns to the old one.                  *)
LEMMA CleanupCalm ==
  ASSUME TypeInv, CalmParts, NEW p \in Procs, rename_cleanup(p)
  PROVE  CalmParts'
<1>0. Typed /\ JobsOK /\ job[p].pc # "idle" BY TypeInvTyped DEF TypeInv, rename_cleanup, At
<1>n. job[p].n \in Names /\ job[p].m \in Names /\ target(job[p]) \in {job[p].n, job[p].m}
      /\ (job[p].op = "rename" <=> job[p].n # job[p].m)
  BY <1>0 DEF Typed, JobsOK, Jobs, target, TypeInv, HandlersOK
<1>p. Phase(job[p]) BY <1>0 DEF CalmParts, InPhase
<1>1. PICK l \in {"rm", "idle"} :
        /\ Moves(p, l)
        /\ Keeps(p)
        /\ \A n \in Names : hlock'[n] \in {hlock[n], NoProc}
        /\ UNCHANGED <<db, mup, hdr, idx, faults>>
  <2>1. PICK l \in {"rm", "idle"} : Goto(p, l) BY DEF rename_cleanup
  <2>2. Moves(p, l) /\ Keeps(p)
    BY <2>1, <1>0, GotoKeeps DEF Pcs, CreatePcs, RenamePcs, DeletePcs, SetaclPcs
  <2> QED BY <2>2, <1>0 DEF rename_cleanup, lists, files, history, Typed, Unlocked
<1>2. l \in Pcs BY DEF Pcs, CreatePcs, RenamePcs, DeletePcs, SetaclPcs
<1>3. Frame(p)
  BY <1>0, <1>1, <1>n DEF Frame, Typed
<1>4. l # "idle" => Phase(job[p])'
  BY <1>0, <1>1, <1>n, <1>p DEF rename_cleanup, At, Typed, Moves, Keeps, Handler, target, Phase,
     NewPhase, OldPhase, AclPhase, Good, HasFiles, Known, MadePcs, CreatePcs, RenamePcs,
     DeletePcs, SetaclPcs
<1>5. l = "idle" => Good(job[p].n)' /\ Good(job[p].m)'
  BY <1>0, <1>1, <1>n, <1>p DEF rename_cleanup, At, Typed, Moves, Keeps, Handler, target, Phase,
     NewPhase, OldPhase, AclPhase, Good, HasFiles, Known, MadePcs, CreatePcs, RenamePcs,
     DeletePcs, SetaclPcs
<1> QED BY <1>0, <1>1, <1>2, <1>3, <1>4, <1>5, Local

(* The files of a name that is out of the list go.                          *)
LEMMA RmCalm ==
  ASSUME TypeInv, CalmParts, NEW p \in Procs, mailbox_delete(p)
  PROVE  CalmParts'
<1>0. Typed /\ JobsOK /\ job[p].pc # "idle" BY TypeInvTyped DEF TypeInv, mailbox_delete, At
<1>n. job[p].n \in Names /\ job[p].m \in Names /\ target(job[p]) \in {job[p].n, job[p].m}
      /\ (job[p].op = "rename" <=> job[p].n # job[p].m)
  BY <1>0 DEF Typed, JobsOK, Jobs, target, TypeInv, HandlersOK
<1>p. Phase(job[p]) BY <1>0 DEF CalmParts, InPhase
<1>1. PICK l \in {"rm", "idle"} :
        /\ Moves(p, l)
        /\ Keeps(p)
        /\ db[job[p].n].st # "active"
        /\ \A n \in Names \ {job[p].n} : hdr'[n] = hdr[n] /\ idx'[n] = idx[n]
        /\ \A n \in Names : hlock'[n] \in {hlock[n], NoProc}
        /\ UNCHANGED <<db, mup, faults>>
  <2>1. PICK l \in {"rm", "idle"} : Moves(p, l) /\ Keeps(p)
    BY <1>0, GotoKeeps DEF mailbox_delete, Pcs, CreatePcs, Moves, Keeps, At
  <2>3. db[job[p].n].st # "active"
    BY <1>0, <1>p DEF mailbox_delete, At, Typed, Handler, Phase, OldPhase, Absent, CreatePcs,
       RenamePcs, DeletePcs, SetaclPcs
  <2> QED BY <2>1, <2>3, <1>0, <1>n DEF mailbox_delete, lists, history, Typed
<1>2. l \in Pcs BY DEF Pcs, CreatePcs, RenamePcs, DeletePcs, SetaclPcs
<1>3. Frame(p)
  BY <1>0, <1>1, <1>n DEF Frame, Typed
<1>4. l # "idle" => Phase(job[p])'
  BY <1>0, <1>1, <1>n, <1>p DEF mailbox_delete, At, Typed, Moves, Keeps, Handler, target, Phase,
     NewPhase, OldPhase, AclPhase, Good, HasFiles, Known, MadePcs, CreatePcs, RenamePcs,
     DeletePcs, SetaclPcs
<1>5. l = "idle" => Good(job[p].n)' /\ Good(job[p].m)'
  BY <1>0, <1>1, <1>n, <1>p DEF mailbox_delete, At, Typed, Moves, Keeps, Handler, target, Phase,
     NewPhase, OldPhase, AclPhase, Good, HasFiles, Known, MadePcs, CreatePcs, RenamePcs,
     DeletePcs, SetaclPcs
<1> QED BY <1>0, <1>1, <1>2, <1>3, <1>4, <1>5, Local

(* A reservation is taken back: nobody waits for p.                         *)
LEMMA UndoCalm ==
  ASSUME TypeInv, CalmParts, NEW p \in Procs, undo(p)
  PROVE  CalmParts'
<1>0. Typed /\ JobsOK /\ job[p].pc # "idle" BY TypeInvTyped DEF TypeInv, undo, At
<1>n. job[p].n \in Names /\ job[p].m \in Names /\ target(job[p]) \in {job[p].n, job[p].m}
      /\ (job[p].op = "rename" <=> job[p].n # job[p].m)
  BY <1>0 DEF Typed, JobsOK, Jobs, target, TypeInv, HandlersOK
<1>p. Phase(job[p]) BY <1>0 DEF CalmParts, InPhase
<1>1. PICK l \in {"unreserve", "close"} :
        /\ Moves(p, l)
        /\ Keeps(p)
        /\ l = "unreserve" <=> job[p].made = TRUE
        /\ db' = [db EXCEPT ![target(job[p])] = Absent]
        /\ UNCHANGED <<mup, hdr, idx, hlock, faults>>
  <2>1. ~EDEADLK(p) BY <1>0, NobodyWaits DEF undo, At, InTransaction
  <2>2. PICK l \in {"unreserve", "close"} : Goto(p, l) /\ (l = "unreserve" <=> job[p].made = TRUE)
    <3>1. job[p].made \in BOOLEAN BY <1>0 DEF JobsOK, Jobs
    <3> QED BY <3>1 DEF undo
  <2>3. Moves(p, l) /\ Keeps(p) BY <2>2, <1>0, GotoKeeps DEF Pcs, CreatePcs
  <2>4. db' = [db EXCEPT ![target(job[p])] = Absent] BY <2>1 DEF undo
  <2> QED BY <2>2, <2>3, <2>4 DEF undo, files, history
<1>2. l \in Pcs BY DEF Pcs, CreatePcs, RenamePcs, DeletePcs, SetaclPcs
<1>3. Frame(p)
  BY <1>0, <1>1, <1>n DEF Frame, Typed
<1>4. l # "idle" => Phase(job[p])'
  BY <1>0, <1>1, <1>n, <1>p DEF undo, At, Typed, Moves, Keeps, Handler, target, Phase, NewPhase,
     OldPhase, AclPhase, Good, HasFiles, Known, MadePcs, Absent, Active, MBTYPE_RESERVE,
     CreatePcs, RenamePcs, DeletePcs, SetaclPcs
<1>5. l = "idle" => Good(job[p].n)' /\ Good(job[p].m)'
  BY <1>0, <1>1, <1>n, <1>p DEF undo, At, Typed, Moves, Keeps, Handler, target, Phase, NewPhase,
     OldPhase, AclPhase, Good, HasFiles, Known, MadePcs, CreatePcs, RenamePcs, DeletePcs,
     SetaclPcs
<1> QED BY <1>0, <1>1, <1>2, <1>3, <1>4, <1>5, Local

(* The mailboxes that are open are closed.                                  *)
LEMMA CloseCalm ==
  ASSUME TypeInv, CalmParts, NEW p \in Procs, close(p)
  PROVE  CalmParts'
<1>0. Typed /\ JobsOK /\ job[p].pc # "idle" BY TypeInvTyped DEF TypeInv, close, At
<1>n. job[p].n \in Names /\ job[p].m \in Names /\ target(job[p]) \in {job[p].n, job[p].m}
      /\ (job[p].op = "rename" <=> job[p].n # job[p].m)
  BY <1>0 DEF Typed, JobsOK, Jobs, target, TypeInv, HandlersOK
<1>p. Phase(job[p]) BY <1>0 DEF CalmParts, InPhase
<1>1. PICK l \in {"idle"} :
        /\ Moves(p, l)
        /\ Keeps(p)
        /\ \A n \in Names : hlock'[n] \in {hlock[n], NoProc}
        /\ UNCHANGED <<db, mup, hdr, idx, faults>>
  BY <1>0, GotoKeeps, UndoKeeps DEF close, lists, files, history, Pcs, CreatePcs, RenamePcs,
     DeletePcs, SetaclPcs
<1>2. l \in Pcs BY DEF Pcs, CreatePcs, RenamePcs, DeletePcs, SetaclPcs
<1>3. Frame(p)
  BY <1>0, <1>1, <1>n DEF Frame, Typed
<1>4. l # "idle" => Phase(job[p])'
  BY <1>0, <1>1, <1>n, <1>p DEF close, At, Typed, Moves, Keeps, Handler, target, Phase,
     NewPhase, OldPhase, AclPhase, Good, HasFiles, Known, MadePcs, CreatePcs, RenamePcs,
     DeletePcs, SetaclPcs
<1>5. l = "idle" => Good(job[p].n)' /\ Good(job[p].m)'
  BY <1>0, <1>1, <1>n, <1>p DEF close, At, Typed, Moves, Keeps, Handler, target, Phase,
     NewPhase, OldPhase, AclPhase, Good, HasFiles, Known, MadePcs, CreatePcs, RenamePcs,
     DeletePcs, SetaclPcs
<1> QED BY <1>0, <1>1, <1>2, <1>3, <1>4, <1>5, Local

(* DELETE and SETACL lock the mailbox.                                      *)
LEMMA LockboxCalm ==
  ASSUME TypeInv, CalmParts, NEW p \in Procs, lockbox(p)
  PROVE  CalmParts'
<1>0. Typed /\ JobsOK /\ job[p].pc # "idle" BY TypeInvTyped DEF TypeInv, lockbox, At
<1>n. job[p].n \in Names /\ job[p].m \in Names /\ target(job[p]) \in {job[p].n, job[p].m}
      /\ (job[p].op = "rename" <=> job[p].n # job[p].m)
  BY <1>0 DEF Typed, JobsOK, Jobs, target, TypeInv, HandlersOK
<1>p. Phase(job[p]) BY <1>0 DEF CalmParts, InPhase
<1>1. PICK l \in {"idle", "commit", "relook"} :
        /\ Moves(p, l)
        /\ Keeps(p)
        /\ l = "commit" <=> l # "idle" /\ job[p].op = "delete"
        /\ hlock' = hlock \/ hlock' = [hlock EXCEPT ![job[p].n] = p]
        /\ UNCHANGED <<db, mup, hdr, idx, faults>>
  BY <1>0, GotoKeeps, UndoKeeps DEF lockbox, lists, files, history, Pcs, CreatePcs, RenamePcs,
     DeletePcs, SetaclPcs
<1>2. l \in Pcs BY DEF Pcs, CreatePcs, RenamePcs, DeletePcs, SetaclPcs
<1>3. Frame(p)
  BY <1>0, <1>1, <1>n DEF Frame, Typed
<1>4. l # "idle" => Phase(job[p])'
  <2>1. job[p].pc = "lockbox" /\ job[p].op \in {"delete", "setacl"}
    BY <1>0 DEF lockbox, At, Typed, Handler, CreatePcs, RenamePcs, DeletePcs, SetaclPcs
  <2>2. /\ job'[p].pc = l /\ job'[p].op = job[p].op /\ job'[p].n = job[p].n
        /\ job'[p].acl = job[p].acl
    BY <1>1 DEF Moves, Keeps
  <2>3. CASE job[p].op = "delete"
    <3>1. db[job[p].n].st = "active" BY <2>1, <2>3 DEF TypeInv, EntrySeen, InTransaction
    <3>2. Good(job[p].n) BY <2>1, <2>3, <1>p DEF Phase, OldPhase
    <3> QED BY <2>1, <2>2, <2>3, <3>1, <3>2, <1>1 DEF Phase, OldPhase, Good, MadePcs
  <2>4. CASE job[p].op = "setacl"
    <3>1. Good(job[p].n) /\ db[job[p].n].st = "active" BY <2>1, <2>4, <1>p DEF Phase, AclPhase
    <3> QED BY <2>1, <2>2, <2>4, <3>1, <1>1 DEF Phase, AclPhase, Good
  <2> QED BY <2>1, <2>3, <2>4
<1>5. l = "idle" => Good(job[p].n)' /\ Good(job[p].m)'
  BY <1>0, <1>1, <1>n, <1>p DEF lockbox, At, Typed, Moves, Keeps, Handler, target, Phase,
     NewPhase, OldPhase, AclPhase, Good, HasFiles, Known, MadePcs, CreatePcs, RenamePcs,
     DeletePcs, SetaclPcs
<1> QED BY <1>0, <1>1, <1>2, <1>3, <1>4, <1>5, Local

(* DELETE takes the entry away.                                             *)
LEMMA DeleteCommitCalm ==
  ASSUME TypeInv, CalmParts, NEW p \in Procs, delete_commit(p)
  PROVE  CalmParts'
<1>0. Typed /\ JobsOK /\ job[p].pc # "idle" BY TypeInvTyped DEF TypeInv, delete_commit, At
<1>n. job[p].n \in Names /\ job[p].m \in Names /\ target(job[p]) \in {job[p].n, job[p].m}
      /\ (job[p].op = "rename" <=> job[p].n # job[p].m)
  BY <1>0 DEF Typed, JobsOK, Jobs, target, TypeInv, HandlersOK
<1>p. Phase(job[p]) BY <1>0 DEF CalmParts, InPhase
<1>1. PICK l \in {"mdelete"} :
        /\ Moves(p, l)
        /\ Keeps(p)
        /\ db' = [db EXCEPT ![job[p].n] = Absent]
        /\ UNCHANGED <<mup, hdr, idx, hlock, faults>>
  BY <1>0, GotoKeeps, UndoKeeps DEF delete_commit, lists, files, history, Pcs, CreatePcs,
     RenamePcs, DeletePcs, SetaclPcs
<1>2. l \in Pcs BY DEF Pcs, CreatePcs, RenamePcs, DeletePcs, SetaclPcs
<1>3. Frame(p)
  BY <1>0, <1>1, <1>n DEF Frame, Typed
<1>4. l # "idle" => Phase(job[p])'
  BY <1>0, <1>1, <1>n, <1>p DEF delete_commit, At, Typed, Moves, Keeps, Handler, target, Phase,
     NewPhase, OldPhase, AclPhase, Good, HasFiles, Known, MadePcs, CreatePcs, RenamePcs,
     DeletePcs, SetaclPcs
<1>5. l = "idle" => Good(job[p].n)' /\ Good(job[p].m)'
  BY <1>0, <1>1, <1>n, <1>p DEF delete_commit, At, Typed, Moves, Keeps, Handler, target, Phase,
     NewPhase, OldPhase, AclPhase, Good, HasFiles, Known, MadePcs, CreatePcs, RenamePcs,
     DeletePcs, SetaclPcs
<1> QED BY <1>0, <1>1, <1>2, <1>3, <1>4, <1>5, Local

(* SETACL looks the name up again.                                          *)
LEMMA RelookCalm ==
  ASSUME TypeInv, CalmParts, NEW p \in Procs, relook(p)
  PROVE  CalmParts'
<1>0. Typed /\ JobsOK /\ job[p].pc # "idle" BY TypeInvTyped DEF TypeInv, relook, At
<1>n. job[p].n \in Names /\ job[p].m \in Names /\ target(job[p]) \in {job[p].n, job[p].m}
      /\ (job[p].op = "rename" <=> job[p].n # job[p].m)
  BY <1>0 DEF Typed, JobsOK, Jobs, target, TypeInv, HandlersOK
<1>p. Phase(job[p]) BY <1>0 DEF CalmParts, InPhase
<1>1. PICK l \in {"close", "header"} :
        /\ Moves(p, l)
        /\ Keeps(p)
        /\ UNCHANGED <<db, mup, hdr, idx, hlock, faults>>
  BY <1>0, GotoKeeps, UndoKeeps DEF relook, lists, files, history, Pcs, CreatePcs, RenamePcs,
     DeletePcs, SetaclPcs
<1>2. l \in Pcs BY DEF Pcs, CreatePcs, RenamePcs, DeletePcs, SetaclPcs
<1>3. Frame(p)
  BY <1>0, <1>1, <1>n DEF Frame, Typed
<1>4. l # "idle" => Phase(job[p])'
  BY <1>0, <1>1, <1>n, <1>p DEF relook, At, Typed, Moves, Keeps, Handler, target, Phase,
     NewPhase, OldPhase, AclPhase, Good, HasFiles, Known, MadePcs, CreatePcs, RenamePcs,
     DeletePcs, SetaclPcs
<1>5. l = "idle" => Good(job[p].n)' /\ Good(job[p].m)'
  BY <1>0, <1>1, <1>n, <1>p DEF relook, At, Typed, Moves, Keeps, Handler, target, Phase,
     NewPhase, OldPhase, AclPhase, Good, HasFiles, Known, MadePcs, CreatePcs, RenamePcs,
     DeletePcs, SetaclPcs
<1> QED BY <1>0, <1>1, <1>2, <1>3, <1>4, <1>5, Local

(* SETACL writes the header file.                                           *)
LEMMA HeaderCalm ==
  ASSUME TypeInv, CalmParts, NEW p \in Procs, write_header(p)
  PROVE  CalmParts'
<1>0. Typed /\ JobsOK /\ job[p].pc # "idle" BY TypeInvTyped DEF TypeInv, write_header, At
<1>n. job[p].n \in Names /\ job[p].m \in Names /\ target(job[p]) \in {job[p].n, job[p].m}
      /\ (job[p].op = "rename" <=> job[p].n # job[p].m)
  BY <1>0 DEF Typed, JobsOK, Jobs, target, TypeInv, HandlersOK
<1>p. Phase(job[p]) BY <1>0 DEF CalmParts, InPhase
<1>1. PICK l \in {"commit"} :
        /\ Moves(p, l)
        /\ Keeps(p)
        /\ hdr' = [hdr EXCEPT ![job[p].n] = job[p].acl]
        /\ UNCHANGED <<db, mup, idx, hlock, faults>>
  BY <1>0, GotoKeeps, UndoKeeps DEF write_header, lists, files, history, Pcs, CreatePcs,
     RenamePcs, DeletePcs, SetaclPcs
<1>2. l \in Pcs BY DEF Pcs, CreatePcs, RenamePcs, DeletePcs, SetaclPcs
<1>3. Frame(p)
  BY <1>0, <1>1, <1>n DEF Frame, Typed
<1>4. l # "idle" => Phase(job[p])'
  BY <1>0, <1>1, <1>n, <1>p DEF write_header, At, Typed, Moves, Keeps, Handler, target, Phase,
     NewPhase, OldPhase, AclPhase, Good, HasFiles, Known, MadePcs, CreatePcs, RenamePcs,
     DeletePcs, SetaclPcs
<1>5. l = "idle" => Good(job[p].n)' /\ Good(job[p].m)'
  BY <1>0, <1>1, <1>n, <1>p DEF write_header, At, Typed, Moves, Keeps, Handler, target, Phase,
     NewPhase, OldPhase, AclPhase, Good, HasFiles, Known, MadePcs, CreatePcs, RenamePcs,
     DeletePcs, SetaclPcs
<1> QED BY <1>0, <1>1, <1>2, <1>3, <1>4, <1>5, Local

(* SETACL changes the ACL of the entry.                                     *)
LEMMA SetaclCommitCalm ==
  ASSUME TypeInv, CalmParts, NEW p \in Procs, setacl_commit(p)
  PROVE  CalmParts'
<1>0. Typed /\ JobsOK /\ job[p].pc # "idle" BY TypeInvTyped DEF TypeInv, setacl_commit, At
<1>n. job[p].n \in Names /\ job[p].m \in Names /\ target(job[p]) \in {job[p].n, job[p].m}
      /\ (job[p].op = "rename" <=> job[p].n # job[p].m)
  BY <1>0 DEF Typed, JobsOK, Jobs, target, TypeInv, HandlersOK
<1>p. Phase(job[p]) BY <1>0 DEF CalmParts, InPhase
<1>1. PICK l \in {"activate"} :
        /\ Moves(p, l)
        /\ Keeps(p)
        /\ db'[job[p].n].st = db[job[p].n].st /\ db'[job[p].n].acl = job[p].acl
        /\ \A n \in Names \ {job[p].n} : db'[n] = db[n]
        /\ UNCHANGED <<mup, hdr, idx, hlock, faults>>
  <2>1. Moves(p, "activate") /\ Keeps(p)
    BY <1>0, GotoKeeps DEF setacl_commit, Pcs, CreatePcs, RenamePcs, DeletePcs, SetaclPcs
  <2>2. db[job[p].n] \in [st : {"absent", "reserved", "active"}, acl : Int]
    BY <1>0, <1>n, EntryRecords DEF Typed
  <2>3. db' = [db EXCEPT ![job[p].n] = [db[job[p].n] EXCEPT !.acl = job[p].acl]]
    BY DEF setacl_commit
  <2> QED BY <2>1, <2>2, <2>3, <1>0, <1>n DEF setacl_commit, files, history, Typed
<1>2. l \in Pcs BY DEF Pcs, CreatePcs, RenamePcs, DeletePcs, SetaclPcs
<1>3. Frame(p)
  BY <1>0, <1>1, <1>n DEF Frame, Typed
<1>4. l # "idle" => Phase(job[p])'
  BY <1>0, <1>1, <1>n, <1>p DEF setacl_commit, At, Typed, Moves, Keeps, Handler, target, Phase,
     NewPhase, OldPhase, AclPhase, Good, HasFiles, Known, MadePcs, CreatePcs, RenamePcs,
     DeletePcs, SetaclPcs
<1>5. l = "idle" => Good(job[p].n)' /\ Good(job[p].m)'
  BY <1>0, <1>1, <1>n, <1>p DEF setacl_commit, At, Typed, Moves, Keeps, Handler, target, Phase,
     NewPhase, OldPhase, AclPhase, Good, HasFiles, Known, MadePcs, CreatePcs, RenamePcs,
     DeletePcs, SetaclPcs
<1> QED BY <1>0, <1>1, <1>2, <1>3, <1>4, <1>5, Local

(* A process that ends between two requests lets go of its locks.          *)
LEMMA ExitCalm ==
  ASSUME TypeInv, CalmParts, NEW p \in Procs, Exit(p)
  PROVE  CalmParts'
<1>1. UNCHANGED <<job, db, mup, hdr, idx, faults>> BY DEF Exit, Gone, lists, files
<1>2. \A n \in Names : hlock'[n] \in {hlock[n], NoProc}
  BY TypeInvTyped DEF Exit, Gone, Typed
<1>3. Apart' BY <1>1 DEF CalmParts, Apart
<1>4. OwnLocks' BY <1>1, <1>2, NoProcAssumption DEF CalmParts, OwnLocks
<1>5. InPhase'
  BY <1>1 DEF CalmParts, InPhase, Phase, NewPhase, OldPhase, AclPhase, Good, HasFiles, Known
<1>6. Settled' BY <1>1 DEF CalmParts, Settled, Good
<1> QED BY <1>3, <1>4, <1>5, <1>6 DEF CalmParts

(* A request for names that nobody has.                                    *)
LEMMA RequestCalm ==
  ASSUME TypeInv, TypeInv', CalmParts, ~raced', NEW p \in Procs, NEW n \in Names, NEW m \in Names,
         NEW op \in {"create", "delete", "rename", "setacl"}, Request(p, op, n, m)
  PROVE  CalmParts'
<1>1. /\ job'[p].op = op /\ job'[p].n = n /\ job'[p].m = m
      /\ job'[p].pc = IF op \in {"create", "rename"} THEN "check" ELSE "lookup"
      /\ \A q \in Procs : q # p => job'[q] = job[q]
  <2> DEFINE l == IF op \in {"create", "rename"} THEN "check" ELSE "lookup"
             a == IF op = "setacl" THEN ops + 1 ELSE 0
             new == [IdleJob(n) EXCEPT !.op = op, !.m = m, !.pc = l, !.acl = a]
  <2>1. job' = [job EXCEPT ![p] = new] BY DEF Request
  <2>2. new.op = op /\ new.n = n /\ new.m = m /\ new.pc = l
    <3> HIDE DEF l, a
    <3> QED BY DEF IdleJob
  <2> HIDE DEF new, l
  <2>3. /\ job'[p].op = op /\ job'[p].n = n /\ job'[p].m = m /\ job'[p].pc = l
        /\ \A q \in Procs : q # p => job'[q] = job[q]
    BY <2>1, <2>2 DEF TypeInv, JobsOK
  <2> QED BY <2>3 DEF l
<1>2. /\ UNCHANGED <<db, mup, hdr, idx, hlock, faults>> /\ job[p].pc = "idle"
      /\ \A k \in Names : hlock[k] # p
      /\ \A q \in Procs \ {p} : Uses(job[q]) \cap {n, m} = {}
      /\ op = "rename" <=> n # m
  BY DEF Request, lists, files, At
<1>3. Uses(job'[p]) = {n, m} /\ Uses(job[p]) = {} BY <1>1, <1>2 DEF Uses
<1>4. Good(n) /\ Good(m) BY <1>2, <1>3 DEF CalmParts, Settled
<1>5. Apart' BY <1>1, <1>2, <1>3 DEF CalmParts, Apart
<1>6. OwnLocks' BY <1>1, <1>2, <1>3 DEF CalmParts, OwnLocks
<1>7. InPhase'
  <2> SUFFICES ASSUME NEW q \in Procs, job'[q].pc # "idle" PROVE Phase(job[q])'
    BY DEF InPhase
  <2>1. CASE q = p
    <3>1. target(job'[p]) \in {n, m} BY <1>1 DEF target
    <3> QED BY <2>1, <3>1, <1>1, <1>2, <1>4
            DEF Phase, NewPhase, OldPhase, AclPhase, Good, MadePcs
  <2>2. CASE q # p
    <3>1. job'[q] = job[q] /\ Phase(job[q]) BY <2>2, <1>1 DEF CalmParts, InPhase
    <3> QED BY <3>1, <1>2 DEF Phase, NewPhase, OldPhase, AclPhase, Good, HasFiles, Known
  <2> QED BY <2>1, <2>2
<1>8. Settled' BY <1>1, <1>2, <1>3 DEF CalmParts, Settled, Good
<1> QED BY <1>5, <1>6, <1>7, <1>8 DEF CalmParts

(* At the start every name is as Agreement wants it.                       *)
LEMMA CalmInit == Init => CalmInv
<1> SUFFICES ASSUME Init PROVE CalmParts
  BY DEF CalmInv
<1>1. \A p \in Procs : job[p].pc = "idle" /\ Uses(job[p]) = {} BY DEF Init, IdleJob, Uses
<1>2. Apart /\ OwnLocks /\ InPhase BY <1>1 DEF Apart, OwnLocks, InPhase
<1>3. ASSUME NEW n \in Names PROVE Good(n)
  <2>1. PICK number \in [Occupied -> 1..Cardinality(Occupied)] :
          idx = [k \in Names |-> IF k \in Occupied THEN number[k] ELSE 0]
    BY DEF Init
  <2>2. CASE n \in Occupied
    <3>1. idx[n] = number[n] BY <2>1, <2>2, <1>3
    <3>2. number[n] \in 1..Cardinality(Occupied) BY <2>1, <2>2
    <3>3. Cardinality(Occupied) \in Nat BY OccupiedAssumption, FS_CardinalityType
    <3>4. idx[n] # 0 BY <3>1, <3>2, <3>3
    <3> QED BY <3>4, <2>2, <1>3 DEF Init, Good, Active
  <2>3. CASE n \notin Occupied BY <2>3, <1>3 DEF Init, Good, Absent
  <2> QED BY <2>2, <2>3
<1> QED BY <1>2, <1>3 DEF CalmParts, Settled

(* Two requests that overlapped and processes that were killed are not     *)
(* forgotten.                                                              *)
LEMMA CalmBefore == TypeInv /\ [Next]_vars /\ Calm' => Calm
<1> SUFFICES ASSUME TypeInv, [Next]_vars, Calm' PROVE Calm
  OBVIOUS
<1>1. CASE UNCHANGED vars BY <1>1 DEF vars, Calm
<1>2. ASSUME NEW p \in Procs, NEW n \in Names, NEW m \in Names,
             NEW op \in {"create", "delete", "rename", "setacl"}, Request(p, op, n, m)
      PROVE  Calm
  BY <1>2 DEF Request, Calm
<1>3. ASSUME NEW p \in Procs, Step(p) \/ Exit(p) \/ Kill(p) PROVE Calm
  <2>1. UNCHANGED raced
    BY <1>3 DEF Step, mycreatemailboxcheck, mupdate_reserve, lockold, openhdr, lockhdr, mkindex,
       link, copy, store, rename_commit, mupdate_activate, mupdate_delete, rename_cleanup,
       mailbox_delete, undo, unreserve, close, lookup, lockbox, delete_commit, relook,
       write_header, setacl_commit, Exit, Kill, Gone, history
  <2>2. UNCHANGED faults \/ \E k : Fault(k)
    <3>1. CASE lockold(p) \/ openhdr(p) \/ lockhdr(p) \/ store(p) \/ rename_commit(p)
               \/ rename_cleanup(p) \/ mailbox_delete(p) \/ undo(p) \/ close(p) \/ lookup(p)
               \/ lockbox(p) \/ delete_commit(p) \/ relook(p) \/ write_header(p)
               \/ setacl_commit(p) \/ mycreatemailboxcheck(p) \/ Exit(p)
      BY <3>1 DEF lockold, openhdr, lockhdr, store, rename_commit, rename_cleanup, mailbox_delete,
         undo, close, lookup, lockbox, delete_commit, relook, write_header, setacl_commit,
         mycreatemailboxcheck, Exit
    <3>2. CASE mkindex(p) \/ link(p) \/ copy(p) \/ Kill(p) BY <3>2 DEF mkindex, link, copy, Kill
    <3>3. CASE mupdate_reserve(p) BY <3>3 DEF mupdate_reserve
    <3>4. ASSUME NEW S, NEW ok, NEW bad, Outcome(p, S, ok, bad)
          PROVE  UNCHANGED faults \/ \E k : Fault(k)
      BY <3>4 DEF Outcome
    <3>5. CASE mupdate_activate(p)
      <4>1. job[p].op \in {"create", "rename", "setacl"}
        BY <3>5, TypeInvTyped DEF mupdate_activate, Typed, At, Handler, CreatePcs, RenamePcs,
           DeletePcs, SetaclPcs
      <4> QED BY <3>4, <3>5, <4>1 DEF mupdate_activate
    <3>6. CASE mupdate_delete(p) \/ unreserve(p) BY <3>4, <3>6 DEF mupdate_delete, unreserve
    <3> QED BY <1>3, <3>1, <3>2, <3>3, <3>5, <3>6 DEF Step
  <2>3. faults'.kill = 0 => faults.kill = 0 BY <2>2, FaultCounts
  <2> QED BY <2>1, <2>3 DEF Calm
<1> QED BY <1>1, <1>2, <1>3 DEF Next, Done

(* Every step keeps the requests in their phases.                          *)
LEMMA CalmNext ==
  ASSUME TypeInv, TypeInv', CalmInv, [Next]_vars
  PROVE  CalmInv'
<1> SUFFICES ASSUME Calm' PROVE CalmParts'
  BY DEF CalmInv
<1>0. CalmParts BY CalmBefore DEF CalmInv
<1>1. CASE UNCHANGED vars
  BY <1>0, <1>1 DEF vars, CalmParts, Apart, OwnLocks, InPhase, Settled, Phase, NewPhase, OldPhase,
                    AclPhase, Good, HasFiles, Known
<1>2. ASSUME NEW p \in Procs, NEW n \in Names, NEW m \in Names,
             NEW op \in {"create", "delete", "rename", "setacl"}, Request(p, op, n, m)
      PROVE  CalmParts'
  BY <1>0, <1>2, RequestCalm DEF Calm
<1>3. ASSUME NEW p \in Procs, Step(p) PROVE CalmParts'
  BY <1>0, <1>3, CheckCalm, ReserveCalm, LockoldCalm, OpenhdrCalm, LockhdrCalm, MkindexCalm,
     LinkCalm, CopyCalm, StoreCalm, RenameCommitCalm, ActivateCalm, MdeleteCalm, CleanupCalm,
     RmCalm, UndoCalm, UnreserveCalm, CloseCalm, LookupCalm, LockboxCalm, DeleteCommitCalm,
     RelookCalm, HeaderCalm, SetaclCommitCalm DEF Step
<1>4. ASSUME NEW p \in Procs, Exit(p) PROVE CalmParts'
  BY <1>0, <1>4, ExitCalm
<1>5. ASSUME NEW p \in Procs, Kill(p) PROVE CalmParts'
  BY <1>5, FaultCounts DEF Kill, Calm
<1> QED BY <1>1, <1>2, <1>3, <1>4, <1>5 DEF Next, Done

(* Between requests the database, the files and the MUPDATE master agree,  *)
(* for any number of processes, names and requests, and whatever           *)
(* connections are lost and system calls fail, as long as requests for one *)
(* name did not overlap and no process was killed: every handler takes     *)
(* back what it has done, and no lock wait of requests for different names *)
(* can make it give up half way.                                           *)
THEOREM ListsAgree == Spec => []Agreement
<1>1. Spec => []TypeInv
  BY TypeInit, TypeNext, PTL DEF Spec
<1>2. TypeInv /\ TypeInv' /\ CalmInv /\ [Next]_vars => CalmInv'
  BY CalmNext
<1>3. CalmInv => Agreement
  <2> SUFFICES ASSUME CalmInv, AtRest, ~raced, faults.kill = 0, NEW n \in Names
               PROVE  /\ db[n].st # "reserved"
                      /\ db[n].st = "active" => hdr[n] = db[n].acl /\ idx[n] # 0
                      /\ faults.lost = 0 => mup[n] = db[n]
    BY DEF Agreement
  <2>1. \A p \in Procs : n \notin Uses(job[p]) BY DEF AtRest, At, Uses
  <2> QED BY <2>1 DEF CalmInv, Calm, CalmParts, Settled, Good
<1> QED BY <1>1, <1>2, <1>3, CalmInit, PTL DEF Spec

=============================================================================
