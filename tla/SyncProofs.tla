----------------------------- MODULE SyncProofs -----------------------------
(***************************************************************************)
(* Proofs about replication, for any number of server processes, folders,  *)
(* messages, requests and failures: the types of the state (TypeOK), and   *)
(* that the replica never shows a message under a UID under which the      *)
(* master did not have it (NoForeignMail).                                 *)
(***************************************************************************)
EXTENDS Sync, FiniteSetTheorems, FunctionTheorems, WellFoundedInduction, TLAPS

-----------------------------------------------------------------------------
(* The inductive invariant.                                                *)

(* The types of the state.                                                 *)
Msgs == [uid : Nat, uuid : Nat, fl : BOOLEAN, body : Nat]
Boxes == [id : Nat, msgs : SUBSET Msgs, last : Nat]
Bindings == [id : Nat, uid : Nat, uuid : Nat]
Jobs == [pc : {"idle", "open", "lock", "write", "sub"}, fd : Inodes \cup {NoInode}, tries : Nat,
         out : Seq(Seq(Lines)), sub : BOOLEAN]

StoreOK == /\ mst \in [Names -> Boxes] /\ rep \in [Names -> Boxes]
           /\ bound \subseteq Bindings /\ staged \subseteq [uuid : Nat, body : Nat]
           /\ ops \in Nat
WritersOK == /\ w \in [Writers -> Jobs]
             /\ \A p \in Writers : w[p].pc \in {"open", "lock", "write"} => w[p].out # <<>>
LogsOK == /\ cur \in Inodes \cup {NoInode} /\ wrk \in Inodes \cup {NoInode} /\ left \subseteq Inodes
          /\ cur # NoInode => cur \notin left \cup {wrk}
          /\ file \in [Inodes -> Seq(Lines)]
          /\ flock \in [Inodes -> Writers \cup {"free", "client"}]
          /\ wrk = NoInode <=> c.pc \in {"idle", "dead"}

(* The client.                                                             *)
Listed == [name : Names, id : Nat, mark : BOOLEAN]
Remote == [name : Names, id : Nat, msgs : SUBSET Msgs, last : Nat, mark : BOOLEAN]
Renames == [old : Names, new : Names]
WorkPcs == {"create", "setflags", "expunge", "upload", "uidlast"}
ListPcs == {"ids", "reserve", "delete", "rename", "folder"} \cup WorkPcs
EndPcs == {"done", "bail"}
Pcs == {"idle", "dead", "lock", "send_lock", "append", "upload_from", "mailboxes", "user", "reset",
        "findall"} \cup ListPcs \cup EndPcs
Fields == {"pc", "mode", "app", "mbx", "user", "n", "second", "vanished", "r", "fl", "srv", "dels",
           "rens", "i", "m", "box", "list", "last", "fresh", "need", "once"}
IsClient(k) ==
  /\ DOMAIN k = Fields
  /\ k.pc \in Pcs /\ k.mode \in {"none", "append", "mailbox", "user"}
  /\ k.app \in Seq(Names) /\ k.mbx \in Seq(Names)
  /\ k.fl \in Seq(Listed) /\ k.srv \in Seq(Remote) /\ k.rens \subseteq Renames
  /\ k.i \in Nat /\ k.m \in Boxes /\ k.box \in Names

(* What belongs to the steps: the mode an error is handled in, and what    *)
(* the next command is about.                                              *)
ModeOK(k) == /\ k.pc \in {"append", "upload_from"} => k.mode = "append" /\ k.app # <<>>
             /\ k.pc = "mailboxes" => k.mode = "mailbox"
             /\ k.pc \in {"user", "reset", "findall"} => k.mode = "user"
             /\ k.pc \in ListPcs => k.mode \in {"mailbox", "user"}
             /\ k.pc = "upload_from" => k.need \subseteq k.m.msgs
             /\ k.pc \in {"ids", "reserve"} => k.need \subseteq Uuids(Known(k.srv))
PlaceOK(k) == k.pc \in {"ids", "folder"} => k.i \in 1..Len(k.fl)
ClientOK == IsClient(c) /\ ModeOK(c) /\ PlaceOK(c) /\ c.pc \notin EndPcs

TypeInv == StoreOK /\ WritersOK /\ LogsOK /\ ClientOK

(* A mailbox, or a copy of one, has messages that the master had in it and *)
(* no UID above its last_uid.                                              *)
Genuine(b) == \A x \in b.msgs : /\ [id |-> b.id, uid |-> x.uid, uuid |-> x.uuid] \in bound
                                /\ x.uid <= b.last
MailInv == /\ \A n \in Names : Genuine(mst[n]) /\ Genuine(rep[n])
           /\ Genuine(c.m)

(* A uniqueid belongs to one mailbox of the master and is never used       *)
(* again.                                                                  *)
LastId == Cardinality(Names) + ops
IdInv == /\ \A n \in Names : mst[n].id <= LastId /\ rep[n].id <= LastId
         /\ \A n \in Names : mst[n].id = 0 => mst[n] = None
         /\ \A n, m \in Names : mst[n].id = mst[m].id /\ mst[n].id # 0 => n = m
         /\ c.m.id <= LastId

(* last_uid of a uniqueid grows from the replica over the copy of the      *)
(* client to the master.                                                   *)
Behind(b) == \A n \in Names : b.id = mst[n].id /\ b.id # 0 => b.last <= mst[n].last
Working == c.pc \in WorkPcs \cup {"upload_from"}
LastInv == /\ \A n \in Names : Behind(rep[n])
           /\ Behind(c.m)
           /\ Working => c.m.id # 0
           /\ Working /\ rep[c.box].id = c.m.id => rep[c.box].last <= c.m.last
           /\ c.pc = "upload_from" => rep[c.box].id = c.m.id

Inv == TypeInv /\ MailInv /\ IdInv /\ LastInv

-----------------------------------------------------------------------------
(* Lists.                                                                  *)

LEMMA FirstIn ==
  ASSUME NEW s, s \subseteq Nat, s # {}
  PROVE  First(s) \in s /\ \A j \in s : First(s) <= j
<1>1. PICK x \in s : \A y \in s : ~(<<y, x>> \in OpToRel(<, Nat))
  BY NatLessThanWellFounded, WFMin
<1>2. \A y \in s : ~(y < x) BY <1>1 DEF OpToRel
<1>3. \A y \in s : x <= y BY <1>2
<1> QED BY <1>3 DEF First

(* Sublist takes members of the list only.                                 *)
LEMMA SublistType ==
  ASSUME NEW S, NEW s \in Seq(S), NEW I \in SUBSET (DOMAIN s)
  PROVE  Sublist(s, I) \in Seq(S) /\ Len(Sublist(s, I)) = Cardinality(I) /\ Cardinality(I) \in Nat
<1> DEFINE N == Cardinality(I)
           Below(i) == {j \in I : j < i}
           P == [i \in I |-> Cardinality(Below(i)) + 1]
<1>1. DOMAIN s = 1..Len(s) /\ Len(s) \in Nat /\ \A i \in DOMAIN s : s[i] \in S OBVIOUS
<1>2. IsFiniteSet(I)
  <2>1. IsFiniteSet(DOMAIN s) BY <1>1, FS_Interval
  <2> QED BY <2>1, FS_Subset
<1>3. N \in Nat BY <1>2, FS_CardinalityType
<1>4. \A i \in I : i \in Nat BY <1>1
<1>5. ASSUME NEW i \in I
      PROVE  IsFiniteSet(Below(i)) /\ Cardinality(Below(i)) \in Nat /\ Cardinality(Below(i)) + 1 \in 1..N
  <2>1. Below(i) \in SUBSET I /\ i \notin Below(i) BY <1>4
  <2>2. Below(i) # I BY <2>1
  <2>3. IsFiniteSet(Below(i)) BY <1>2, <2>1, FS_Subset
  <2>4. Cardinality(Below(i)) \in Nat BY <2>3, FS_CardinalityType
  <2>5. Cardinality(Below(i)) <= N /\ Cardinality(Below(i)) # N BY <1>2, <2>1, <2>2, FS_Subset
  <2> HIDE DEF N, Below
  <2> QED BY <1>3, <2>3, <2>4, <2>5
<1>6. ASSUME NEW i \in I, NEW j \in I, i < j
      PROVE  Cardinality(Below(i)) < Cardinality(Below(j))
  <2>1. Below(i) \in SUBSET Below(j) /\ i \in Below(j) /\ i \notin Below(i) BY <1>4, <1>6
  <2>2. Below(i) # Below(j) BY <2>1
  <2>3. Cardinality(Below(i)) <= Cardinality(Below(j)) /\ Cardinality(Below(i)) # Cardinality(Below(j))
    BY <1>5, <2>1, <2>2, FS_Subset
  <2>4. Cardinality(Below(i)) \in Nat /\ Cardinality(Below(j)) \in Nat BY <1>5
  <2> HIDE DEF Below
  <2> QED BY <2>3, <2>4
<1>7. P \in Injection(I, 1..N)
  <2>1. P \in [I -> 1..N] BY <1>5
  <2>2. ASSUME NEW i \in I, NEW j \in I, i # j PROVE P[i] # P[j]
    <3>1. i < j \/ j < i BY <1>4, <2>2
    <3>2. Cardinality(Below(i)) \in Nat /\ Cardinality(Below(j)) \in Nat BY <1>5
    <3>3. Cardinality(Below(i)) < Cardinality(Below(j)) \/ Cardinality(Below(j)) < Cardinality(Below(i))
      BY <3>1, <1>6
    <3>4. P[i] = Cardinality(Below(i)) + 1 /\ P[j] = Cardinality(Below(j)) + 1 OBVIOUS
    <3> HIDE DEF Below, P
    <3> QED BY <3>2, <3>3, <3>4
  <2> HIDE DEF P
  <2> QED BY <2>1, <2>2, Fun_IsInj
<1>8. P \in Surjection(I, 1..N)
  <2>1. IsFiniteSet(1..N) /\ Cardinality(1..N) = N BY <1>3, FS_Interval
  <2>2. Cardinality(I) = Cardinality(1..N) BY <2>1
  <2> HIDE DEF P, N
  <2> DEFINE T == 1..N
  <2>3. IsFiniteSet(T) /\ P \in Injection(I, T) /\ Cardinality(I) = Cardinality(T)
    BY <1>7, <2>1, <2>2
  <2> HIDE DEF T
  <2>4. P \in Surjection(I, T) BY <2>3, FS_Injection
  <2> QED BY <2>4 DEF T
<1>9. \A k \in 1..N : \E i \in I : P[i] = k
  <2> HIDE DEF P, N
  <2> QED BY <1>8, Fun_SurjectionProperties
<1>10. ASSUME NEW k \in 1..N
       PROVE  s[CHOOSE i \in I : Cardinality(Below(i)) = k - 1] \in S
  <2>1. PICK i \in I : P[i] = k BY <1>9
  <2>2. Cardinality(Below(i)) \in Nat BY <1>5
  <2>3. P[i] = Cardinality(Below(i)) + 1 OBVIOUS
  <2>4. Cardinality(Below(i)) = k - 1
    <3> HIDE DEF P, Below
    <3> QED BY <2>1, <2>2, <2>3
  <2>5. (CHOOSE j \in I : Cardinality(Below(j)) = k - 1) \in I BY <2>4
  <2> QED BY <1>1, <2>5
<1>11. Sublist(s, I) = [k \in 1..N |-> s[CHOOSE i \in I : Cardinality(Below(i)) = k - 1]]
  BY DEF Sublist
<1> HIDE DEF N, Below
<1>12. Sublist(s, I) \in Seq(S) /\ Len(Sublist(s, I)) = N BY <1>3, <1>10, <1>11
<1> QED BY <1>3, <1>12 DEF N

-----------------------------------------------------------------------------
(* The client's record through the operators that move it on.              *)

Same(k, j) == j.m = k.m /\ j.box = k.box
RunPcs == {"append", "mailboxes", "user", "done", "bail"}
Runs(k, j) == IsClient(j) /\ ModeOK(j) /\ j.pc \in RunPcs /\ Same(k, j)

LEMMA ListedChange ==
  ASSUME NEW s \in Seq(Listed), NEW l, NEW b \in BOOLEAN, NEW x \in Nat
  PROVE  [s EXCEPT ![l].mark = b] \in Seq(Listed) /\ [s EXCEPT ![l].id = x] \in Seq(Listed)
<1>1. CASE l \in 1..Len(s)
  <2>1. s[l] \in Listed BY <1>1
  <2>2. [s[l] EXCEPT !.mark = b] \in Listed /\ [s[l] EXCEPT !.id = x] \in Listed
    BY <2>1 DEF Listed
  <2> QED BY <1>1, <2>2
<1>2. CASE l \notin 1..Len(s)
  <2>1. [s EXCEPT ![l].mark = b] = s /\ [s EXCEPT ![l].id = x] = s BY <1>2
  <2> QED BY <2>1
<1> QED BY <1>1, <1>2

LEMMA UsersRun ==
  ASSUME NEW k, IsClient(k)
  PROVE  Runs(k, Users(k))
<1>1. CASE k.user
  <2>1. Users(k) = [k EXCEPT !.pc = "user", !.mode = "user", !.n = 0, !.second = FALSE,
                             !.fl = <<>>, !.srv = <<>>] BY <1>1 DEF Users
  <2>2. <<>> \in Seq(Listed) /\ <<>> \in Seq(Remote) OBVIOUS
  <2>3. IsClient(Users(k)) BY <2>1, <2>2 DEF IsClient, Fields, Pcs
  <2>4. Users(k).pc = "user" /\ Users(k).mode = "user" /\ Same(k, Users(k))
    BY <2>1 DEF IsClient, Fields, Same
  <2> QED BY <2>3, <2>4 DEF Runs, ModeOK, RunPcs, ListPcs, WorkPcs
<1>2. CASE ~k.user
  <2>1. Users(k) = [k EXCEPT !.pc = "done"] BY <1>2 DEF Users
  <2> QED BY <2>1 DEF Runs, IsClient, Fields, ModeOK, Same, RunPcs, Pcs, ListPcs, WorkPcs, EndPcs
<1> QED BY <1>1, <1>2

LEMMA MailboxesRun ==
  ASSUME NEW k, IsClient(k)
  PROVE  Runs(k, Mailboxes(k))
<1>1. CASE k.mbx = <<>> BY <1>1, UsersRun DEF Mailboxes
<1>2. CASE k.mbx # <<>>
  <2> DEFINE l == [i \in 1..Len(k.mbx) |-> Folder(k.mbx[i])]
  <2>1. k.mbx \in Seq(Names) BY DEF IsClient, Fields
  <2>2. \A i \in 1..Len(k.mbx) : Folder(k.mbx[i]) \in Listed BY <2>1 DEF Folder, Listed
  <2>3. l \in Seq(Listed) BY <2>1, <2>2
  <2>4. Mailboxes(k) = [k EXCEPT !.pc = "mailboxes", !.mode = "mailbox", !.n = 0, !.fl = l]
    BY <1>2 DEF Mailboxes
  <2> HIDE DEF l
  <2> QED BY <2>3, <2>4 DEF Runs, IsClient, Fields, ModeOK, Same, RunPcs, Pcs, ListPcs, WorkPcs,
      EndPcs
<1> QED BY <1>1, <1>2

LEMMA AppendsRun ==
  ASSUME NEW k, IsClient(k)
  PROVE  Runs(k, Appends(k))
<1>1. CASE k.app = <<>> BY <1>1, MailboxesRun DEF Appends
<1>2. CASE k.app # <<>>
  <2>1. Appends(k) = [k EXCEPT !.pc = "append", !.mode = "append"] BY <1>2 DEF Appends
  <2> QED BY <1>2, <2>1 DEF Runs, IsClient, Fields, ModeOK, Same, RunPcs, Pcs, ListPcs, WorkPcs,
      EndPcs
<1> QED BY <1>1, <1>2

LEMMA AddType ==
  ASSUME NEW s \in Seq(Names), NEW n \in Names
  PROVE  Add(s, n) \in Seq(Names)
BY DEF Add

LEMMA FailRun ==
  ASSUME NEW k, IsClient(k), k.mode # "none", k.mode = "append" => k.app # <<>>
  PROVE  Runs(k, Fail(k))
<1>1. CASE k.mode = "append"
  <2> DEFINE j == [k EXCEPT !.mbx = Add(@, Head(k.app)), !.app = Tail(@)]
  <2>1. k.app \in Seq(Names) /\ k.mbx \in Seq(Names) /\ k.app # <<>> BY <1>1 DEF IsClient, Fields
  <2>2. Head(k.app) \in Names /\ Tail(k.app) \in Seq(Names) BY <2>1
  <2>3. Add(k.mbx, Head(k.app)) \in Seq(Names) BY <2>1, <2>2, AddType
  <2>4. IsClient(j) /\ Same(k, j)
    <3> HIDE DEF Add
    <3> QED BY <2>2, <2>3 DEF IsClient, Fields, Same
  <2>5. Fail(k) = Appends(j) BY <1>1 DEF Fail
  <2> HIDE DEF j
  <2>6. Runs(j, Appends(j)) BY <2>4, AppendsRun
  <2> QED BY <2>4, <2>5, <2>6 DEF Runs, Same
<1>2. CASE k.mode = "mailbox"
  <2> DEFINE l == First(Unmarked(k.fl))
             p == [k EXCEPT !.fl[l].mark = TRUE, !.user = TRUE, !.n = @ + 1]
  <2> HIDE DEF l
  <2>1. k.fl \in Seq(Listed) BY DEF IsClient, Fields
  <2>2. [k.fl EXCEPT ![l].mark = TRUE] \in Seq(Listed) BY <2>1, ListedChange
  <2>3. p = [k EXCEPT !.fl = [k.fl EXCEPT ![l].mark = TRUE], !.user = TRUE, !.n = @ + 1]
    BY DEF IsClient, Fields
  <2>4. IsClient(p) /\ Same(k, p) /\ p.mode = "mailbox"
    BY <1>2, <2>1, <2>2, <2>3 DEF IsClient, Fields, Same
  <2>5. Fail(k) = IF Unmarked(p.fl) = {} THEN Users(p)
                  ELSE [p EXCEPT !.pc = IF p.n < SYNC_MAILBOX_RETRIES THEN "mailboxes" ELSE "bail"]
    BY <1>2 DEF Fail, l
  <2> HIDE DEF p
  <2>6. CASE Unmarked(p.fl) = {}
    <3>1. Runs(p, Users(p)) BY <2>4, UsersRun
    <3> QED BY <2>4, <2>5, <2>6, <3>1 DEF Runs, Same
  <2>7. CASE Unmarked(p.fl) # {}
    <3>1. PICK x \in {"mailboxes", "bail"} : Fail(k) = [p EXCEPT !.pc = x] BY <2>5, <2>7
    <3> QED BY <2>4, <3>1 DEF Runs, IsClient, Fields, ModeOK, Same, RunPcs, Pcs, ListPcs,
        WorkPcs, EndPcs
  <2> QED BY <2>6, <2>7
<1>3. CASE k.mode = "user"
  <2>1. CASE k.vanished /\ ~k.second
    <3>1. Fail(k) = [k EXCEPT !.pc = "user", !.second = TRUE] BY <1>3, <2>1 DEF Fail
    <3> QED BY <1>3, <3>1 DEF Runs, IsClient, Fields, ModeOK, Same, RunPcs, Pcs, ListPcs,
        WorkPcs, EndPcs
  <2>2. CASE ~(k.vanished /\ ~k.second)
    <3>1. PICK x \in {"user", "bail"} :
            Fail(k) = [k EXCEPT !.n = @ + 1, !.second = FALSE, !.vanished = FALSE, !.pc = x]
      BY <1>3, <2>2 DEF Fail
    <3> QED BY <1>3, <3>1 DEF Runs, IsClient, Fields, ModeOK, Same, RunPcs, Pcs, ListPcs,
        WorkPcs, EndPcs
  <2> QED BY <2>1, <2>2
<1> QED BY <1>1, <1>2, <1>3 DEF IsClient, Fields

LEMMA DoneRun ==
  ASSUME NEW k, IsClient(k), k.mode \in {"mailbox", "user"}
  PROVE  Runs(k, Done(k))
<1>1. CASE k.mode = "mailbox" BY <1>1, UsersRun DEF Done
<1>2. CASE k.mode = "user"
  <2>1. Done(k) = IF k.vanished /\ ~k.second THEN [k EXCEPT !.pc = "user", !.second = TRUE]
                  ELSE [k EXCEPT !.pc = "done"] BY <1>2 DEF Done
  <2> QED BY <1>2, <2>1 DEF Runs, IsClient, Fields, ModeOK, Same, RunPcs, Pcs, ListPcs, WorkPcs,
      EndPcs
<1> QED BY <1>1, <1>2

Settles(k, j) == /\ IsClient(j) /\ ModeOK(j) /\ Same(k, j)
                 /\ j.pc = k.pc \/ j.pc \in RunPcs \cup {"reserve", "delete", "rename", "folder"}

LEMMA TaggedSettles ==
  ASSUME NEW k, IsClient(k), k.mode \in {"mailbox", "user"}
  PROVE  Settles(k, Tagged(k)) /\ Tagged(k).pc = "delete"
<1> DEFINE tag == {e[2] : e \in Matched(k)}
           srv == [i \in 1..Len(k.srv) |-> [k.srv[i] EXCEPT !.mark = i \in tag]]
           stale == Sublist(k.srv, DOMAIN k.srv \ tag)
           dels == [i \in 1..Len(stale) |-> stale[i].name]
           rens == {[old |-> k.srv[e[2]].name, new |-> k.fl[e[1]].name] :
                      e \in {f \in Matched(k) : k.srv[f[2]].name # k.fl[f[1]].name}}
<1>1. k.srv \in Seq(Remote) /\ k.fl \in Seq(Listed) BY DEF IsClient
<1>2. srv \in Seq(Remote)
  <2> HIDE DEF tag
  <2>1. ASSUME NEW i \in 1..Len(k.srv) PROVE [k.srv[i] EXCEPT !.mark = i \in tag] \in Remote
    <3>1. k.srv[i] \in Remote /\ (i \in tag) \in BOOLEAN BY <1>1
    <3> QED BY <3>1 DEF Remote
  <2>2. Len(k.srv) \in Nat BY <1>1
  <2> QED BY <2>1, <2>2
<1>3. rens \subseteq Renames
  <2>1. ASSUME NEW e \in Matched(k)
        PROVE  k.srv[e[2]].name \in Names /\ k.fl[e[1]].name \in Names
    <3>1. e[1] \in 1..Len(k.fl) /\ e[2] \in 1..Len(k.srv) BY <2>1 DEF Matched
    <3>2. k.srv[e[2]] \in Remote /\ k.fl[e[1]] \in Listed BY <1>1, <3>1
    <3> QED BY <3>2 DEF Remote, Listed
  <2> QED BY <2>1 DEF Renames
<1>4. Tagged(k) = [k EXCEPT !.srv = srv, !.need = {}, !.pc = "delete", !.dels = dels, !.rens = rens]
  BY DEF Tagged
<1> HIDE DEF srv, rens, dels
<1>5. IsClient(Tagged(k)) BY <1>2, <1>3, <1>4 DEF IsClient, Fields, Pcs, ListPcs
<1>6. Tagged(k).pc = "delete" /\ Tagged(k).mode = k.mode /\ Same(k, Tagged(k))
  BY <1>4 DEF IsClient, Fields, Same
<1> QED BY <1>5, <1>6 DEF Settles, ModeOK, ListPcs, WorkPcs

LEMMA FromIn ==
  ASSUME NEW k, IsClient(k), NEW s, s \subseteq 1..Len(k.fl)
  PROVE  From(s, k) \in Nat /\ Len(k.fl) \in Nat /\ (From(s, k) <= Len(k.fl) => From(s, k) \in 1..Len(k.fl))
<1> DEFINE t == {i \in s : i >= k.i}
<1>1. Len(k.fl) \in Nat BY DEF IsClient
<1>2. From(s, k) = IF t = {} THEN Len(k.fl) + 1 ELSE First(t) BY DEF From
<1>3. t \subseteq 1..Len(k.fl) OBVIOUS
<1>4. CASE t = {} BY <1>1, <1>2, <1>4
<1>5. CASE t # {}
  <2>1. t \subseteq Nat BY <1>1, <1>3
  <2>2. First(t) \in t BY <1>5, <2>1, FirstIn
  <2>3. First(t) \in 1..Len(k.fl) BY <1>3, <2>2
  <2> HIDE DEF t
  <2> QED BY <1>1, <1>2, <1>5, <2>3
<1> QED BY <1>4, <1>5

LEMMA AfterIdsSettles ==
  ASSUME NEW k, IsClient(k), ModeOK(k)
  PROVE  Settles(k, AfterIds(k)) /\ (AfterIds(k).pc = "ids" => PlaceOK(AfterIds(k)))
<1>1. CASE k.pc # "ids"
  <2>1. AfterIds(k) = k BY <1>1 DEF AfterIds
  <2> QED BY <1>1, <2>1 DEF Settles, Same
<1>2. CASE k.pc = "ids"
  <2> DEFINE i == From(Unmarked(k.fl), k)
  <2>1. /\ i \in Nat /\ Len(k.fl) \in Nat /\ (i <= Len(k.fl) => i \in 1..Len(k.fl))
    BY FromIn DEF Unmarked
  <2>2. k.mode \in {"mailbox", "user"} /\ k.need \subseteq Uuids(Known(k.srv))
    BY <1>2 DEF ModeOK, ListPcs
  <2>3. AfterIds(k) = IF i <= Len(k.fl) THEN [k EXCEPT !.i = i]
                      ELSE IF k.need # {} THEN [k EXCEPT !.pc = "reserve", !.i = i]
                      ELSE Tagged(k)
    BY <1>2 DEF AfterIds
  <2> HIDE DEF i
  <2>4. CASE i <= Len(k.fl)
    <3>1. AfterIds(k) = [k EXCEPT !.i = i] BY <2>3, <2>4
    <3>2. IsClient(AfterIds(k)) /\ Same(k, AfterIds(k)) BY <2>1, <3>1 DEF IsClient, Fields, Same
    <3>3. /\ AfterIds(k).pc = "ids" /\ AfterIds(k).i = i /\ AfterIds(k).fl = k.fl
          /\ AfterIds(k).mode = k.mode /\ AfterIds(k).need = k.need /\ AfterIds(k).srv = k.srv
      BY <1>2, <3>1 DEF IsClient, Fields
    <3>4. ModeOK(AfterIds(k)) BY <2>2, <3>3 DEF ModeOK
    <3> QED BY <1>2, <2>1, <2>4, <3>2, <3>3, <3>4 DEF Settles, PlaceOK
  <2>5. CASE i > Len(k.fl) /\ k.need # {}
    <3>1. AfterIds(k) = [k EXCEPT !.pc = "reserve", !.i = i] BY <2>1, <2>3, <2>5
    <3>2. IsClient(AfterIds(k)) /\ Same(k, AfterIds(k))
      BY <2>1, <3>1 DEF IsClient, Fields, Same, Pcs, ListPcs
    <3>3. /\ AfterIds(k).pc = "reserve"
          /\ AfterIds(k).mode = k.mode /\ AfterIds(k).need = k.need /\ AfterIds(k).srv = k.srv
      BY <3>1 DEF IsClient, Fields
    <3>4. ModeOK(AfterIds(k)) BY <2>2, <3>3 DEF ModeOK
    <3> QED BY <3>2, <3>3, <3>4 DEF Settles
  <2>6. CASE i > Len(k.fl) /\ k.need = {}
    <3>1. AfterIds(k) = Tagged(k) BY <2>1, <2>3, <2>6
    <3> QED BY <2>2, <3>1, TaggedSettles
  <2> QED BY <2>1, <2>4, <2>5, <2>6
<1> QED BY <1>1, <1>2

LEMMA AfterFolderSettles ==
  ASSUME NEW k, IsClient(k), ModeOK(k), k.pc = "ids" => PlaceOK(k)
  PROVE  Settles(k, AfterFolder(k)) /\ PlaceOK(AfterFolder(k))
<1>1. CASE k.pc # "folder"
  <2>1. AfterFolder(k) = k BY <1>1 DEF AfterFolder
  <2> QED BY <1>1, <2>1 DEF Settles, Same, PlaceOK
<1>2. CASE k.pc = "folder"
  <2> DEFINE s == {j \in Unmarked(k.fl) : k.fl[j].id # 0}
             i == From(s, k)
  <2>1. /\ i \in Nat /\ Len(k.fl) \in Nat /\ (i <= Len(k.fl) => i \in 1..Len(k.fl))
    BY FromIn DEF Unmarked
  <2>2. k.mode \in {"mailbox", "user"} BY <1>2 DEF ModeOK, ListPcs
  <2>3. AfterFolder(k) = IF i <= Len(k.fl) THEN [k EXCEPT !.i = i] ELSE IF k.r THEN Fail(k) ELSE Done(k)
    BY <1>2 DEF AfterFolder
  <2> HIDE DEF i
  <2>4. CASE i <= Len(k.fl)
    <3>1. AfterFolder(k) = [k EXCEPT !.i = i] BY <2>3, <2>4
    <3>2. IsClient(AfterFolder(k)) /\ Same(k, AfterFolder(k))
      BY <2>1, <3>1 DEF IsClient, Fields, Same
    <3>3. /\ AfterFolder(k).pc = "folder" /\ AfterFolder(k).i = i /\ AfterFolder(k).fl = k.fl
          /\ AfterFolder(k).mode = k.mode
      BY <1>2, <3>1 DEF IsClient, Fields
    <3>4. ModeOK(AfterFolder(k)) BY <2>2, <3>3 DEF ModeOK
    <3> QED BY <1>2, <2>1, <2>4, <3>2, <3>3, <3>4 DEF Settles, PlaceOK
  <2>5. CASE i > Len(k.fl)
    <3>1. AfterFolder(k) \in {Fail(k), Done(k)} BY <2>1, <2>3, <2>5
    <3>2. Runs(k, AfterFolder(k)) BY <2>2, <3>1, FailRun, DoneRun
    <3> QED BY <3>2 DEF Runs, Settles, PlaceOK, RunPcs
  <2> QED BY <2>1, <2>4, <2>5
<1> QED BY <1>1, <1>2

LEMMA SettledSettles ==
  ASSUME NEW k, IsClient(k), ModeOK(k), NEW j \in Settled(k)
  PROVE  Settles(k, j) /\ PlaceOK(j)
<1> DEFINE a == AfterIds(k)
           b == AfterDelete(a)
           d == AfterRename(b)
<1>1. j = AfterFolder(d) BY DEF Settled
<1>2. Settles(k, a) /\ (a.pc = "ids" => PlaceOK(a)) BY AfterIdsSettles
<1> HIDE DEF a
<1>3. Settles(k, b) /\ (b.pc = "ids" => PlaceOK(b))
  <2>1. CASE a.pc = "delete" /\ a.dels = <<>>
    <3>1. b = [a EXCEPT !.pc = "rename"] BY <2>1 DEF AfterDelete
    <3> QED BY <1>2, <2>1, <3>1
         DEF Settles, IsClient, Fields, ModeOK, Same, Pcs, ListPcs, WorkPcs
  <2>2. CASE ~(a.pc = "delete" /\ a.dels = <<>>)
    <3>1. b = a BY <2>2 DEF AfterDelete
    <3> QED BY <1>2, <3>1
  <2> QED BY <2>1, <2>2
<1> HIDE DEF b
<1>4. Settles(k, d) /\ (d.pc = "ids" => PlaceOK(d))
  <2>1. CASE b.pc = "rename" /\ b.rens = {}
    <3>1. d = [b EXCEPT !.pc = "folder", !.i = 1] BY <2>1 DEF AfterRename
    <3> QED BY <1>3, <2>1, <3>1
         DEF Settles, IsClient, Fields, ModeOK, Same, Pcs, ListPcs, WorkPcs
  <2>2. CASE ~(b.pc = "rename" /\ b.rens = {})
    <3>1. d = b BY <2>2 DEF AfterRename
    <3> QED BY <1>3, <3>1
  <2> QED BY <2>1, <2>2
<1> HIDE DEF d
<1>5. Settles(d, j) /\ PlaceOK(j) BY <1>1, <1>4, AfterFolderSettles DEF Settles
<1> QED BY <1>4, <1>5 DEF Settles, Same

-----------------------------------------------------------------------------
(* A step of the client: what it may make of the replica (r), and what it  *)
(* may go on with (k).                                                     *)

RepOK(r) == /\ r \in [Names -> Boxes]
            /\ \A n \in Names : Genuine(r[n]) /\ r[n].id <= LastId /\ Behind(r[n])
CopyOK(k) == Genuine(k.m) /\ k.m.id <= LastId /\ Behind(k.m)
WorkOK(k, r) ==
  /\ k.pc \in WorkPcs \cup {"upload_from"} =>
       /\ k.m.id # 0
       /\ r[k.box].id = k.m.id => r[k.box].last <= k.m.last
  /\ k.pc = "upload_from" => r[k.box].id = k.m.id
NextOK(k, r) == IsClient(k) /\ ModeOK(k) /\ CopyOK(k) /\ WorkOK(k, r) /\ k.pc \notin {"idle", "dead"}
Running == c.pc \notin {"idle", "dead"}

LEMMA InvParts ==
  ASSUME Inv
  PROVE  /\ RepOK(rep) /\ CopyOK(c) /\ WorkOK(c, rep) /\ IsClient(c) /\ ModeOK(c)
         /\ Running => NextOK(c, rep)
BY DEF Inv, TypeInv, StoreOK, MailInv, IdInv, LastInv, ClientOK, RepOK, CopyOK, WorkOK, NextOK,
       Running, Working

LEMMA RunsNext ==
  ASSUME NEW k, CopyOK(k), NEW j, Runs(k, j), NEW r
  PROVE  NextOK(j, r)
BY DEF Runs, Same, NextOK, CopyOK, WorkOK, RunPcs, WorkPcs

LEMMA FailNext ==
  ASSUME NEW k, IsClient(k), CopyOK(k), k.mode # "none", k.mode = "append" => k.app # <<>>, NEW r
  PROVE  NextOK(Fail(k), r)
BY FailRun, RunsNext

LEMMA BailNext ==
  ASSUME NEW k, IsClient(k), CopyOK(k), NEW r
  PROVE  NextOK(Bail(k), r)
<1>1. Bail(k) = [k EXCEPT !.pc = "bail"] BY DEF Bail
<1>2. IsClient(Bail(k)) /\ Same(k, Bail(k)) /\ Bail(k).pc = "bail"
  BY <1>1 DEF IsClient, Fields, Same, Pcs, EndPcs
<1> QED BY <1>2 DEF NextOK, CopyOK, WorkOK, ModeOK, Same, ListPcs, WorkPcs

Fresh(k, x) == /\ IsClient(k) /\ ModeOK(k) /\ PlaceOK(k) /\ k.pc = x /\ k.m = None

LEMMA FreshParts ==
  ASSUME NEW k, NEW x \in {"idle", "dead", "lock"},
         /\ k.pc = x /\ k.mode = "none" /\ k.app = <<>> /\ k.mbx = <<>> /\ k.fl = <<>> /\ k.srv = <<>>
         /\ k.rens = {} /\ k.i = 0 /\ k.m = None /\ k.box = Inbox /\ DOMAIN k = Fields
  PROVE  Fresh(k, x)
<1>1. None \in Boxes BY DEF None, Boxes
<1>2. Inbox \in Names BY DEF Names
<1>3. <<>> \in Seq(Names) /\ <<>> \in Seq(Listed) /\ <<>> \in Seq(Remote) OBVIOUS
<1>4. IsClient(k) BY <1>1, <1>2, <1>3 DEF IsClient, Pcs
<1>5. ModeOK(k) /\ PlaceOK(k) BY DEF ModeOK, PlaceOK, ListPcs, WorkPcs
<1> QED BY <1>4, <1>5 DEF Fresh

LEMMA RestOK ==
  /\ Fresh(Rest, "idle") /\ Fresh([Rest EXCEPT !.pc = "lock", !.once = TRUE], "lock")
  /\ \A x \in {"idle", "dead", "lock"} : Fresh([Rest EXCEPT !.pc = x], x)
<1>1. Fresh(Rest, "idle")
  <2> DEFINE k == Rest
  <2>1. /\ k.pc = "idle" /\ k.mode = "none" /\ k.app = <<>> /\ k.mbx = <<>> /\ k.fl = <<>>
        /\ k.srv = <<>> /\ k.rens = {} /\ k.i = 0 /\ k.m = None /\ k.box = Inbox /\ DOMAIN k = Fields
    BY DEF Rest, Fields
  <2> HIDE DEF k
  <2> QED BY <2>1, FreshParts DEF k
<1>2. Fresh([Rest EXCEPT !.pc = "lock", !.once = TRUE], "lock")
  <2> DEFINE k == [Rest EXCEPT !.pc = "lock", !.once = TRUE]
  <2>1. /\ k.pc = "lock" /\ k.mode = "none" /\ k.app = <<>> /\ k.mbx = <<>> /\ k.fl = <<>>
        /\ k.srv = <<>> /\ k.rens = {} /\ k.i = 0 /\ k.m = None /\ k.box = Inbox /\ DOMAIN k = Fields
    BY DEF Rest, Fields
  <2> HIDE DEF k
  <2> QED BY <2>1, FreshParts DEF k
<1>3. ASSUME NEW x \in {"idle", "dead", "lock"} PROVE Fresh([Rest EXCEPT !.pc = x], x)
  <2> DEFINE k == [Rest EXCEPT !.pc = x]
  <2>1. /\ k.pc = x /\ k.mode = "none" /\ k.app = <<>> /\ k.mbx = <<>> /\ k.fl = <<>>
        /\ k.srv = <<>> /\ k.rens = {} /\ k.i = 0 /\ k.m = None /\ k.box = Inbox /\ DOMAIN k = Fields
    BY DEF Rest, Fields
  <2> HIDE DEF k
  <2>2. Fresh(k, x) BY <2>1, FreshParts
  <2> QED BY <2>2 DEF k
<1> QED BY <1>1, <1>2, <1>3

LEMMA NoneOK == Genuine(None) /\ None.id = 0 /\ Behind(None) /\ None \in Boxes /\ None.last = 0
BY DEF Genuine, Behind, None, Boxes

LEMMA NamesFinite == Cardinality(Names) \in Nat /\ IsFiniteSet(Names)
<1>1. IsFiniteSet(Names) BY FolderAssumption, FS_AddElement DEF Names
<1> QED BY <1>1, FS_CardinalityType

LEMMA GoWithSteps ==
  ASSUME Inv, Running, NEW k, NEW r, NextOK(k, r), NEW on, NEW st, GoWith(k, on, st)
  PROVE  /\ LogsOK' /\ ClientOK' /\ UNCHANGED <<mst, w, cur, ops, bound>> /\ staged' \in {st, {}}
         /\ CopyOK(c') /\ WorkOK(c', r)
<1>1. PICK j \in Settled(k) :
        /\ UNCHANGED master
        /\ \/ /\ j.pc \notin EndPcs
              /\ c' = j /\ staged' = st
              /\ UNCHANGED <<wrk, left, file, flock>>
           \/ /\ j.pc \in EndPcs
              /\ \E x \in {"idle", "dead"} : c' = [Rest EXCEPT !.pc = x]
              /\ wrk' = NoInode
              /\ left' \in {left, left \cup {wrk}}
              /\ file' \in {file, [file EXCEPT ![wrk] = <<>>]}
              /\ flock' = [flock EXCEPT ![wrk] = IF @ = "client" THEN "free" ELSE @]
              /\ staged' \in {st, {}}
  BY DEF GoWith, EndPcs
<1>2. UNCHANGED <<mst, w, cur, ops, bound>> BY <1>1 DEF master
<1>3. LogsOK /\ wrk \in Inodes BY DEF Inv, TypeInv, LogsOK, Running
<1>4. CASE j.pc \notin EndPcs
  <2>1. /\ c' = j /\ staged' = st /\ UNCHANGED <<wrk, left, file, flock>> BY <1>1, <1>4
  <2>2. Settles(k, j) /\ PlaceOK(j) BY SettledSettles DEF NextOK
  <2>3. ClientOK' BY <1>4, <2>1, <2>2 DEF ClientOK, Settles
  <2>4. CopyOK(c') /\ WorkOK(c', r)
    BY <2>1, <2>2 DEF NextOK, CopyOK, WorkOK, Settles, Same, RunPcs, WorkPcs
  <2>5. c'.pc \notin {"idle", "dead"} BY <2>1, <2>2 DEF NextOK, Settles, RunPcs
  <2>6. LogsOK' BY <1>2, <1>3, <2>1, <2>5 DEF LogsOK, Running
  <2> QED BY <1>2, <2>1, <2>3, <2>4, <2>6
<1>5. CASE j.pc \in EndPcs
  <2>1. PICK x \in {"idle", "dead"} : c' = [Rest EXCEPT !.pc = x] BY <1>1, <1>5
  <2>2. IsClient(c') /\ ModeOK(c') /\ PlaceOK(c') /\ c'.pc = x /\ c'.m = None
    BY <2>1, RestOK DEF Fresh
  <2>3. ClientOK' BY <2>2 DEF ClientOK, EndPcs
  <2>4. CopyOK(c') /\ WorkOK(c', r)
    <3>1. LastId \in Nat BY NamesFinite DEF LastId, Inv, TypeInv, StoreOK
    <3> QED BY <2>2, <3>1, NoneOK DEF CopyOK, WorkOK, WorkPcs
  <2>5. /\ wrk' = NoInode /\ left' \in {left, left \cup {wrk}}
        /\ file' \in {file, [file EXCEPT ![wrk] = <<>>]} /\ staged' \in {st, {}}
        /\ flock' = [flock EXCEPT ![wrk] = IF @ = "client" THEN "free" ELSE @]
    BY <1>1, <1>5
  <2>6. left' \subseteq Inodes /\ (cur # NoInode => cur \notin left' \cup {NoInode})
    BY <1>3, <2>5 DEF LogsOK
  <2>7. file' \in [Inodes -> Seq(Lines)]
    <3>1. <<>> \in Seq(Lines) OBVIOUS
    <3> QED BY <1>3, <2>5, <3>1 DEF LogsOK
  <2>8. flock' \in [Inodes -> Writers \cup {"free", "client"}] BY <1>3, <2>5 DEF LogsOK
  <2>9. LogsOK' BY <1>2, <1>3, <2>2, <2>5, <2>6, <2>7, <2>8 DEF LogsOK
  <2> QED BY <1>2, <2>3, <2>4, <2>5, <2>9
<1> QED BY <1>4, <1>5

Stagings == [uuid : Nat, body : Nat]

(* The master stays as it is.                                              *)
LEMMA MasterKept ==
  ASSUME Inv, LogsOK', ClientOK', UNCHANGED <<mst, w, ops, bound>>, staged' \subseteq Stagings,
         RepOK(rep'), CopyOK(c'), WorkOK(c', rep')
  PROVE  Inv'
<1>1. StoreOK' BY DEF Inv, TypeInv, StoreOK, RepOK, Stagings
<1>2. WritersOK' BY DEF Inv, TypeInv, WritersOK
<1>3. LastId' = LastId BY DEF LastId
<1>4. MailInv'
  <2>1. \A n \in Names : Genuine(mst[n]) BY DEF Inv, MailInv
  <2> QED BY <2>1 DEF MailInv, RepOK, CopyOK, Genuine
<1>5. IdInv'
  <2>1. IdInv BY DEF Inv
  <2> QED BY <1>3, <2>1 DEF IdInv, RepOK, CopyOK
<1>6. LastInv' BY DEF LastInv, RepOK, CopyOK, WorkOK, Behind, Working
<1> QED BY <1>1, <1>2, <1>4, <1>5, <1>6 DEF Inv, TypeInv

LEMMA ClientStep ==
  ASSUME Inv, Running, NEW k, NextOK(k, rep'), RepOK(rep'), NEW on, NEW st, st \subseteq Stagings,
         GoWith(k, on, st)
  PROVE  Inv'
<1>1. /\ LogsOK' /\ ClientOK' /\ UNCHANGED <<mst, w, cur, ops, bound>> /\ staged' \in {st, {}}
      /\ CopyOK(c') /\ WorkOK(c', rep')
  BY GoWithSteps
<1> QED BY <1>1, MasterKept

LEMMA StagedType == ASSUME Inv PROVE staged \subseteq Stagings
BY DEF Inv, TypeInv, StoreOK, Stagings

LEMMA LocalStep ==
  ASSUME Inv, Running, NEW k, NextOK(k, rep), Local(k)
  PROVE  Inv'
<1>1. RepOK(rep) /\ staged \subseteq Stagings BY InvParts, StagedType
<1>2. rep' = rep /\ GoWith(k, onserver, staged) BY DEF Local, Go
<1> QED BY <1>1, <1>2, ClientStep

LEMMA CommandStep ==
  ASSUME Inv, Running, NEW k, NEW can \in BOOLEAN, NEW new, NEW then, Command(k, can, new, then),
         NextOK(Fail(k), rep), can => RepOK(new) /\ NextOK(then, new)
  PROVE  Inv'
<1>1. RepOK(rep) /\ staged \subseteq Stagings BY InvParts, StagedType
<1>2. \/ rep' = rep /\ GoWith(Fail(k), onserver, staged)
      \/ can /\ rep' = new /\ GoWith(then, onserver, staged)
  BY DEF Command, Refused, Obeyed, Go
<1> QED BY <1>1, <1>2, ClientStep

-----------------------------------------------------------------------------
(* The steps of sync_client.                                               *)

(* An operation of a list that fails.                                      *)
LEMMA FailC ==
  ASSUME Inv, c.pc \in ListPcs \cup {"append", "upload_from", "mailboxes", "user", "reset", "findall"},
         NEW r
  PROVE  NextOK(Fail(c), r) /\ Running
<1>1. IsClient(c) /\ CopyOK(c) /\ ModeOK(c) BY InvParts
<1>2. c.mode # "none" /\ (c.mode = "append" => c.app # <<>>) BY <1>1 DEF ModeOK
<1>3. Running BY DEF Running, ListPcs, WorkPcs
<1> QED BY <1>1, <1>2, <1>3, FailNext

LEMMA IdFacts == ASSUME Inv PROVE LastId \in Nat /\ ops \in Nat
BY NamesFinite DEF LastId, Inv, TypeInv, StoreOK

LEMMA RepSet ==
  ASSUME NEW r, RepOK(r), NEW n, NEW b \in Boxes, Genuine(b), b.id <= LastId, Behind(b)
  PROVE  RepOK([r EXCEPT ![n] = b])
BY DEF RepOK

LEMMA RepGone ==
  ASSUME Inv, NEW r, RepOK(r), NEW n
  PROVE  RepOK([r EXCEPT ![n] = None]) /\ RepOK([m \in Names |-> None])
<1>1. LastId \in Nat BY IdFacts
<1>2. None.id <= LastId BY <1>1, NoneOK
<1> QED BY <1>2, NoneOK, RepSet DEF RepOK

(* What the client reads of the master is a copy that is up to date.       *)
LEMMA MasterCopy ==
  ASSUME Inv, NEW n \in Names
  PROVE  /\ mst[n] \in Boxes /\ Genuine(mst[n]) /\ mst[n].id <= LastId /\ Behind(mst[n])
         /\ mst[n] # None => mst[n].id # 0
         /\ mst[n] # None /\ rep[n].id = mst[n].id => rep[n].last <= mst[n].last
         /\ rep[n] \in Boxes /\ Behind(rep[n])
<1>1. mst[n] \in Boxes /\ rep[n] \in Boxes BY DEF Inv, TypeInv, StoreOK
<1>2. Genuine(mst[n]) BY DEF Inv, MailInv
<1>3. IdInv BY DEF Inv
<1>4. Behind(rep[n]) BY DEF Inv, LastInv
<1>5. mst[n].id <= LastId /\ (mst[n] # None => mst[n].id # 0) BY <1>3 DEF IdInv
<1>6. Behind(mst[n])
  <2>1. ASSUME NEW m \in Names, mst[n].id = mst[m].id, mst[n].id # 0 PROVE mst[n].last <= mst[m].last
    <3>1. n = m BY <1>3, <2>1 DEF IdInv
    <3> QED BY <1>1, <3>1 DEF Boxes
  <2> QED BY <2>1 DEF Behind
<1> QED BY <1>1, <1>2, <1>4, <1>5, <1>6 DEF Behind

LEMMA TakeLog == ASSUME Inv, take_log PROVE Inv'
<1>1. RepOK(rep) /\ staged \subseteq Stagings BY InvParts, StagedType
<1>2. /\ c.pc = "idle" /\ cur # NoInode /\ wrk' = cur /\ cur' = NoInode /\ c' = [Rest EXCEPT !.pc = "lock"]
      /\ UNCHANGED <<mst, rep, w, left, file, flock, staged, ops, bound>>
  BY DEF take_log
<1>3. Fresh(c', "lock") BY <1>2, RestOK
<1>4. ClientOK' BY <1>3 DEF Fresh, ClientOK, EndPcs
<1>5. LogsOK' BY <1>2, <1>3 DEF Inv, TypeInv, LogsOK, Fresh
<1>6. CopyOK(c') /\ WorkOK(c', rep')
  BY <1>3, NoneOK, IdFacts DEF Fresh, CopyOK, WorkOK, WorkPcs
<1> QED BY <1>1, <1>2, <1>4, <1>5, <1>6, MasterKept

LEMMA ReadLog == ASSUME Inv, read_log PROVE Inv'
<1>1. RepOK(rep) /\ staged \subseteq Stagings /\ IsClient(c) /\ CopyOK(c) BY InvParts, StagedType
<1>2. /\ c.pc = "lock" /\ flock' = [flock EXCEPT ![wrk] = "client"] /\ c' = [c EXCEPT !.pc = "send_lock"]
      /\ UNCHANGED <<mst, rep, w, cur, wrk, left, file, staged, ops, bound>>
  BY DEF read_log, master
<1>3. IsClient(c') /\ Same(c, c') /\ c'.pc = "send_lock"
  BY <1>1, <1>2 DEF IsClient, Fields, Same, Pcs
<1>4. ClientOK' BY <1>3 DEF ClientOK, ModeOK, PlaceOK, EndPcs, ListPcs, WorkPcs
<1>5. LogsOK' BY <1>2, <1>3 DEF Inv, TypeInv, LogsOK
<1>6. CopyOK(c') /\ WorkOK(c', rep') BY <1>1, <1>3 DEF Same, CopyOK, WorkOK, WorkPcs
<1> QED BY <1>1, <1>2, <1>4, <1>5, <1>6, MasterKept

LEMMA NamedType ==
  ASSUME NEW lines \in Seq(Lines), NEW t
  PROVE  Named(lines, t) \in Seq(Names)
<1> DEFINE hits == {i \in DOMAIN lines : lines[i].t = t /\ \A j \in 1..i - 1 : lines[j] # lines[i]}
<1>1. hits \in SUBSET DOMAIN lines OBVIOUS
<1>2. Named(lines, t) = [k \in 1..Cardinality(hits) |-> Sublist(lines, hits)[k].n] BY DEF Named
<1> HIDE DEF hits
<1>3. /\ Sublist(lines, hits) \in Seq(Lines) /\ Len(Sublist(lines, hits)) = Cardinality(hits)
      /\ Cardinality(hits) \in Nat
  BY <1>1, SublistType
<1>4. ASSUME NEW k \in 1..Cardinality(hits) PROVE Sublist(lines, hits)[k].n \in Names
  <2>1. Sublist(lines, hits)[k] \in Lines BY <1>3
  <2> QED BY <2>1 DEF Lines
<1> QED BY <1>2, <1>3, <1>4

LEMMA OptimisedType ==
  ASSUME IsClient(c), NEW lines \in Seq(Lines)
  PROVE  IsClient(Optimised(lines)) /\ Same(c, Optimised(lines))
<1> DEFINE user == USER \in Range(lines)
           all == Named(lines, "APPEND")
           mbx == IF user THEN <<>> ELSE Named(lines, "MAILBOX")
           app == IF user THEN <<>> ELSE Sublist(all, {i \in DOMAIN all : ~Contains(mbx, all[i])})
<1>1. <<>> \in Seq(Names) OBVIOUS
<1>2. all \in Seq(Names) /\ mbx \in Seq(Names) BY <1>1, NamedType
<1>3. Optimised(lines) = [c EXCEPT !.user = user, !.mbx = mbx, !.app = app] BY DEF Optimised
<1> HIDE DEF all, mbx, user
<1>4. {i \in DOMAIN all : ~Contains(mbx, all[i])} \in SUBSET DOMAIN all OBVIOUS
<1>5. app \in Seq(Names)
  <2>1. Sublist(all, {i \in DOMAIN all : ~Contains(mbx, all[i])}) \in Seq(Names)
    BY <1>2, <1>4, SublistType
  <2> QED BY <1>1, <2>1
<1> HIDE DEF app
<1> QED BY <1>2, <1>3, <1>5 DEF IsClient, Fields, Same

LEMMA SendLock == ASSUME Inv, send_lock PROVE Inv'
<1>1. RepOK(rep) /\ staged \subseteq Stagings /\ IsClient(c) /\ CopyOK(c) BY InvParts, StagedType
<1>2. c.pc = "send_lock" /\ Running BY DEF send_lock, Running
<1>3. file[wrk] \in Seq(Lines) BY <1>2 DEF Inv, TypeInv, LogsOK
<1> DEFINE o == Optimised(file[wrk])
<1>4. IsClient(o) /\ Same(c, o) BY <1>1, <1>3, OptimisedType
<1> HIDE DEF o
<1>5. CopyOK(o) BY <1>1, <1>4 DEF Same, CopyOK
<1>6. NextOK(Appends(o), rep) BY <1>4, <1>5, AppendsRun, RunsNext
<1>7. NextOK(Bail(c), rep) BY <1>1, BailNext
<1>8. rep' = rep /\ (GoWith(Appends(o), onserver, staged) \/ GoWith(Bail(c), onserver, staged))
  BY DEF send_lock, Obeyed, Go, o
<1> QED BY <1>1, <1>2, <1>6, <1>7, <1>8, ClientStep

LEMMA DoAppend == ASSUME Inv, do_append PROVE Inv'
<1> DEFINE n == Head(c.app)
           new == {x \in mst[n].msgs : x.uid > rep[n].last}
           up == [c EXCEPT !.pc = "upload_from", !.box = n, !.m = mst[n], !.need = new]
           on == [c EXCEPT !.app = Tail(@)]
           then == IF new = {} THEN Appends(on) ELSE up
<1>1. c.pc = "append" /\ IsClient(c) /\ CopyOK(c) /\ ModeOK(c) BY InvParts DEF do_append
<1>2. NextOK(Fail(c), rep) /\ Running BY <1>1, FailC
<1>3. c.mode = "append" /\ c.app \in Seq(Names) /\ c.app # <<>> BY <1>1 DEF ModeOK, IsClient
<1>4. n \in Names /\ Tail(c.app) \in Seq(Names) BY <1>3
<1>5. (mst[n] = None /\ Local(Fail(c))) \/ (mst[n] # None /\ Command(c, rep[n].id = mst[n].id, rep, then))
  BY DEF do_append
<1>6. CASE mst[n] = None /\ Local(Fail(c)) BY <1>2, <1>6, LocalStep
<1>7. CASE mst[n] # None /\ Command(c, rep[n].id = mst[n].id, rep, then)
  <2>1. RepOK(rep) BY InvParts
  <2>2. /\ mst[n] \in Boxes /\ Genuine(mst[n]) /\ mst[n].id <= LastId /\ Behind(mst[n])
        /\ mst[n].id # 0 /\ (rep[n].id = mst[n].id => rep[n].last <= mst[n].last)
    BY <1>4, <1>7, MasterCopy
  <2>3. NextOK(Appends(on), rep)
    <3>1. IsClient(on) /\ Same(c, on) BY <1>1, <1>4 DEF IsClient, Fields, Same
    <3> HIDE DEF on
    <3>2. CopyOK(on) BY <1>1, <3>1 DEF Same, CopyOK
    <3> QED BY <3>1, <3>2, AppendsRun, RunsNext
  <2>4. rep[n].id = mst[n].id => NextOK(up, rep)
    <3>1. new \subseteq mst[n].msgs OBVIOUS
    <3> HIDE DEF new, n
    <3>2. IsClient(up) BY <1>1, <1>4, <2>2 DEF IsClient, Fields, Pcs
    <3>3. /\ up.pc = "upload_from" /\ up.box = n /\ up.m = mst[n] /\ up.need = new /\ up.mode = c.mode
          /\ up.app = c.app
      BY <1>1 DEF IsClient, Fields
    <3> HIDE DEF up
    <3>4. ModeOK(up) BY <1>3, <3>1, <3>3 DEF ModeOK, ListPcs, WorkPcs
    <3>5. CopyOK(up) BY <2>2, <3>3 DEF CopyOK
    <3> QED BY <2>2, <3>2, <3>3, <3>4, <3>5 DEF NextOK, WorkOK
  <2>5. rep[n].id = mst[n].id => NextOK(then, rep) BY <2>3, <2>4
  <2> HIDE DEF then, n
  <2> QED BY <1>2, <1>7, <2>1, <2>5, CommandStep
<1> QED BY <1>5, <1>6, <1>7

-----------------------------------------------------------------------------
(* UPLOAD: what is staged has a file, and what is committed was staged.    *)

LEMMA StageType ==
  ASSUME Inv, NEW s, \A x \in s : x \in Msgs /\ File(x) # {}
  PROVE  Stage(s) \subseteq Stagings
<1>1. ASSUME NEW x \in s PROVE x.uuid \in Nat /\ (CHOOSE b \in File(x) : TRUE) \in Nat
  <2>1. x \in Msgs /\ File(x) # {} OBVIOUS
  <2>2. c.box \in Names BY InvParts DEF IsClient
  <2>3. mst[c.box].msgs \subseteq Msgs BY <2>2, MasterCopy DEF Boxes
  <2>4. File(x) \subseteq Nat BY <2>3 DEF File, Msgs
  <2>5. (CHOOSE b \in File(x) : TRUE) \in File(x) BY <2>1
  <2> QED BY <2>1, <2>4, <2>5 DEF Msgs
<1> QED BY <1>1 DEF Stage, Stagings

LEMMA CommitOK ==
  ASSUME Inv, NEW batch, batch \subseteq c.m.msgs, NEW st, st \subseteq Stagings,
         \A x \in batch : x.uuid \in Uuids(st),
         rep[c.box].id = c.m.id, rep[c.box].last <= c.m.last
  PROVE  RepOK([rep EXCEPT ![c.box] = sync_upload_commit(@, batch, st)])
<1> DEFINE Body(x) == (CHOOSE s \in st : s.uuid = x.uuid).body
           new == {[x EXCEPT !.body = Body(x)] : x \in batch}
           old == {y \in rep[c.box].msgs : y.uid \notin Uids(batch)}
           b == sync_upload_commit(rep[c.box], batch, st)
<1>1. IsClient(c) /\ CopyOK(c) /\ RepOK(rep) BY InvParts
<1>2. c.box \in Names /\ c.m \in Boxes /\ rep[c.box] \in Boxes
  BY <1>1 DEF IsClient, RepOK
<1>3. ASSUME NEW x \in batch
      PROVE  [x EXCEPT !.body = Body(x)] \in Msgs /\ [x EXCEPT !.body = Body(x)].uid = x.uid
             /\ [x EXCEPT !.body = Body(x)].uuid = x.uuid
  <2>1. x \in Msgs BY <1>2 DEF Boxes
  <2>2. \E s \in st : s.uuid = x.uuid BY DEF Uuids
  <2>3. (CHOOSE s \in st : s.uuid = x.uuid) \in Stagings BY <2>2
  <2>4. Body(x) \in Nat BY <2>3 DEF Stagings
  <2> HIDE DEF Body
  <2> QED BY <2>1, <2>4 DEF Msgs
<1>4. b = [rep[c.box] EXCEPT !.msgs = old \cup new, !.last = c.m.last] BY DEF sync_upload_commit
<1>5. new \subseteq Msgs /\ old \subseteq rep[c.box].msgs BY <1>3
<1>6. \A y \in new : \E x \in batch : y.uid = x.uid /\ y.uuid = x.uuid BY <1>3
<1> HIDE DEF new, old
<1>7. b \in Boxes /\ b.id = c.m.id /\ b.msgs = old \cup new /\ b.last = c.m.last
  BY <1>2, <1>4, <1>5 DEF Boxes
<1> HIDE DEF b
<1>8. Genuine(b)
  <2>1. ASSUME NEW y \in b.msgs
        PROVE  [id |-> b.id, uid |-> y.uid, uuid |-> y.uuid] \in bound /\ y.uid <= b.last
    <3>1. CASE y \in old
      <4>1. [id |-> rep[c.box].id, uid |-> y.uid, uuid |-> y.uuid] \in bound /\ y.uid <= rep[c.box].last
        BY <1>1, <1>2, <1>5, <3>1 DEF RepOK, Genuine
      <4>2. y.uid \in Nat /\ rep[c.box].last \in Nat /\ c.m.last \in Nat
        BY <1>2, <1>5, <3>1 DEF Boxes, Msgs
      <4> QED BY <1>7, <4>1, <4>2
    <3>2. CASE y \in new
      <4>1. PICK x \in batch : y.uid = x.uid /\ y.uuid = x.uuid BY <1>6, <3>2
      <4>2. [id |-> c.m.id, uid |-> x.uid, uuid |-> x.uuid] \in bound /\ x.uid <= c.m.last
        BY <1>1 DEF CopyOK, Genuine
      <4> QED BY <1>7, <4>1, <4>2
    <3> QED BY <1>7, <3>1, <3>2
  <2> QED BY <2>1 DEF Genuine
<1>9. b.id <= LastId /\ Behind(b) BY <1>1, <1>7 DEF CopyOK, Behind
<1> QED BY <1>1, <1>7, <1>8, <1>9, RepSet DEF b

LEMMA UploadStep ==
  ASSUME Inv, c.pc \in {"upload_from", "upload"}, NEW batch, batch \subseteq c.m.msgs, NEW then,
         rep[c.box].id = c.m.id,
         \A r : r[c.box].last = c.m.last => NextOK(then, r),
         UPLOAD(batch, then)
  PROVE  Inv'
<1> DEFINE gone == Missing(batch)
           bad == Unknown(UpTo(batch, gone))
           sent == Ahead(Sends(batch), gone)
           st == staged \cup Stage(Ahead(sent, bad))
           on == onserver \cup Uuids(UpTo(Sends(batch), gone))
           new == [rep EXCEPT ![c.box] = sync_upload_commit(@, batch, st)]
<1>1. /\ IsClient(c) /\ CopyOK(c) /\ WorkOK(c, rep) /\ RepOK(rep) /\ staged \subseteq Stagings
  BY InvParts, StagedType
<1>2. NextOK(Fail(c), rep) /\ Running BY FailC DEF ListPcs, WorkPcs
<1>3. batch \subseteq Msgs BY <1>1 DEF IsClient, Boxes
<1>4. st \subseteq Stagings
  <2>1. ASSUME NEW x \in Ahead(sent, bad) PROVE x \in Msgs /\ File(x) # {}
    <3>1. x \in Sends(batch) /\ \A y \in gone : x.uid < y.uid BY <2>1 DEF Ahead
    <3>2. x \in Msgs BY <1>3, <3>1 DEF Sends
    <3>3. x \notin gone BY <3>1, <3>2 DEF Msgs
    <3> QED BY <3>1, <3>2, <3>3 DEF Missing
  <2> HIDE DEF sent, bad
  <2>2. Stage(Ahead(sent, bad)) \subseteq Stagings BY <2>1, StageType
  <2> QED BY <1>1, <2>2
<1>5. \/ rep' = rep /\ GoWith(Fail(c), on, st)
      \/ rep' = rep /\ GoWith(Fail(c), onserver, staged)
      \/ gone = {} /\ bad = {} /\ rep' = new /\ GoWith(then, on, st)
  <2> HIDE DEF gone, bad, sent, on, st
  <2> QED BY DEF UPLOAD, Go, gone, bad, sent, on, st
<1>6. CASE gone = {} /\ bad = {} /\ rep' = new /\ GoWith(then, on, st)
  <2>1. ASSUME NEW x \in batch PROVE x.uuid \in Uuids(st)
    <3>1. CASE x \in Sends(batch)
      <4>1. x \in Ahead(sent, bad) BY <1>6, <3>1 DEF Ahead
      <4>2. [uuid |-> x.uuid, body |-> CHOOSE b \in File(x) : TRUE] \in Stage(Ahead(sent, bad))
        BY <4>1 DEF Stage
      <4>3. [uuid |-> x.uuid, body |-> CHOOSE b \in File(x) : TRUE] \in st BY <4>2
      <4> HIDE DEF st
      <4> QED BY <4>3 DEF Uuids
    <3>2. CASE x \notin Sends(batch)
      <4>1. x \in UpTo(batch, gone) BY <1>6 DEF UpTo
      <4>2. x.uuid \in Uuids(staged) \/ x \in Sends(UpTo(batch, gone)) BY <1>6, <4>1 DEF Unknown
      <4>3. x.uuid \in Uuids(staged) BY <3>2, <4>2 DEF Sends
      <4> QED BY <4>3 DEF Uuids
    <3> QED BY <3>1, <3>2
  <2>2. rep[c.box].last <= c.m.last BY <1>1 DEF WorkOK, WorkPcs
  <2> HIDE DEF st
  <2>3. RepOK(new) BY <1>4, <2>1, <2>2, CommitOK
  <2>4. new[c.box].last = c.m.last
    <3>1. c.box \in Names /\ rep[c.box] \in Boxes BY <1>1 DEF IsClient, RepOK
    <3>2. new[c.box] = sync_upload_commit(rep[c.box], batch, st) BY <1>1, <3>1 DEF RepOK
    <3>3. sync_upload_commit(rep[c.box], batch, st).last = c.m.last
      BY <3>1 DEF sync_upload_commit, Boxes
    <3> QED BY <3>2, <3>3
  <2> HIDE DEF new
  <2>5. NextOK(then, new) BY <2>4
  <2> QED BY <1>2, <1>4, <1>6, <2>3, <2>5, ClientStep
<1> HIDE DEF gone, bad, on, st, new
<1>7. CASE rep' = rep /\ GoWith(Fail(c), on, st) BY <1>1, <1>2, <1>4, <1>7, ClientStep
<1>8. CASE rep' = rep /\ GoWith(Fail(c), onserver, staged) BY <1>1, <1>2, <1>8, ClientStep
<1> QED BY <1>5, <1>6, <1>7, <1>8

LEMMA UploadFrom == ASSUME Inv, upload_messages_from PROVE Inv'
<1> DEFINE k == [c EXCEPT !.app = Tail(@), !.need = {}, !.m = None, !.box = Inbox]
<1>1. c.pc = "upload_from" /\ UPLOAD(c.need, Appends(k)) BY DEF upload_messages_from
<1>2. IsClient(c) /\ ModeOK(c) /\ WorkOK(c, rep) BY InvParts
<1>3. c.need \subseteq c.m.msgs /\ c.app # <<>> /\ rep[c.box].id = c.m.id
  BY <1>1, <1>2 DEF ModeOK, WorkOK
<1>4. IsClient(k) /\ k.m = None
  <2>1. c.app \in Seq(Names) BY <1>2 DEF IsClient
  <2>2. Tail(c.app) \in Seq(Names) BY <1>3, <2>1
  <2>3. None \in Boxes /\ Inbox \in Names BY NoneOK DEF Names
  <2> QED BY <1>2, <2>2, <2>3 DEF IsClient, Fields
<1> HIDE DEF k
<1>5. CopyOK(k) BY <1>4, NoneOK, IdFacts DEF CopyOK
<1>6. \A r : NextOK(Appends(k), r) BY <1>4, <1>5, AppendsRun, RunsNext
<1> QED BY <1>1, <1>3, <1>6, UploadStep

LEMMA NextFolderOK ==
  ASSUME Inv, NEW k, IsClient(k), k.mode \in {"mailbox", "user"}, NEW i, NEW r
  PROVE  NextOK(NextFolder([k EXCEPT !.fl[i].mark = TRUE]), r)
<1> DEFINE j == NextFolder([k EXCEPT !.fl[i].mark = TRUE])
           l == [k.fl EXCEPT ![i].mark = TRUE]
<1>1. l \in Seq(Listed) BY ListedChange DEF IsClient
<1>2. j = [k EXCEPT !.fl = l, !.pc = "folder", !.i = @ + 1, !.r = FALSE, !.m = None, !.list = {},
                    !.last = 0, !.fresh = FALSE, !.box = Inbox]
  BY DEF NextFolder, IsClient, Fields
<1> HIDE DEF j, l
<1>3. None \in Boxes /\ Inbox \in Names BY NoneOK DEF Names
<1>4. /\ j.pc = "folder" /\ j.mode = k.mode /\ j.m = None /\ j.box = Inbox /\ j.fl = l /\ j.i = k.i + 1
      /\ j.app = k.app /\ j.mbx = k.mbx /\ j.srv = k.srv /\ j.rens = k.rens /\ DOMAIN j = Fields
  BY <1>2 DEF IsClient, Fields
<1>5. IsClient(j)
  <2>1. j.i \in Nat BY <1>4 DEF IsClient
  <2> QED BY <1>1, <1>3, <1>4, <2>1 DEF IsClient, Pcs, ListPcs
<1>6. ModeOK(j) /\ CopyOK(j) /\ WorkOK(j, r)
  BY <1>4, NoneOK, IdFacts DEF ModeOK, CopyOK, WorkOK, ListPcs, WorkPcs
<1> QED BY <1>4, <1>5, <1>6 DEF NextOK, j

LEMMA WorkNext ==
  ASSUME Inv, NEW k, IsClient(k), k.mode \in {"mailbox", "user"}, CopyOK(k), k.m.id # 0, NEW r,
         r[k.box].id = k.m.id => r[k.box].last <= k.m.last
  PROVE  NextOK(do_mailbox_work(k), r)
<1>1. PICK x \in {"setflags", "expunge", "upload", "uidlast", "next"} : Work(k) = [k EXCEPT !.pc = x]
  BY DEF Work
<1> DEFINE v == [k EXCEPT !.pc = x]
<1>2. do_mailbox_work(k) = IF v.pc = "next" THEN NextFolder([v EXCEPT !.fl[v.i].mark = TRUE]) ELSE v
  BY <1>1 DEF do_mailbox_work
<1>3. CASE x = "next"
  <2> DEFINE u == [k EXCEPT !.pc = "folder"]
  <2>1. v.pc = "next" /\ v.i = k.i BY <1>3 DEF IsClient, Fields
  <2>2. IsClient(u) /\ u.mode = k.mode BY DEF IsClient, Fields, Pcs, ListPcs
  <2>3. NextFolder([v EXCEPT !.fl[v.i].mark = TRUE]) = NextFolder([u EXCEPT !.fl[k.i].mark = TRUE])
    BY <2>1 DEF NextFolder, IsClient, Fields
  <2> HIDE DEF u
  <2>4. NextOK(NextFolder([u EXCEPT !.fl[k.i].mark = TRUE]), r) BY <2>2, NextFolderOK
  <2> QED BY <1>2, <2>1, <2>3, <2>4
<1>4. CASE x # "next"
  <2>1. x \in WorkPcs /\ x \in Pcs BY <1>4 DEF WorkPcs, Pcs, ListPcs
  <2>2. IsClient(v) /\ v.mode = k.mode /\ v.pc = x /\ Same(k, v)
    BY <2>1 DEF IsClient, Fields, Same
  <2>3. do_mailbox_work(k) = v BY <1>2, <1>4, <2>2
  <2> HIDE DEF v
  <2>4. ModeOK(v) /\ CopyOK(v) /\ WorkOK(v, r)
    BY <1>4, <2>2 DEF ModeOK, CopyOK, WorkOK, WorkPcs, ListPcs, Same
  <2> QED BY <1>4, <2>2, <2>3, <2>4 DEF NextOK
<1> QED BY <1>3, <1>4

LEMMA UploadList == ASSUME Inv, upload_messages_list PROVE Inv'
<1> DEFINE lacks == Lacks(c.m, c.list)
           batch == {x \in lacks : Cardinality({y \in lacks : y.uid < x.uid}) < Batch}
           k == [c EXCEPT !.list = {y \in @ : y.uid \notin Uids(batch)} \cup batch]
           then == IF batch = lacks THEN NextFolder([k EXCEPT !.fl[k.i].mark = TRUE]) ELSE k
<1>1. c.pc = "upload" /\ IsClient(c) /\ ModeOK(c) /\ CopyOK(c) /\ WorkOK(c, rep) /\ RepOK(rep)
  BY InvParts DEF upload_messages_list
<1>2. NextOK(Fail(c), rep) /\ Running BY <1>1, FailC DEF ListPcs, WorkPcs
<1>3. \/ rep' = rep /\ GoWith(Fail(c), onserver, staged)
      \/ rep[c.box].id = c.m.id /\ UPLOAD(batch, then)
  BY DEF upload_messages_list, Go, folder_select
<1>4. batch \subseteq c.m.msgs BY DEF Lacks
<1> HIDE DEF batch, lacks
<1>5. /\ IsClient(k) /\ Same(c, k) /\ k.pc = "upload" /\ k.mode = c.mode
  BY <1>1 DEF IsClient, Fields, Same
<1>6. c.mode \in {"mailbox", "user"} BY <1>1 DEF ModeOK, ListPcs, WorkPcs
<1> HIDE DEF k
<1>7. ASSUME NEW r, r[c.box].last = c.m.last PROVE NextOK(then, r)
  <2>1. NextOK(NextFolder([k EXCEPT !.fl[k.i].mark = TRUE]), r) BY <1>5, <1>6, NextFolderOK
  <2>2. NextOK(k, r)
    <3>1. ModeOK(k) /\ CopyOK(k) BY <1>1, <1>5, <1>6 DEF ModeOK, CopyOK, Same
    <3>2. c.m.last \in Nat BY <1>1 DEF IsClient, Boxes
    <3>3. WorkOK(k, r) BY <1>1, <1>5, <1>7, <3>2 DEF WorkOK, WorkPcs, Same
    <3> QED BY <1>5, <3>1, <3>3 DEF NextOK
  <2> QED BY <2>1, <2>2
<1> HIDE DEF then
<1>8. CASE rep' = rep /\ GoWith(Fail(c), onserver, staged)
  BY <1>1, <1>2, <1>8, StagedType, ClientStep
<1>9. CASE rep[c.box].id = c.m.id /\ UPLOAD(batch, then) BY <1>1, <1>4, <1>7, <1>9, UploadStep
<1> QED BY <1>3, <1>8, <1>9

-----------------------------------------------------------------------------
(* The lists of folders.                                                   *)

LEMMA IdsNext ==
  ASSUME NEW k, IsClient(k), CopyOK(k), k.mode \in {"mailbox", "user"}, NEW r
  PROVE  NextOK(Ids(k), r)
<1>1. Ids(k) = [k EXCEPT !.pc = "ids", !.i = 1, !.vanished = FALSE, !.need = {}, !.r = FALSE]
  BY DEF Ids
<1>2. IsClient(Ids(k)) /\ Same(k, Ids(k)) BY <1>1 DEF IsClient, Fields, Same, Pcs, ListPcs
<1>3. Ids(k).pc = "ids" /\ Ids(k).mode = k.mode /\ Ids(k).need = {} BY <1>1 DEF IsClient, Fields
<1> QED BY <1>2, <1>3 DEF NextOK, ModeOK, CopyOK, WorkOK, WorkPcs, ListPcs, Same

LEMMA ListingType ==
  ASSUME Inv, NEW names \in Seq(Names)
  PROVE  Listing(names) \in Seq(Remote)
<1> DEFINE I == {i \in DOMAIN names : rep[names[i]] # None}
           there == Sublist(names, I)
<1>1. I \in SUBSET DOMAIN names OBVIOUS
<1> HIDE DEF I
<1>2. there \in Seq(Names) BY <1>1, SublistType
<1>3. Listing(names) = [i \in 1..Len(there) |-> Entry(there[i])] BY DEF Listing, I
<1> HIDE DEF there
<1>4. ASSUME NEW n \in Names PROVE Entry(n) \in Remote
  <2>1. rep[n] \in Boxes BY MasterCopy
  <2> QED BY <2>1 DEF Entry, Remote, Boxes
<1>5. \A i \in 1..Len(there) : Entry(there[i]) \in Remote BY <1>2, <1>4
<1> QED BY <1>2, <1>3, <1>5

LEMMA DoMailboxes == ASSUME Inv, do_mailboxes_work PROVE Inv'
<1> DEFINE todo == Sublist(c.fl, Unmarked(c.fl))
           names == [i \in 1..Len(todo) |-> todo[i].name]
           k == [c EXCEPT !.srv = Listing(names)]
<1>1. c.pc = "mailboxes" /\ IsClient(c) /\ ModeOK(c) /\ CopyOK(c) /\ RepOK(rep)
  BY InvParts DEF do_mailboxes_work
<1>2. NextOK(Fail(c), rep) /\ Running BY <1>1, FailC
<1>3. Command(c, TRUE, rep, Ids(k)) BY DEF do_mailboxes_work
<1>4. c.fl \in Seq(Listed) /\ Unmarked(c.fl) \in SUBSET DOMAIN c.fl BY <1>1 DEF IsClient, Unmarked
<1>5. todo \in Seq(Listed) BY <1>4, SublistType
<1> HIDE DEF todo
<1>6. names \in Seq(Names)
  <2>1. \A i \in 1..Len(todo) : todo[i] \in Listed BY <1>5
  <2>2. \A i \in 1..Len(todo) : todo[i].name \in Names BY <2>1 DEF Listed
  <2> QED BY <1>5, <2>2
<1> HIDE DEF names
<1>7. Listing(names) \in Seq(Remote) BY <1>6, ListingType
<1>8. IsClient(k) /\ Same(c, k) /\ k.mode = "mailbox"
  BY <1>1, <1>7 DEF IsClient, Fields, Same, ModeOK
<1> HIDE DEF k
<1>9. CopyOK(k) BY <1>1, <1>8 DEF CopyOK, Same
<1>10. NextOK(Ids(k), rep) BY <1>8, <1>9, IdsNext
<1> QED BY <1>1, <1>2, <1>3, <1>10, CommandStep

(* A step to another place of do_user.                                     *)
LEMMA PlaceNext ==
  ASSUME NEW k, IsClient(k), CopyOK(k), k.mode = "user", NEW x \in {"done", "findall", "reset"}, NEW r,
         NEW s \in Seq(Remote)
  PROVE  NextOK([k EXCEPT !.pc = x], r) /\ NextOK([k EXCEPT !.srv = s, !.pc = x], r)
<1> DEFINE a == [k EXCEPT !.pc = x]
           b == [k EXCEPT !.srv = s, !.pc = x]
<1>1. IsClient(a) /\ Same(k, a) /\ a.pc = x /\ a.mode = "user" /\ IsClient(b) /\ Same(k, b) /\ b.pc = x
      /\ b.mode = "user"
  BY DEF IsClient, Fields, Same, Pcs, EndPcs
<1> HIDE DEF a, b
<1>2. NextOK(a, r) /\ NextOK(b, r)
  BY <1>1 DEF NextOK, ModeOK, CopyOK, WorkOK, WorkPcs, ListPcs, Same
<1> QED BY <1>2 DEF a, b

LEMMA DoUser == ASSUME Inv, do_user_work PROVE Inv'
<1>1. c.pc = "user" /\ IsClient(c) /\ ModeOK(c) /\ CopyOK(c) /\ RepOK(rep)
  BY InvParts DEF do_user_work
<1>2. NextOK(Fail(c), rep) /\ Running BY <1>1, FailC
<1>3. c.mode = "user" BY <1>1 DEF ModeOK
<1>4. Listing(Order) \in Seq(Remote) BY OrderAssumption, ListingType DEF Names
<1>5. <<>> \in Seq(Remote) OBVIOUS
<1>6. CASE mst[Inbox] = None
  <2>1. Command(c, TRUE, [n \in Names |-> None], [c EXCEPT !.pc = "done"])
    BY <1>6 DEF do_user_work
  <2>2. RepOK([n \in Names |-> None]) BY <1>1, RepGone
  <2>3. NextOK([c EXCEPT !.pc = "done"], [n \in Names |-> None]) BY <1>1, <1>3, <1>5, PlaceNext
  <2> QED BY <1>2, <2>1, <2>2, <2>3, CommandStep
<1>7. CASE mst[Inbox] # None
  <2> DEFINE a == [c EXCEPT !.srv = Listing(Order), !.pc = "findall"]
             b == [c EXCEPT !.srv = <<>>, !.pc = "reset"]
             then == IF rep[Inbox].id = mst[Inbox].id THEN a ELSE b
  <2>1. Command(c, TRUE, rep, then) BY <1>7 DEF do_user_work
  <2>2. NextOK(a, rep) BY <1>1, <1>3, <1>4, PlaceNext
  <2>3. NextOK(b, rep) BY <1>1, <1>3, <1>5, PlaceNext
  <2>4. NextOK(then, rep) BY <2>2, <2>3
  <2> HIDE DEF then
  <2> QED BY <1>1, <1>2, <2>1, <2>4, CommandStep
<1> QED BY <1>6, <1>7

LEMMA UserReset == ASSUME Inv, user_reset PROVE Inv'
<1>1. c.pc = "reset" /\ IsClient(c) /\ ModeOK(c) /\ CopyOK(c) /\ RepOK(rep)
  BY InvParts DEF user_reset
<1>2. NextOK(Fail(c), rep) /\ Running BY <1>1, FailC
<1>3. c.mode = "user" /\ <<>> \in Seq(Remote) BY <1>1 DEF ModeOK
<1>4. Command(c, TRUE, [n \in Names |-> None], [c EXCEPT !.pc = "findall"]) BY DEF user_reset
<1>5. RepOK([n \in Names |-> None]) BY <1>1, RepGone
<1>6. NextOK([c EXCEPT !.pc = "findall"], [n \in Names |-> None]) BY <1>1, <1>3, PlaceNext
<1> QED BY <1>2, <1>4, <1>5, <1>6, CommandStep

LEMMA DoUserMain == ASSUME Inv, do_user_main PROVE Inv'
<1> DEFINE I == {i \in DOMAIN Order : Order[i] = Inbox \/ mst[Order[i]] # None}
           there == Sublist(Order, I)
           l == [i \in 1..Len(there) |-> Folder(there[i])]
           k == [c EXCEPT !.fl = l]
<1>1. c.pc = "findall" /\ IsClient(c) /\ ModeOK(c) /\ CopyOK(c) BY InvParts DEF do_user_main
<1>2. Running /\ c.mode = "user" BY <1>1 DEF Running, ModeOK
<1>3. Local(Ids(k)) BY DEF do_user_main
<1>4. I \in SUBSET DOMAIN Order OBVIOUS
<1> HIDE DEF I
<1>5. there \in Seq(Names) BY <1>4, OrderAssumption, SublistType DEF Names
<1> HIDE DEF there
<1>6. l \in Seq(Listed)
  <2>1. \A i \in 1..Len(there) : Folder(there[i]) \in Listed BY <1>5 DEF Folder, Listed
  <2> QED BY <1>5, <2>1
<1> HIDE DEF l
<1>7. IsClient(k) /\ Same(c, k) /\ k.mode = "user" BY <1>1, <1>2, <1>6 DEF IsClient, Fields, Same
<1> HIDE DEF k
<1>8. CopyOK(k) BY <1>1, <1>7 DEF CopyOK, Same
<1>9. NextOK(Ids(k), rep) BY <1>7, <1>8, IdsNext
<1> QED BY <1>2, <1>3, <1>9, LocalStep

LEMMA ReserveMessages == ASSUME Inv, reserve_messages PROVE Inv'
<1> DEFINE m == mst[c.fl[c.i].name]
           at == Lookup(c.srv, m.id)
           list == IF at = {} THEN {} ELSE c.srv[First(at)].msgs
           found == Uuids(Lacks(m, list)) \cap Uuids(Known(c.srv))
           a == [c EXCEPT !.fl[c.i].id = 0, !.i = @ + 1, !.vanished = TRUE]
           b == [c EXCEPT !.fl[c.i].id = m.id, !.i = @ + 1, !.need = @ \cup found]
<1>1. c.pc = "ids" /\ IsClient(c) /\ ModeOK(c) /\ CopyOK(c) BY InvParts DEF reserve_messages
<1>2. /\ Running /\ c.mode \in {"mailbox", "user"} /\ c.need \subseteq Uuids(Known(c.srv))
      /\ c.i \in 1..Len(c.fl)
  BY <1>1 DEF Running, ModeOK, ListPcs, Inv, TypeInv, ClientOK, PlaceOK
<1>3. Local(IF m = None THEN a ELSE b) BY DEF reserve_messages
<1>4. c.fl[c.i].name \in Names /\ c.fl \in Seq(Listed)
  <2>1. c.fl \in Seq(Listed) BY <1>1 DEF IsClient
  <2>2. c.fl[c.i] \in Listed BY <1>2, <2>1
  <2> QED BY <2>1, <2>2 DEF Listed
<1>5. m.id \in Nat BY <1>4, MasterCopy DEF Boxes
<1>6. found \subseteq Uuids(Known(c.srv)) OBVIOUS
<1> HIDE DEF m, found
<1>7. NextOK(a, rep)
  <2> DEFINE l == [c.fl EXCEPT ![c.i].id = 0]
  <2>1. l \in Seq(Listed) BY <1>4, ListedChange
  <2>2. a = [c EXCEPT !.fl = l, !.i = @ + 1, !.vanished = TRUE] BY <1>1 DEF IsClient, Fields
  <2> HIDE DEF l, a
  <2>3. IsClient(a) /\ Same(c, a) BY <1>1, <2>1, <2>2 DEF IsClient, Fields, Same
  <2>4. a.pc = "ids" /\ a.mode = c.mode /\ a.need = c.need /\ a.srv = c.srv
    BY <1>1, <2>2 DEF IsClient, Fields
  <2>5. ModeOK(a) BY <1>2, <2>4 DEF ModeOK
  <2> QED BY <1>1, <2>3, <2>4, <2>5 DEF NextOK, CopyOK, WorkOK, WorkPcs, Same
<1>8. NextOK(b, rep)
  <2> DEFINE l == [c.fl EXCEPT ![c.i].id = m.id]
  <2>1. l \in Seq(Listed) BY <1>4, <1>5, ListedChange
  <2>2. b = [c EXCEPT !.fl = l, !.i = @ + 1, !.need = @ \cup found] BY <1>1 DEF IsClient, Fields
  <2> HIDE DEF l, b
  <2>3. IsClient(b) /\ Same(c, b) BY <1>1, <2>1, <2>2 DEF IsClient, Fields, Same
  <2>4. b.pc = "ids" /\ b.mode = c.mode /\ b.need = c.need \cup found /\ b.srv = c.srv
    BY <1>1, <2>2 DEF IsClient, Fields
  <2>5. ModeOK(b) BY <1>2, <1>6, <2>4 DEF ModeOK
  <2> QED BY <1>1, <2>3, <2>4, <2>5 DEF NextOK, CopyOK, WorkOK, WorkPcs, Same
<1> HIDE DEF a, b
<1>9. NextOK(IF m = None THEN a ELSE b, rep) BY <1>7, <1>8
<1> QED BY <1>2, <1>3, <1>9, LocalStep

LEMMA SettlesNext ==
  ASSUME NEW k, CopyOK(k), NEW j, Settles(k, j), j.pc \in {"delete", "rename", "folder"}, NEW r
  PROVE  NextOK(j, r)
BY DEF Settles, Same, NextOK, CopyOK, WorkOK, WorkPcs

LEMMA Reserve == ASSUME Inv, reserve PROVE Inv'
<1> DEFINE Body(u) == (CHOOSE y \in Known(c.srv) : y.uuid = u).body
           missing == {v \in c.need : v \notin Uuids(staged)}
           st == staged \cup {[uuid |-> u, body |-> Body(u)] : u \in missing}
<1>1. c.pc = "reserve" /\ IsClient(c) /\ ModeOK(c) /\ CopyOK(c) /\ RepOK(rep) /\ staged \subseteq Stagings
  BY InvParts, StagedType DEF reserve
<1>2. Running /\ c.mode \in {"mailbox", "user"} /\ c.need \subseteq Uuids(Known(c.srv))
  BY <1>1 DEF Running, ModeOK, ListPcs
<1>3. rep' = rep /\ (GoWith(Tagged(c), onserver, staged) \/ GoWith(Tagged(c), onserver \cup c.need, st))
  BY DEF reserve, Go
<1>4. Known(c.srv) \subseteq Msgs
  <2>1. \A i \in 1..Len(c.srv) : c.srv[i] \in Remote BY <1>1 DEF IsClient
  <2>2. \A i \in 1..Len(c.srv) : c.srv[i].msgs \subseteq Msgs BY <2>1 DEF Remote
  <2> QED BY <2>2 DEF Known
<1>5. ASSUME NEW u \in c.need PROVE u \in Nat /\ Body(u) \in Nat
  <2>1. PICK y \in Known(c.srv) : y.uuid = u BY <1>2 DEF Uuids
  <2>2. (CHOOSE z \in Known(c.srv) : z.uuid = u) \in Msgs BY <1>4, <2>1
  <2>3. Body(u) \in Nat BY <2>2 DEF Msgs
  <2> QED BY <1>4, <2>1, <2>3 DEF Msgs
<1>6. st \subseteq Stagings BY <1>1, <1>5 DEF Stagings
<1>7. NextOK(Tagged(c), rep) BY <1>1, <1>2, TaggedSettles, SettlesNext
<1> HIDE DEF st
<1> QED BY <1>1, <1>2, <1>3, <1>6, <1>7, ClientStep

LEMMA FolderDelete == ASSUME Inv, folder_delete PROVE Inv'
<1> DEFINE n == Head(c.dels)
           k == [c EXCEPT !.dels = Tail(@)]
<1>1. c.pc = "delete" /\ IsClient(c) /\ ModeOK(c) /\ CopyOK(c) /\ RepOK(rep)
  BY InvParts DEF folder_delete
<1>2. NextOK(Fail(c), rep) /\ Running BY <1>1, FailC DEF ListPcs
<1>3. Command(c, rep[n] # None, [rep EXCEPT ![n] = None], k) BY DEF folder_delete
<1>4. IsClient(k) /\ Same(c, k) /\ k.pc = "delete" /\ k.mode = c.mode
  BY <1>1 DEF IsClient, Fields, Same
<1> HIDE DEF n, k
<1>5. ModeOK(k) BY <1>1, <1>4 DEF ModeOK, ListPcs
<1>6. NextOK(k, [rep EXCEPT ![n] = None])
  BY <1>1, <1>4, <1>5 DEF NextOK, CopyOK, WorkOK, WorkPcs, Same
<1>7. RepOK([rep EXCEPT ![n] = None]) BY <1>1, RepGone
<1> QED BY <1>2, <1>3, <1>6, <1>7, CommandStep

LEMMA FolderRename == ASSUME Inv, folder_rename PROVE Inv'
<1> DEFINE free == {e \in c.rens : ~\E f \in c.rens : f.old = e.new}
<1>1. c.pc = "rename" /\ IsClient(c) /\ ModeOK(c) /\ CopyOK(c) /\ RepOK(rep)
  BY InvParts DEF folder_rename
<1>2. NextOK(Fail(c), rep) /\ Running BY <1>1, FailC DEF ListPcs
<1>3. CASE free = {}
  <2>1. Local(Fail(c)) BY <1>3 DEF folder_rename
  <2> QED BY <1>2, <2>1, LocalStep
<1>4. CASE free # {}
  <2>1. PICK e \in c.rens : Command(c, rep[e.old] # None /\ rep[e.new] = None,
                                    [rep EXCEPT ![e.old] = None, ![e.new] = rep[e.old]],
                                    [c EXCEPT !.rens = @ \ {e}])
    BY <1>4 DEF folder_rename
  <2> DEFINE k == [c EXCEPT !.rens = @ \ {e}]
             r == [rep EXCEPT ![e.old] = None, ![e.new] = rep[e.old]]
  <2>2. e.old \in Names /\ e.new \in Names BY <1>1 DEF IsClient, Renames
  <2>3. RepOK(r)
    <3>1. RepOK([rep EXCEPT ![e.old] = None]) BY <1>1, RepGone
    <3>2. rep[e.old] \in Boxes /\ Genuine(rep[e.old]) /\ rep[e.old].id <= LastId /\ Behind(rep[e.old])
      BY <1>1, <2>2 DEF RepOK
    <3> QED BY <3>1, <3>2, RepSet
  <2>4. IsClient(k) /\ Same(c, k) /\ k.pc = "rename" /\ k.mode = c.mode
    BY <1>1 DEF IsClient, Fields, Same
  <2> HIDE DEF k, r
  <2>5. ModeOK(k) BY <1>1, <2>4 DEF ModeOK, ListPcs
  <2>6. NextOK(k, r) BY <1>1, <2>4, <2>5 DEF NextOK, CopyOK, WorkOK, WorkPcs, Same
  <2> QED BY <1>2, <2>1, <2>3, <2>6, CommandStep DEF k, r
<1> QED BY <1>3, <1>4

-----------------------------------------------------------------------------
(* The loop over the client's folders.                                     *)

LEMMA RemoteChange ==
  ASSUME NEW s \in Seq(Remote), NEW l, NEW b \in BOOLEAN
  PROVE  [s EXCEPT ![l].mark = b] \in Seq(Remote)
<1>1. CASE l \in 1..Len(s)
  <2>1. s[l] \in Remote BY <1>1
  <2>2. [s[l] EXCEPT !.mark = b] \in Remote BY <2>1 DEF Remote
  <2> QED BY <1>1, <2>2
<1>2. CASE l \notin 1..Len(s)
  <2>1. [s EXCEPT ![l].mark = b] = s BY <1>2
  <2> QED BY <2>1
<1> QED BY <1>1, <1>2

LEMMA DoFolders == ASSUME Inv, do_folders PROVE Inv'
<1> DEFINE f == c.fl[c.i]
           m == mst[f.name]
           at == Lookup(c.srv, f.id)
           s == First(at)
           gone == c.srv[s].name
           k == [c EXCEPT !.m = m, !.box = f.name]
           v == [c EXCEPT !.vanished = TRUE, !.i = @ + 1]
           less == [rep EXCEPT ![gone] = None]
           off == [v EXCEPT !.srv[s].mark = FALSE, !.r = FALSE]
           new == [k EXCEPT !.pc = "create"]
           same == [k EXCEPT !.list = c.srv[s].msgs, !.last = c.srv[s].last]
<1>1. c.pc = "folder" /\ IsClient(c) /\ ModeOK(c) /\ CopyOK(c) /\ RepOK(rep)
  BY InvParts DEF do_folders
<1>2. NextOK(Fail(c), rep) /\ Running /\ c.mode \in {"mailbox", "user"}
  BY <1>1, FailC DEF ListPcs, ModeOK
<1>3. f.name \in Names
  <2>1. c.i \in 1..Len(c.fl) BY <1>1 DEF Inv, TypeInv, ClientOK, PlaceOK
  <2>2. f \in Listed BY <1>1, <2>1 DEF IsClient
  <2> QED BY <2>2 DEF Listed
<1>4. \/ m = None /\ Command(v, rep[gone] # None, less, off)
      \/ m = None /\ Local([v EXCEPT !.r = TRUE])
      \/ m # None /\ Local(new)
      \/ m # None /\ Command(c, rep[gone] # None, less, new)
      \/ m # None /\ Local(do_mailbox_work(same))
  BY DEF do_folders
<1>5. /\ m \in Boxes /\ Genuine(m) /\ m.id <= LastId /\ Behind(m) /\ (m # None => m.id # 0)
      /\ m # None /\ rep[f.name].id = m.id => rep[f.name].last <= m.last
      /\ rep[f.name] \in Boxes
  BY <1>3, MasterCopy
<1>6. RepOK(less) BY <1>1, RepGone
<1>7. less[f.name] \in {rep[f.name], None} BY <1>1, <1>3 DEF RepOK
<1> HIDE DEF f, m, s, gone, less
<1>8. IsClient(v) /\ Same(c, v) /\ v.mode = c.mode /\ v.pc = "folder" /\ v.srv = c.srv
  BY <1>1 DEF IsClient, Fields, Same
<1>9. IsClient(k) /\ k.mode = c.mode /\ k.m = m /\ k.box = f.name /\ k.pc = "folder"
  BY <1>1, <1>3, <1>5 DEF IsClient, Fields
<1> HIDE DEF v, k
<1>10. CopyOK(v) BY <1>1, <1>8 DEF CopyOK, Same
<1>11. NextOK(Fail(v), rep) BY <1>2, <1>8, <1>10, FailNext
<1>12. NextOK(off, less)
  <2> DEFINE l == [v.srv EXCEPT ![s].mark = FALSE]
  <2>1. l \in Seq(Remote) BY <1>8, RemoteChange DEF IsClient
  <2>2. off = [v EXCEPT !.srv = l, !.r = FALSE] BY <1>8 DEF IsClient, Fields
  <2> HIDE DEF l, off
  <2>3. IsClient(off) /\ Same(v, off) /\ off.mode = v.mode /\ off.pc = "folder"
    BY <1>8, <2>1, <2>2 DEF IsClient, Fields, Same
  <2> QED BY <1>2, <1>8, <1>10, <2>3 DEF NextOK, ModeOK, CopyOK, WorkOK, WorkPcs, ListPcs, Same
<1>13. NextOK([v EXCEPT !.r = TRUE], rep)
  <2> DEFINE j == [v EXCEPT !.r = TRUE]
  <2>1. IsClient(j) /\ Same(v, j) /\ j.mode = v.mode /\ j.pc = "folder"
    BY <1>8 DEF IsClient, Fields, Same
  <2> HIDE DEF j
  <2>2. NextOK(j, rep)
    BY <1>2, <1>8, <1>10, <2>1 DEF NextOK, ModeOK, CopyOK, WorkOK, WorkPcs, ListPcs, Same
  <2> QED BY <2>2 DEF j
<1>14. ASSUME m # None, NEW r, r[f.name] \in {rep[f.name], None} PROVE NextOK(new, r)
  <2>1. IsClient(new) /\ new.mode = c.mode /\ new.m = m /\ new.box = f.name /\ new.pc = "create"
    BY <1>9 DEF IsClient, Fields, Pcs, ListPcs, WorkPcs
  <2> HIDE DEF new
  <2>2. ModeOK(new) BY <1>2, <2>1 DEF ModeOK, ListPcs, WorkPcs
  <2>3. CopyOK(new) BY <1>5, <2>1 DEF CopyOK
  <2>4. m.id # 0 /\ (r[f.name].id = m.id => r[f.name].last <= m.last) BY <1>5, <1>14, NoneOK
  <2> QED BY <2>1, <2>2, <2>3, <2>4 DEF NextOK, WorkOK
<1>15. ASSUME m # None PROVE NextOK(do_mailbox_work(same), rep)
  <2>1. IsClient(same) /\ same.mode = c.mode /\ same.m = m /\ same.box = f.name
    BY <1>9 DEF IsClient, Fields
  <2> HIDE DEF same
  <2>2. CopyOK(same) BY <1>5, <2>1 DEF CopyOK
  <2> QED BY <1>2, <1>5, <1>15, <2>1, <2>2, WorkNext
<1> HIDE DEF off, new, same
<1>16. CASE m = None /\ Command(v, rep[gone] # None, less, off)
  BY <1>2, <1>6, <1>11, <1>12, <1>16, CommandStep
<1>17. CASE m = None /\ Local([v EXCEPT !.r = TRUE]) BY <1>2, <1>13, <1>17, LocalStep
<1>18. CASE m # None /\ Local(new) BY <1>2, <1>14, <1>18, LocalStep
<1>19. CASE m # None /\ Command(c, rep[gone] # None, less, new)
  <2>1. NextOK(new, less) BY <1>7, <1>14, <1>19
  <2> QED BY <1>2, <1>6, <1>19, <2>1, CommandStep
<1>20. CASE m # None /\ Local(do_mailbox_work(same)) BY <1>2, <1>15, <1>20, LocalStep
<1> QED BY <1>4, <1>16, <1>17, <1>18, <1>19, <1>20

(* The steps on the mailbox that is being worked on.                       *)
LEMMA WorkFacts ==
  ASSUME Inv, c.pc \in WorkPcs
  PROVE  /\ IsClient(c) /\ CopyOK(c) /\ RepOK(rep) /\ c.mode \in {"mailbox", "user"} /\ c.m.id # 0
         /\ rep[c.box].id = c.m.id => rep[c.box].last <= c.m.last
         /\ Running /\ c.box \in Names /\ c.m \in Boxes /\ rep[c.box] \in Boxes /\ NextOK(Fail(c), rep)
<1>1. IsClient(c) /\ ModeOK(c) /\ CopyOK(c) /\ RepOK(rep) /\ WorkOK(c, rep) BY InvParts
<1>2. NextOK(Fail(c), rep) /\ Running BY FailC DEF ListPcs
<1>3. c.mode \in {"mailbox", "user"} BY <1>1 DEF ModeOK, ListPcs
<1>4. c.box \in Names /\ c.m \in Boxes /\ rep[c.box] \in Boxes BY <1>1 DEF IsClient, RepOK
<1> QED BY <1>1, <1>2, <1>3, <1>4 DEF WorkOK

LEMMA FolderCreate == ASSUME Inv, folder_create PROVE Inv'
<1> DEFINE b == [None EXCEPT !.id = c.m.id]
           r == [rep EXCEPT ![c.box] = b]
           k == [c EXCEPT !.fresh = TRUE]
<1>1. c.pc = "create" /\ Command(c, rep[c.box] = None, r, do_mailbox_work(k)) BY DEF folder_create
<1>2. c.pc \in WorkPcs BY <1>1 DEF WorkPcs
<1>3. /\ IsClient(c) /\ CopyOK(c) /\ RepOK(rep) /\ c.mode \in {"mailbox", "user"} /\ c.m.id # 0
      /\ Running /\ c.box \in Names /\ c.m \in Boxes /\ NextOK(Fail(c), rep)
  BY <1>2, WorkFacts
<1>4. b \in Boxes /\ b.id = c.m.id /\ b.msgs = {} /\ b.last = 0 BY <1>3 DEF None, Boxes
<1>5. Genuine(b) /\ b.id <= LastId /\ Behind(b)
  <2>1. \A n \in Names : mst[n].last \in Nat BY MasterCopy DEF Boxes
  <2> HIDE DEF b
  <2> QED BY <1>3, <1>4, <2>1 DEF Genuine, CopyOK, Behind
<1>6. RepOK(r) BY <1>3, <1>4, <1>5, RepSet
<1>7. r[c.box] = b BY <1>3 DEF RepOK
<1>8. IsClient(k) /\ Same(c, k) /\ k.mode = c.mode BY <1>3 DEF IsClient, Fields, Same
<1> HIDE DEF b, r, k
<1>9. CopyOK(k) BY <1>3, <1>8 DEF CopyOK, Same
<1>10. r[k.box].last <= k.m.last BY <1>3, <1>4, <1>7, <1>8 DEF Same, Boxes
<1>11. NextOK(do_mailbox_work(k), r) BY <1>3, <1>8, <1>9, <1>10, WorkNext DEF Same
<1> QED BY <1>1, <1>3, <1>6, <1>11, CommandStep

(* A command that changes the messages of the mailbox and takes no UID     *)
(* from elsewhere.                                                         *)
LEMMA SelectedNext ==
  ASSUME Inv, c.pc \in WorkPcs, NEW new, new \subseteq Msgs,
         \A y \in new : \E z \in rep[c.box].msgs : z.uid = y.uid /\ z.uuid = y.uuid, NEW l,
         Command(c, folder_select, [rep EXCEPT ![c.box].msgs = new],
                 do_mailbox_work([c EXCEPT !.list = l]))
  PROVE  Inv'
<1> DEFINE b == [rep[c.box] EXCEPT !.msgs = new]
           r == [rep EXCEPT ![c.box] = b]
           k == [c EXCEPT !.list = l]
<1>1. /\ IsClient(c) /\ CopyOK(c) /\ RepOK(rep) /\ c.mode \in {"mailbox", "user"} /\ c.m.id # 0
      /\ rep[c.box].id = c.m.id => rep[c.box].last <= c.m.last
      /\ Running /\ c.box \in Names /\ c.m \in Boxes /\ rep[c.box] \in Boxes /\ NextOK(Fail(c), rep)
  BY WorkFacts
<1>2. b \in Boxes /\ b.id = rep[c.box].id /\ b.msgs = new /\ b.last = rep[c.box].last
  BY <1>1 DEF Boxes
<1>3. r = [rep EXCEPT ![c.box].msgs = new] /\ r[c.box] = b BY <1>1 DEF RepOK
<1>4. Command(c, folder_select, r, do_mailbox_work(k)) BY <1>3
<1>5. IsClient(k) /\ Same(c, k) /\ k.mode = c.mode BY <1>1 DEF IsClient, Fields, Same
<1> HIDE DEF b, k
<1>6. Genuine(b) /\ b.id <= LastId /\ Behind(b)
  <2>1. Genuine(rep[c.box]) /\ rep[c.box].id <= LastId /\ Behind(rep[c.box]) BY <1>1 DEF RepOK
  <2>2. ASSUME NEW y \in new
        PROVE  [id |-> b.id, uid |-> y.uid, uuid |-> y.uuid] \in bound /\ y.uid <= b.last
    <3>1. PICK z \in rep[c.box].msgs : z.uid = y.uid /\ z.uuid = y.uuid OBVIOUS
    <3> QED BY <1>2, <2>1, <3>1 DEF Genuine
  <2>3. Behind(b) BY <1>2, <2>1 DEF Behind
  <2> QED BY <1>2, <2>1, <2>2, <2>3 DEF Genuine
<1>7. RepOK(r) BY <1>1, <1>2, <1>6, RepSet
<1> HIDE DEF r
<1>8. CopyOK(k) BY <1>1, <1>5 DEF CopyOK, Same
<1>9. r[k.box].id = k.m.id => r[k.box].last <= k.m.last BY <1>1, <1>2, <1>3, <1>5 DEF Same
<1>10. NextOK(do_mailbox_work(k), r) BY <1>1, <1>5, <1>8, <1>9, WorkNext DEF Same
<1>11. folder_select \in BOOLEAN BY DEF folder_select
<1> QED BY <1>1, <1>4, <1>7, <1>10, <1>11, CommandStep

LEMMA UpdateFlags == ASSUME Inv, update_flags PROVE Inv'
<1> DEFINE new(y) == CHOOSE x \in c.m.msgs : x.uid = y.uid
           set(y) == IF y.uid \in Uids(NewFlags(c)) THEN [y EXCEPT !.fl = new(y).fl] ELSE y
           msgs == {set(y) : y \in rep[c.box].msgs}
           l == {set(y) : y \in c.list}
<1>1. c.pc = "setflags" /\ c.pc \in WorkPcs BY DEF update_flags, WorkPcs
<1>2. IsClient(c) /\ RepOK(rep) /\ c.box \in Names /\ c.m \in Boxes /\ rep[c.box] \in Boxes
  BY <1>1, WorkFacts
<1>3. ASSUME NEW y \in rep[c.box].msgs
      PROVE  set(y) \in Msgs /\ set(y).uid = y.uid /\ set(y).uuid = y.uuid
  <2>1. y \in Msgs BY <1>2 DEF Boxes
  <2>2. CASE y.uid \in Uids(NewFlags(c))
    <3>1. \E x \in c.m.msgs : x.uid = y.uid BY <2>2 DEF Uids, NewFlags
    <3>2. new(y) \in Msgs BY <1>2, <3>1 DEF Boxes
    <3>3. new(y).fl \in BOOLEAN BY <3>2 DEF Msgs
    <3>4. set(y) = [y EXCEPT !.fl = new(y).fl] BY <2>2
    <3> HIDE DEF new, set
    <3> QED BY <2>1, <3>3, <3>4 DEF Msgs
  <2>3. CASE y.uid \notin Uids(NewFlags(c)) BY <2>1, <2>3
  <2> QED BY <2>2, <2>3
<1>4. Command(c, folder_select, [rep EXCEPT ![c.box].msgs = msgs],
              do_mailbox_work([c EXCEPT !.list = l]))
  <2>1. [rep EXCEPT ![c.box].msgs = {set(y) : y \in @}] = [rep EXCEPT ![c.box].msgs = msgs] OBVIOUS
  <2>2. [c EXCEPT !.list = {set(y) : y \in @}] = [c EXCEPT !.list = l] OBVIOUS
  <2> QED BY <2>1, <2>2 DEF update_flags
<1>5. msgs \subseteq Msgs BY <1>3
<1>6. \A y \in msgs : \E z \in rep[c.box].msgs : z.uid = y.uid /\ z.uuid = y.uuid BY <1>3
<1> HIDE DEF msgs, l
<1> QED BY <1>1, <1>4, <1>5, <1>6, SelectedNext

LEMMA ExpungeReplica == ASSUME Inv, expunge_replica PROVE Inv'
<1> DEFINE msgs == {y \in rep[c.box].msgs : y.uid \notin Uids(Expunged(c))}
           l == c.list \ Expunged(c)
<1>1. c.pc = "expunge" /\ c.pc \in WorkPcs BY DEF expunge_replica, WorkPcs
<1>2. rep[c.box] \in Boxes BY <1>1, WorkFacts
<1>3. Command(c, folder_select, [rep EXCEPT ![c.box].msgs = msgs],
              do_mailbox_work([c EXCEPT !.list = l]))
  BY DEF expunge_replica
<1>4. msgs \subseteq Msgs BY <1>2 DEF Boxes
<1>5. \A y \in msgs : \E z \in rep[c.box].msgs : z.uid = y.uid /\ z.uuid = y.uuid OBVIOUS
<1> HIDE DEF msgs, l
<1> QED BY <1>1, <1>3, <1>4, <1>5, SelectedNext

LEMMA UpdateUidlast == ASSUME Inv, update_uidlast PROVE Inv'
<1> DEFINE b == [rep[c.box] EXCEPT !.last = c.m.last]
           r == [rep EXCEPT ![c.box] = b]
           then == NextFolder([c EXCEPT !.fl[c.i].mark = TRUE])
<1>1. c.pc = "uidlast" /\ c.pc \in WorkPcs BY DEF update_uidlast, WorkPcs
<1>2. /\ IsClient(c) /\ CopyOK(c) /\ RepOK(rep) /\ c.mode \in {"mailbox", "user"}
      /\ rep[c.box].id = c.m.id => rep[c.box].last <= c.m.last
      /\ Running /\ c.box \in Names /\ c.m \in Boxes /\ rep[c.box] \in Boxes /\ NextOK(Fail(c), rep)
  BY <1>1, WorkFacts
<1>3. r = [rep EXCEPT ![c.box].last = c.m.last] BY <1>2 DEF RepOK
<1>4. Command(c, folder_select, r, then) BY <1>3 DEF update_uidlast
<1>5. b \in Boxes /\ b.id = rep[c.box].id /\ b.msgs = rep[c.box].msgs /\ b.last = c.m.last
  BY <1>2 DEF Boxes
<1> HIDE DEF b
<1>6. ASSUME folder_select PROVE RepOK(r)
  <2>1. Genuine(rep[c.box]) /\ rep[c.box].id = c.m.id BY <1>2, <1>6 DEF RepOK, folder_select
  <2>2. \A x \in rep[c.box].msgs : x.uid \in Nat BY <1>2 DEF Boxes, Msgs
  <2>3. rep[c.box].last \in Nat /\ c.m.last \in Nat BY <1>2 DEF Boxes
  <2>4. Genuine(b) BY <1>2, <1>5, <2>1, <2>2, <2>3 DEF Genuine
  <2>5. b.id <= LastId /\ Behind(b) BY <1>2, <1>5, <2>1 DEF CopyOK, Behind
  <2> QED BY <1>2, <1>5, <2>4, <2>5, RepSet
<1>7. NextOK(then, r) BY <1>2, NextFolderOK
<1>8. folder_select \in BOOLEAN BY DEF folder_select
<1> HIDE DEF r, then
<1> QED BY <1>2, <1>4, <1>6, <1>7, <1>8, CommandStep

-----------------------------------------------------------------------------
(* sync_client ends and is started again.                                  *)

LEMMA Die == ASSUME Inv, die PROVE Inv'
<1>1. RepOK(rep) /\ staged \subseteq Stagings /\ IsClient(c) /\ CopyOK(c) BY InvParts, StagedType
<1>2. Running /\ rep' = rep /\ GoWith(Bail(c), onserver, staged) BY DEF die, Running, Go
<1>3. NextOK(Bail(c), rep) BY <1>1, BailNext
<1> QED BY <1>1, <1>2, <1>3, ClientStep

LEMMA Redo == ASSUME Inv, redo PROVE Inv'
<1>1. RepOK(rep) /\ staged \subseteq Stagings BY InvParts, StagedType
<1>2. PICK f \in left : /\ c.pc = "dead" /\ wrk' = f /\ left' = left \ {f}
                        /\ c' = [Rest EXCEPT !.pc = "lock", !.once = TRUE]
                        /\ UNCHANGED <<mst, rep, w, cur, file, flock, staged, ops, bound>>
  BY DEF redo, master
<1>3. Fresh(c', "lock") BY <1>2, RestOK
<1>4. ClientOK' BY <1>3 DEF Fresh, ClientOK, EndPcs
<1>5. f # NoInode BY InodeAssumption DEF Inv, TypeInv, LogsOK
<1>6. LogsOK' BY <1>2, <1>3, <1>5 DEF Inv, TypeInv, LogsOK, Fresh
<1>7. CopyOK(c') /\ WorkOK(c', rep')
  BY <1>3, NoneOK, IdFacts DEF Fresh, CopyOK, WorkOK, WorkPcs
<1> QED BY <1>1, <1>2, <1>4, <1>6, <1>7, MasterKept

LEMMA Restart == ASSUME Inv, restart PROVE Inv'
<1>1. RepOK(rep) /\ staged \subseteq Stagings BY InvParts, StagedType
<1>2. c.pc = "dead" /\ c' = Rest /\ UNCHANGED <<mst, rep, w, cur, wrk, left, file, flock, staged, ops, bound>>
  BY DEF restart, master
<1>3. Fresh(c', "idle") BY <1>2, RestOK
<1>4. ClientOK' BY <1>3 DEF Fresh, ClientOK, EndPcs
<1>5. LogsOK' BY <1>2, <1>3 DEF Inv, TypeInv, LogsOK, Fresh
<1>6. CopyOK(c') /\ WorkOK(c', rep')
  BY <1>3, NoneOK, IdFacts DEF Fresh, CopyOK, WorkOK, WorkPcs
<1> QED BY <1>1, <1>2, <1>4, <1>5, <1>6, MasterKept

LEMMA DropStaged == ASSUME Inv, RESTART PROVE Inv'
<1>1. RepOK(rep) /\ CopyOK(c) /\ WorkOK(c, rep) BY InvParts
<1>2. UNCHANGED <<mst, rep, w, cur, wrk, left, file, flock, c, ops, bound>> /\ staged' = {}
  BY DEF RESTART, master
<1>3. ClientOK' /\ LogsOK' BY <1>2 DEF Inv, TypeInv, ClientOK, LogsOK
<1> QED BY <1>1, <1>2, <1>3, MasterKept

-----------------------------------------------------------------------------
(* The server processes.                                                   *)

(* A request: mailboxes keep their uniqueid and their last_uid does not    *)
(* fall, or they are new.                                                  *)
Grown(m) == \A n \in Names : \/ m[n] = None \/ m[n].id = LastId + 1
                             \/ \E o \in Names : m[n].id = mst[o].id /\ mst[o].last <= m[n].last
Distinct(m) == \A n, o \in Names : m[n].id = m[o].id /\ m[n].id # 0 => n = o
Fits(m) == \A n \in Names : /\ \A x \in m[n].msgs : x.uid <= m[n].last
                            /\ m[n].id = 0 => m[n] = None

Allowed(m) == m \in [Names -> Boxes] /\ Grown(m) /\ Distinct(m) /\ Fits(m)

LEMMA MasterStep ==
  ASSUME Inv, Allowed(mst'),
         bound \subseteq bound', bound' \subseteq Bindings,
         \A n \in Names : \A x \in mst'[n].msgs :
           [id |-> mst'[n].id, uid |-> x.uid, uuid |-> x.uuid] \in bound',
         ops' = ops + 1 \/ (ops' = ops /\ \A n \in Names : mst'[n].id # LastId + 1),
         UNCHANGED <<rep, logs, c, staged>>, WritersOK'
  PROVE  Inv'
<1> USE DEF Allowed
<1>1. StoreOK' BY DEF Inv, TypeInv, StoreOK
<1>2. LogsOK' /\ ClientOK' BY DEF Inv, TypeInv, LogsOK, ClientOK, logs
<1>3. MailInv'
  <2>1. \A b : Genuine(b) => Genuine(b)' BY DEF Genuine
  <2>2. \A n \in Names : Genuine(rep[n]) BY DEF Inv, MailInv
  <2>3. Genuine(c.m) BY DEF Inv, MailInv
  <2>4. \A n \in Names : Genuine(mst[n])' BY DEF Fits, Genuine
  <2>5. \A n \in Names : Genuine(rep[n])' BY <2>2 DEF Genuine
  <2>6. Genuine(c.m)' BY <2>3 DEF Genuine
  <2> QED BY <2>4, <2>5, <2>6 DEF MailInv
<1>4. LastId \in Nat /\ LastId' \in {LastId, LastId + 1} /\ (ops' = ops + 1 => LastId' = LastId + 1)
      /\ (ops' = ops => LastId' = LastId)
  BY IdFacts, NamesFinite DEF LastId
<1>5. \A n \in Names : mst[n] \in Boxes /\ rep[n] \in Boxes /\ mst[n].id <= LastId BY MasterCopy
<1>6. c.m \in Boxes BY InvParts DEF IsClient
<1>7. \A n \in Names : mst'[n].id \in Nat /\ mst'[n].id <= LastId'
  <2>1. ASSUME NEW n \in Names PROVE mst'[n].id \in Nat /\ mst'[n].id <= LastId'
    <3>1. mst'[n].id \in Nat BY DEF Boxes
    <3>2. CASE mst'[n] = None BY <1>4, <3>2, NoneOK
    <3>3. CASE mst'[n].id = LastId + 1
      <4>1. ops' = ops + 1 BY <3>3
      <4> QED BY <1>4, <3>1, <3>3, <4>1
    <3>4. CASE \E o \in Names : mst'[n].id = mst[o].id
      <4>1. mst'[n].id <= LastId BY <1>5, <3>4
      <4> QED BY <1>4, <3>1, <4>1
    <3> QED BY <3>2, <3>3, <3>4 DEF Grown
  <2> QED BY <2>1
<1>8. IdInv'
  <2>1. \A n \in Names : rep[n].id <= LastId' BY <1>4, <1>5 DEF Inv, IdInv, Boxes
  <2>2. c.m.id <= LastId' BY <1>4, <1>6 DEF Inv, IdInv, Boxes
  <2> QED BY <1>7, <2>1, <2>2 DEF IdInv, Distinct, Fits
<1>9. ASSUME NEW b \in Boxes, Behind(b), b.id <= LastId PROVE Behind(b)'
  <2>1. ASSUME NEW n \in Names, b.id = mst'[n].id, b.id # 0 PROVE b.last <= mst'[n].last
    <3>1. mst'[n] # None BY <2>1, NoneOK
    <3>2. mst'[n].id # LastId + 1 BY <1>4, <1>9, <2>1 DEF Boxes
    <3>3. PICK o \in Names : mst'[n].id = mst[o].id /\ mst[o].last <= mst'[n].last
      BY <3>1, <3>2 DEF Grown
    <3>4. b.last <= mst[o].last BY <1>9, <2>1, <3>3 DEF Behind
    <3>5. b.last \in Nat /\ mst[o].last \in Nat /\ mst'[n].last \in Nat BY <1>5 DEF Boxes
    <3> QED BY <3>3, <3>4, <3>5
  <2> QED BY <2>1 DEF Behind
<1>10. LastInv'
  <2>1. LastInv BY DEF Inv
  <2>2. \A n \in Names : Behind(rep[n]) /\ rep[n].id <= LastId BY <2>1 DEF LastInv, Inv, IdInv
  <2>3. Behind(c.m) /\ c.m.id <= LastId BY <2>1 DEF LastInv, Inv, IdInv
  <2>4. \A n \in Names : Behind(rep[n])' BY <1>5, <1>9, <2>2 DEF Behind
  <2>5. Behind(c.m)' BY <1>6, <1>9, <2>3 DEF Behind
  <2> QED BY <2>1, <2>4, <2>5 DEF LastInv, Working
<1> QED BY <1>1, <1>2, <1>3, <1>8, <1>10 DEF Inv, TypeInv

LEMMA LogsType ==
  ASSUME NEW out \in Seq(Seq(Lines)), out # <<>>, NEW b \in BOOLEAN
  PROVE  /\ Logs(out, b) \in Jobs /\ Logs(out, b).pc = "open" /\ Logs(out, b).out = out
         /\ Ready \in Jobs /\ Ready.pc = "idle"
         /\ [Ready EXCEPT !.pc = "sub", !.sub = TRUE] \in Jobs
         /\ [Ready EXCEPT !.pc = "sub", !.sub = TRUE].pc = "sub"
<1>1. <<>> \in Seq(Seq(Lines)) OBVIOUS
<1> QED BY <1>1 DEF Logs, Ready, Jobs

LEMMA WritersStep ==
  ASSUME Inv, NEW p \in Writers, NEW j \in Jobs, j.pc \in {"open", "lock", "write"} => j.out # <<>>,
         w' = [w EXCEPT ![p] = j]
  PROVE  WritersOK'
BY DEF Inv, TypeInv, WritersOK

LEMMA ChangeStep ==
  ASSUME Inv, NEW p \in Writers, NEW m, Allowed(m),
         NEW lines \in Seq(Lines), Change(p, m, lines)
  PROVE  Inv'
<1>1. /\ ops' = ops + 1 /\ mst' = m /\ w' = [w EXCEPT ![p] = Logs(<<lines>>, FALSE)]
      /\ bound' = bound \cup UNION {{[id |-> m[n].id, uid |-> x.uid, uuid |-> x.uuid] :
                                      x \in m[n].msgs} : n \in Names}
      /\ UNCHANGED <<rep, logs, c, staged>>
  BY DEF Change
<1>2. <<lines>> \in Seq(Seq(Lines)) /\ <<lines>> # <<>> OBVIOUS
<1>3. WritersOK'
  <2>1. Logs(<<lines>>, FALSE) \in Jobs /\ Logs(<<lines>>, FALSE).out = <<lines>>
    BY <1>2, LogsType
  <2> QED BY <1>1, <1>2, <2>1, WritersStep
<1>4. \A n \in Names : \A x \in m[n].msgs : [id |-> m[n].id, uid |-> x.uid, uuid |-> x.uuid] \in Bindings
  BY DEF Allowed, Boxes, Msgs, Bindings
<1>5. \A n \in Names : \A x \in m[n].msgs : [id |-> m[n].id, uid |-> x.uid, uuid |-> x.uuid] \in bound'
  BY <1>1
<1>6. bound \subseteq bound' /\ bound' \subseteq Bindings
  <2>1. bound \subseteq Bindings BY DEF Inv, TypeInv, StoreOK
  <2> QED BY <1>1, <1>4, <2>1
<1>7. Allowed(mst') BY <1>1
<1>8. \A n \in Names : \A x \in mst'[n].msgs : [id |-> mst'[n].id, uid |-> x.uid, uuid |-> x.uuid] \in bound'
  BY <1>1, <1>5
<1> QED BY <1>1, <1>3, <1>6, <1>7, <1>8, MasterStep

LEMMA LinesType ==
  ASSUME NEW n \in Names, NEW m \in Names
  PROVE  /\ <<APPEND(n)>> \in Seq(Lines) /\ <<MAILBOX(n)>> \in Seq(Lines) /\ <<USER>> \in Seq(Lines)
         /\ <<MAILBOX(n), MAILBOX(m)>> \in Seq(Lines)
<1>1. APPEND(n) \in Lines /\ MAILBOX(n) \in Lines /\ MAILBOX(m) \in Lines /\ USER \in Lines
  BY DEF APPEND, MAILBOX, USER, Lines, Names
<1> QED BY <1>1

(* A request that changes one mailbox.                                     *)
LEMMA OneBox ==
  ASSUME Inv, NEW n \in Names, NEW b \in Boxes, \A x \in b.msgs : x.uid <= b.last,
         \/ b = None
         \/ b.id = LastId + 1
         \/ b.id = mst[n].id /\ mst[n].last <= b.last /\ b.id # 0
  PROVE  Allowed([mst EXCEPT ![n] = b])
<1> DEFINE m == [mst EXCEPT ![n] = b]
<1>1. mst \in [Names -> Boxes] /\ LastId \in Nat BY IdFacts DEF Inv, TypeInv, StoreOK
<1>2. m \in [Names -> Boxes] /\ m[n] = b /\ \A o \in Names : o # n => m[o] = mst[o] BY <1>1
<1>3. IdInv /\ MailInv BY DEF Inv
<1>4. \A o \in Names : mst[o].id \in Nat /\ mst[o].last \in Nat /\ mst[o].id <= LastId
  BY <1>1, <1>3 DEF IdInv, Boxes
<1> HIDE DEF m
<1>5. Grown(m)
  <2>1. ASSUME NEW o \in Names
        PROVE  \/ m[o] = None \/ m[o].id = LastId + 1
               \/ \E q \in Names : m[o].id = mst[q].id /\ mst[q].last <= m[o].last
    <3>1. CASE o = n BY <1>2, <3>1
    <3>2. CASE o # n BY <1>2, <1>4, <3>2
    <3> QED BY <3>1, <3>2
  <2> QED BY <2>1 DEF Grown
<1>6. Distinct(m)
  <2>1. ASSUME NEW o \in Names, o # n, b.id = mst[o].id, b.id # 0 PROVE FALSE
    <3>1. b # None /\ b.id # LastId + 1 BY <1>1, <1>4, <2>1, NoneOK
    <3>2. b.id = mst[n].id BY <3>1
    <3> QED BY <1>3, <2>1, <3>2 DEF IdInv
  <2>2. \A o, q \in Names : mst[o].id = mst[q].id /\ mst[o].id # 0 => o = q BY <1>3 DEF IdInv
  <2> QED BY <1>2, <2>1, <2>2 DEF Distinct
<1>7. Fits(m)
  <2>1. \A o \in Names : \A x \in mst[o].msgs : x.uid <= mst[o].last BY <1>3 DEF MailInv, Genuine
  <2>2. b.id = 0 => b = None BY <1>1
  <2> QED BY <1>2, <1>3, <2>1, <2>2 DEF Fits, IdInv
<1> QED BY <1>2, <1>5, <1>6, <1>7 DEF m, Allowed

LEMMA Append1Type ==
  ASSUME Inv, NEW n \in Names, mst[n] # None, NEW uuid \in Nat, NEW fl \in BOOLEAN
  PROVE  Allowed([mst EXCEPT ![n] = Append1(@, uuid, fl)])
<1> DEFINE o == mst[n]
           x == Msg(o.last + 1, uuid, fl)
           b == Append1(o, uuid, fl)
<1>1. o \in Boxes /\ Genuine(o) /\ o.id # 0 BY MasterCopy
<1> HIDE DEF o
<1>2. o.last \in Nat /\ o.msgs \subseteq Msgs BY <1>1 DEF Boxes
<1>3. x \in Msgs /\ x.uid = o.last + 1 BY <1>2 DEF Msg, Msgs
<1>4. b = [o EXCEPT !.msgs = @ \cup {x}, !.last = @ + 1] BY DEF Append1
<1> HIDE DEF x, b
<1>5. b \in Boxes /\ b.id = o.id /\ b.msgs = o.msgs \cup {x} /\ b.last = o.last + 1
  <2>1. o.msgs \cup {x} \in SUBSET Msgs /\ o.last + 1 \in Nat BY <1>2, <1>3
  <2>2. PICK s \in SUBSET Msgs, l \in Nat : s = o.msgs \cup {x} /\ l = o.last + 1 BY <2>1
  <2>3. b = [o EXCEPT !.msgs = s, !.last = l] BY <1>4, <2>2
  <2>4. b \in Boxes /\ b.id = o.id /\ b.msgs = s /\ b.last = l BY <1>1, <2>3 DEF Boxes
  <2> QED BY <2>2, <2>4
<1>6. \A y \in o.msgs : y.uid \in Nat /\ y.uid <= o.last BY <1>1, <1>2 DEF Genuine, Msgs
<1>7. \A y \in b.msgs : y.uid <= b.last BY <1>2, <1>3, <1>5, <1>6
<1>8. o.last <= b.last BY <1>2, <1>5
<1>9. [mst EXCEPT ![n] = Append1(@, uuid, fl)] = [mst EXCEPT ![n] = b] BY DEF b, o
<1>10. Allowed([mst EXCEPT ![n] = b])
  BY <1>1, <1>5, <1>7, <1>8, OneBox DEF o
<1> QED BY <1>9, <1>10

LEMMA AppendStep == ASSUME Inv, NEW p \in Writers, NEW n \in Names, append(p, n) PROVE Inv'
<1>1. /\ mst[n] # None /\ Change(p, [mst EXCEPT ![n] = Append1(@, NewUuid, FALSE)], <<APPEND(n)>>)
  BY DEF append
<1>2. NewUuid \in Nat BY IdFacts DEF NewUuid
<1>3. <<APPEND(n)>> \in Seq(Lines) BY LinesType
<1>4. Allowed([mst EXCEPT ![n] = Append1(@, NewUuid, FALSE)])
  BY <1>1, <1>2, Append1Type
<1> QED BY <1>1, <1>3, <1>4, ChangeStep

LEMMA Copy == ASSUME Inv, NEW p \in Writers, NEW n \in Names, NEW m \in Names, index_copy(p, n, m) PROVE Inv'
<1>1. PICK x \in mst[n].msgs :
        /\ mst[m] # None
        /\ Change(p, [mst EXCEPT ![m] = Append1(@, x.uuid, x.fl)], <<MAILBOX(n), MAILBOX(m)>>)
  BY DEF index_copy
<1>2. x.uuid \in Nat /\ x.fl \in BOOLEAN BY MasterCopy DEF Boxes, Msgs
<1>3. <<MAILBOX(n), MAILBOX(m)>> \in Seq(Lines) BY LinesType
<1>4. Allowed([mst EXCEPT ![m] = Append1(@, x.uuid, x.fl)])
  BY <1>1, <1>2, Append1Type
<1> QED BY <1>1, <1>3, <1>4, ChangeStep

(* STORE and EXPUNGE: the UIDs are among the old ones.                     *)
LEMMA FewerUids ==
  ASSUME Inv, NEW n \in Names, NEW s, s \subseteq Msgs, mst[n].msgs # {}, Uids(s) \subseteq Uids(mst[n].msgs)
  PROVE  Allowed([mst EXCEPT ![n].msgs = s])
<1> DEFINE o == mst[n]
           b == [o EXCEPT !.msgs = s]
<1>1. o \in Boxes /\ Genuine(o) /\ o.id # 0
  <2>1. mst[n] # None BY DEF None
  <2> QED BY <2>1, MasterCopy
<1>2. [mst EXCEPT ![n].msgs = s] = [mst EXCEPT ![n] = b] OBVIOUS
<1>3. b \in Boxes /\ b.id = o.id /\ b.msgs = s /\ b.last = o.last /\ o.last \in Nat
  BY <1>1 DEF Boxes
<1> HIDE DEF b
<1>4. \A x \in b.msgs : x.uid <= b.last
  <2>1. \A x \in s : \E y \in o.msgs : x.uid = y.uid BY DEF Uids
  <2> QED BY <1>1, <1>3, <2>1 DEF Genuine
<1>5. Allowed([mst EXCEPT ![n] = b])
  BY <1>1, <1>3, <1>4, OneBox
<1> QED BY <1>2, <1>5

LEMMA Store == ASSUME Inv, NEW p \in Writers, NEW n \in Names, store(p, n) PROVE Inv'
<1>1. PICK x \in mst[n].msgs :
        Change(p, [mst EXCEPT ![n].msgs = (@ \ {x}) \cup {[x EXCEPT !.fl = ~@]}], <<MAILBOX(n)>>)
  BY DEF store
<1> DEFINE y == [x EXCEPT !.fl = ~@]
           s == (mst[n].msgs \ {x}) \cup {y}
<1>2. mst[n].msgs \subseteq Msgs BY MasterCopy DEF Boxes
<1>3. y \in Msgs /\ y.uid = x.uid BY <1>2 DEF Msgs
<1>4. [mst EXCEPT ![n].msgs = (@ \ {x}) \cup {[x EXCEPT !.fl = ~@]}] = [mst EXCEPT ![n].msgs = s] OBVIOUS
<1> HIDE DEF y
<1>5. s \subseteq Msgs /\ Uids(s) \subseteq Uids(mst[n].msgs) BY <1>2, <1>3 DEF Uids
<1>6. <<MAILBOX(n)>> \in Seq(Lines) BY LinesType
<1> HIDE DEF s
<1>7. Allowed([mst EXCEPT ![n].msgs = s])
  BY <1>5, FewerUids
<1> QED BY <1>1, <1>4, <1>6, <1>7, ChangeStep

LEMMA Expunge == ASSUME Inv, NEW p \in Writers, NEW n \in Names, expunge(p, n) PROVE Inv'
<1>1. PICK x \in mst[n].msgs : Change(p, [mst EXCEPT ![n].msgs = @ \ {x}], <<MAILBOX(n)>>)
  BY DEF expunge
<1> DEFINE s == mst[n].msgs \ {x}
<1>2. mst[n].msgs \subseteq Msgs BY MasterCopy DEF Boxes
<1>3. [mst EXCEPT ![n].msgs = @ \ {x}] = [mst EXCEPT ![n].msgs = s] OBVIOUS
<1>4. s \subseteq Msgs /\ Uids(s) \subseteq Uids(mst[n].msgs) BY <1>2 DEF Uids
<1>5. <<MAILBOX(n)>> \in Seq(Lines) BY LinesType
<1> HIDE DEF s
<1>6. Allowed([mst EXCEPT ![n].msgs = s])
  BY <1>4, FewerUids
<1> QED BY <1>1, <1>3, <1>5, <1>6, ChangeStep

LEMMA Create == ASSUME Inv, NEW p \in Writers, NEW n \in Names, create(p, n) PROVE Inv'
<1> DEFINE b == [None EXCEPT !.id = NewId]
           lines == IF n = Inbox THEN <<USER>> ELSE <<MAILBOX(n)>>
<1>1. Change(p, [mst EXCEPT ![n] = b], lines) BY DEF create
<1>2. NewId = LastId + 1 /\ NewId \in Nat BY IdFacts, NamesFinite DEF NewId, LastId
<1>3. b \in Boxes /\ b.id = LastId + 1 /\ b.msgs = {} BY <1>2 DEF None, Boxes
<1> HIDE DEF b
<1>4. Allowed([mst EXCEPT ![n] = b])
  BY <1>3, OneBox
<1>5. lines \in Seq(Lines) BY LinesType
<1> HIDE DEF lines
<1> QED BY <1>1, <1>4, <1>5, ChangeStep

LEMMA Emptied ==
  ASSUME Inv, NEW n \in Names
  PROVE  Allowed([mst EXCEPT ![n] = None])
<1>1. None \in Boxes /\ \A x \in None.msgs : x.uid <= None.last BY NoneOK DEF None
<1> QED BY <1>1, OneBox

LEMMA Delete == ASSUME Inv, NEW p \in Writers, NEW n \in Names, delete(p, n) PROVE Inv'
<1>1. Change(p, [mst EXCEPT ![n] = None], <<MAILBOX(n)>>) BY DEF delete
<1>2. <<MAILBOX(n)>> \in Seq(Lines) BY LinesType
<1> QED BY <1>1, <1>2, Emptied, ChangeStep

LEMMA Rename == ASSUME Inv, NEW p \in Writers, NEW n \in Names, NEW m \in Names, rename(p, n, m) PROVE Inv'
<1> DEFINE a == [mst EXCEPT ![n] = None, ![m] = mst[n]]
<1>1. mst[n] # None /\ mst[m] = None /\ Change(p, a, <<MAILBOX(n), MAILBOX(m)>>) BY DEF rename
<1>2. mst \in [Names -> Boxes] /\ \A o \in Names : mst[o].last \in Nat
  BY DEF Inv, TypeInv, StoreOK, Boxes
<1>3. n # m BY <1>1
<1>4. /\ a \in [Names -> Boxes] /\ a[n] = None /\ a[m] = mst[n]
      /\ \A o \in Names \ {n, m} : a[o] = mst[o]
  BY <1>2, <1>3, NoneOK
<1>5. IdInv /\ MailInv BY DEF Inv
<1> HIDE DEF a
<1>6. Grown(a)
  <2>1. \A o \in Names : a[o] = None \/ \E q \in Names : a[o] = mst[q] BY <1>4
  <2>2. \A q \in Names : mst[q].last <= mst[q].last BY <1>2
  <2> QED BY <2>1, <2>2 DEF Grown
<1>7. Distinct(a)
  <2>1. \A o, q \in Names : mst[o].id = mst[q].id /\ mst[o].id # 0 => o = q BY <1>5 DEF IdInv
  <2>2. a[n].id = 0 /\ mst[m].id = 0 BY <1>1, <1>4, NoneOK
  <2> QED BY <1>4, <2>1, <2>2 DEF Distinct
<1>8. Fits(a)
  <2>1. \A o \in Names : \A x \in mst[o].msgs : x.uid <= mst[o].last BY <1>5 DEF MailInv, Genuine
  <2>2. \A o \in Names : mst[o].id = 0 => mst[o] = None BY <1>5 DEF IdInv
  <2>3. None.msgs = {} BY DEF None
  <2> QED BY <1>4, <2>1, <2>2, <2>3 DEF Fits
<1>9. <<MAILBOX(n), MAILBOX(m)>> \in Seq(Lines) BY LinesType
<1> QED BY <1>1, <1>4, <1>6, <1>7, <1>8, <1>9, ChangeStep DEF Allowed

(* A mailbox goes, and the log is not told yet.                            *)
LEMMA EmptiedStep ==
  ASSUME Inv, NEW n \in Names, mst' = [mst EXCEPT ![n] = None], ops' \in {ops, ops + 1},
         UNCHANGED <<rep, logs, c, staged, bound>>, WritersOK'
  PROVE  Inv'
<1>1. Allowed(mst') BY Emptied
<1>2. \A o \in Names : mst'[o] \in {mst[o], None} BY DEF Inv, TypeInv, StoreOK
<1>3. bound \subseteq bound' /\ bound' \subseteq Bindings BY DEF Inv, TypeInv, StoreOK
<1>4. \A o \in Names : \A x \in mst'[o].msgs : [id |-> mst'[o].id, uid |-> x.uid, uuid |-> x.uuid] \in bound'
  <2>1. \A o \in Names : Genuine(mst[o]) /\ Genuine(None) BY NoneOK DEF Inv, MailInv
  <2> QED BY <1>2, <2>1 DEF Genuine
<1>5. \A o \in Names : mst'[o].id # LastId + 1
  <2>1. \A o \in Names : mst[o].id \in Nat /\ mst[o].id <= LastId BY MasterCopy DEF Boxes
  <2>2. LastId \in Nat BY IdFacts
  <2> QED BY <1>2, <2>1, <2>2, NoneOK
<1> QED BY <1>1, <1>3, <1>4, <1>5, MasterStep DEF Allowed

LEMMA DeleteUser == ASSUME Inv, NEW p \in Writers, delete_user(p) PROVE Inv'
<1>1. /\ ops' = ops + 1 /\ mst' = [mst EXCEPT ![Inbox] = None]
      /\ w' = [w EXCEPT ![p] = [Ready EXCEPT !.pc = "sub", !.sub = TRUE]]
      /\ UNCHANGED <<rep, logs, c, staged, bound>>
  BY DEF delete_user
<1>2. <<USER>> \in Seq(Lines) BY LinesType DEF Names
<1>3. <<<<USER>>>> \in Seq(Seq(Lines)) /\ <<<<USER>>>> # <<>> BY <1>2
<1>4. WritersOK' BY <1>1, <1>3, LogsType, WritersStep
<1> QED BY <1>1, <1>4, EmptiedStep DEF Names

LEMMA Delmbox == ASSUME Inv, NEW p \in Writers, delmbox(p) PROVE Inv'
<1> DEFINE there == {i \in DOMAIN Order : Order[i] # Inbox /\ mst[Order[i]] # None}
           n == Order[First(there)]
           all == <<<<USER>>, <<MAILBOX(Inbox)>>>>
<1>1. UNCHANGED <<rep, logs, c, staged, bound, ops>> BY DEF delmbox
<1>2. Inbox \in Names BY DEF Names
<1>3. CASE there = {}
  <2>1. w' = [w EXCEPT ![p] = Logs(all, FALSE)] /\ mst' = mst BY <1>3 DEF delmbox
  <2>2. all \in Seq(Seq(Lines)) /\ all # <<>> BY <1>2, LinesType
  <2> HIDE DEF all
  <2>3. Logs(all, FALSE) \in Jobs /\ Logs(all, FALSE).out = all BY <2>2, LogsType
  <2>4. WritersOK' BY <2>1, <2>2, <2>3, WritersStep
  <2> HIDE DEF there
  <2>5. StoreOK' /\ LogsOK' /\ ClientOK' /\ LastId' = LastId
    BY <1>1, <2>1 DEF Inv, TypeInv, StoreOK, LogsOK, ClientOK, logs, LastId
  <2>6. MailInv' BY <1>1, <2>1 DEF Inv, MailInv, Genuine
  <2>7. IdInv' BY <1>1, <2>1, <2>5 DEF Inv, IdInv
  <2>8. LastInv' BY <1>1, <2>1 DEF Inv, LastInv, Behind, Working
  <2> QED BY <2>4, <2>5, <2>6, <2>7, <2>8 DEF Inv, TypeInv
<1>4. CASE there # {}
  <2>1. w' = [w EXCEPT ![p] = Logs(<<<<MAILBOX(n)>>>>, TRUE)] /\ mst' = [mst EXCEPT ![n] = None]
    BY <1>4 DEF delmbox
  <2>2. n \in Names
    <3>1. there \subseteq Nat BY OrderAssumption
    <3>2. First(there) \in there BY <1>4, <3>1, FirstIn
    <3> QED BY <3>2, OrderAssumption DEF Names
  <2> HIDE DEF n
  <2>3. <<<<MAILBOX(n)>>>> \in Seq(Seq(Lines)) /\ <<<<MAILBOX(n)>>>> # <<>> BY <2>2, LinesType
  <2>4. /\ Logs(<<<<MAILBOX(n)>>>>, TRUE) \in Jobs
        /\ Logs(<<<<MAILBOX(n)>>>>, TRUE).out = <<<<MAILBOX(n)>>>>
    BY <2>3, LogsType
  <2>5. WritersOK' BY <2>1, <2>3, <2>4, WritersStep
  <2> QED BY <1>1, <2>1, <2>2, <2>5, EmptiedStep
<1> QED BY <1>3, <1>4

-----------------------------------------------------------------------------
(* sync_log_base.                                                          *)

LEMMA LogStep ==
  ASSUME Inv, UNCHANGED <<mst, rep, c, staged, ops, bound>>, WritersOK', LogsOK'
  PROVE  Inv'
<1>1. StoreOK' /\ ClientOK' /\ LastId' = LastId BY DEF Inv, TypeInv, StoreOK, ClientOK, LastId
<1>2. MailInv' BY DEF Inv, MailInv, Genuine
<1>3. IdInv' BY <1>1 DEF Inv, IdInv
<1>4. LastInv' BY DEF Inv, LastInv, Behind, Working
<1> QED BY <1>1, <1>2, <1>3, <1>4 DEF Inv, TypeInv

LEMMA LogOpen == ASSUME Inv, NEW p \in Writers, log_open(p) PROVE Inv'
<1> DEFINE fd == IF cur = NoInode THEN FirstFree ELSE cur
           j == [w[p] EXCEPT !.pc = "lock", !.fd = fd, !.tries = @ + 1]
<1>1. /\ w[p].pc = "open" /\ (cur = NoInode => FreeInodes # {}) /\ cur' = fd
      /\ w' = [w EXCEPT ![p].pc = "lock", ![p].fd = fd, ![p].tries = @ + 1]
      /\ UNCHANGED <<mst, rep, wrk, left, file, flock, c, staged, ops, bound>>
  BY DEF log_open
<1>2. w \in [Writers -> Jobs] /\ w[p] \in Jobs /\ w[p].out # <<>>
  BY <1>1 DEF Inv, TypeInv, WritersOK
<1>3. fd \in Inodes /\ fd \notin left \cup {wrk}
  <2>1. LogsOK BY DEF Inv, TypeInv
  <2>2. CASE cur # NoInode BY <2>1, <2>2 DEF LogsOK
  <2>3. CASE cur = NoInode
    <3>1. FreeInodes \subseteq Nat BY InodeAssumption DEF FreeInodes
    <3>2. FirstFree \in FreeInodes BY <1>1, <2>3, <3>1, FirstIn DEF FirstFree
    <3> QED BY <2>3, <3>2 DEF FreeInodes
  <2> QED BY <2>2, <2>3
<1> HIDE DEF fd
<1>4. w' = [w EXCEPT ![p] = j] BY <1>1, <1>2
<1>5. j \in Jobs /\ j.out = w[p].out
  <2>1. w[p].tries \in Nat BY <1>2 DEF Jobs
  <2>2. PICK t \in Nat : t = w[p].tries + 1 BY <2>1
  <2>3. j = [w[p] EXCEPT !.pc = "lock", !.fd = fd, !.tries = t] BY <2>2
  <2> QED BY <1>2, <1>3, <2>3 DEF Jobs
<1> HIDE DEF j
<1>6. WritersOK' BY <1>2, <1>4, <1>5, WritersStep
<1>7. LogsOK' BY <1>1, <1>3 DEF Inv, TypeInv, LogsOK
<1> QED BY <1>1, <1>6, <1>7, LogStep

LEMMA TailLeft ==
  ASSUME NEW S, NEW s \in Seq(S), Len(s) > 1
  PROVE  Tail(s) \in Seq(S) /\ Tail(s) # <<>>
<1>1. s # <<>> OBVIOUS
<1>2. Tail(s) \in Seq(S) /\ Len(Tail(s)) = Len(s) - 1 BY <1>1
<1>3. PICK t \in Seq(S) : t = Tail(s) /\ Len(t) = Len(s) - 1 BY <1>2
<1>4. t # <<>> BY <1>3
<1> QED BY <1>3, <1>4

LEMMA CalledType ==
  ASSUME Inv, NEW p \in Writers, w[p].pc \in {"open", "lock", "write"}
  PROVE  Called(p) \in Jobs /\ (Called(p).pc \in {"open", "lock", "write"} => Called(p).out # <<>>)
<1>1. w[p] \in Jobs /\ w[p].out # <<>> BY DEF Inv, TypeInv, WritersOK
<1>2. w[p].out \in Seq(Seq(Lines)) /\ w[p].sub \in BOOLEAN BY <1>1 DEF Jobs
<1>3. CASE Len(w[p].out) > 1
  <2>1. Tail(w[p].out) \in Seq(Seq(Lines)) /\ Tail(w[p].out) # <<>> BY <1>2, <1>3, TailLeft
  <2>2. PICK t \in Seq(Seq(Lines)) : t = Tail(w[p].out) /\ t # <<>> BY <2>1
  <2>3. Called(p) = Logs(t, w[p].sub) BY <1>3, <2>2 DEF Called
  <2>4. Logs(t, w[p].sub) \in Jobs /\ Logs(t, w[p].sub).out = t BY <1>2, <2>2, LogsType
  <2> QED BY <2>2, <2>3, <2>4
<1>4. CASE ~(Len(w[p].out) > 1)
  <2>1. Called(p) \in {Ready, [Ready EXCEPT !.pc = "sub", !.sub = TRUE]} BY <1>4 DEF Called
  <2> QED BY <1>1, <1>2, <2>1, LogsType
<1> QED BY <1>3, <1>4

(* The lock is let go.                                                     *)
LEMMA ClosedStep ==
  ASSUME Inv, NEW p \in Writers, NEW j \in Jobs, j.pc \in {"open", "lock", "write"} => j.out # <<>>,
         Close(p, j), file' \in [Inodes -> Seq(Lines)],
         UNCHANGED <<mst, rep, cur, wrk, left, c, staged, ops, bound>>
  PROVE  Inv'
<1>1. flock' = [flock EXCEPT ![w[p].fd] = "free"] /\ w' = [w EXCEPT ![p] = j] BY DEF Close
<1>2. WritersOK' BY <1>1, WritersStep
<1>3. LogsOK' BY <1>1 DEF Inv, TypeInv, LogsOK
<1> QED BY <1>2, <1>3, LogStep

LEMMA LogLock == ASSUME Inv, NEW p \in Writers, log_lock(p) PROVE Inv'
<1>1. /\ w[p].pc = "lock"
      /\ \/ Close(p, Called(p))
         \/ Close(p, Again(p))
         \/ w' = [w EXCEPT ![p].pc = "write"] /\ flock' = [flock EXCEPT ![w[p].fd] = p]
      /\ UNCHANGED <<mst, rep, cur, wrk, left, file, c, staged, ops, bound>>
  BY DEF log_lock
<1>2. w \in [Writers -> Jobs] /\ w[p] \in Jobs /\ w[p].out # <<>> /\ file \in [Inodes -> Seq(Lines)]
  BY <1>1 DEF Inv, TypeInv, WritersOK, LogsOK
<1>3. CASE Close(p, Called(p)) BY <1>1, <1>2, <1>3, CalledType, ClosedStep
<1>4. CASE Close(p, Again(p))
  <2>1. Again(p) \in Jobs /\ Again(p).out = w[p].out BY <1>2 DEF Again, Jobs
  <2> QED BY <1>1, <1>2, <1>4, <2>1, ClosedStep
<1>5. CASE w' = [w EXCEPT ![p].pc = "write"] /\ flock' = [flock EXCEPT ![w[p].fd] = p]
  <2> DEFINE j == [w[p] EXCEPT !.pc = "write"]
  <2>1. w' = [w EXCEPT ![p] = j] BY <1>2, <1>5
  <2>2. j \in Jobs /\ j.out = w[p].out BY <1>2 DEF Jobs
  <2> HIDE DEF j
  <2>3. WritersOK' BY <1>2, <2>1, <2>2, WritersStep
  <2>4. LogsOK' BY <1>1, <1>5 DEF Inv, TypeInv, LogsOK
  <2> QED BY <1>1, <2>3, <2>4, LogStep
<1> QED BY <1>1, <1>3, <1>4, <1>5

LEMMA LogWrite == ASSUME Inv, NEW p \in Writers, log_write(p) PROVE Inv'
<1>1. /\ w[p].pc = "write" /\ file' = [file EXCEPT ![w[p].fd] = @ \o Head(w[p].out)]
      /\ Close(p, Called(p)) /\ UNCHANGED <<mst, rep, cur, wrk, left, c, staged, ops, bound>>
  BY DEF log_write
<1>2. w[p].out \in Seq(Seq(Lines)) /\ w[p].out # <<>> /\ file \in [Inodes -> Seq(Lines)]
  BY <1>1 DEF Inv, TypeInv, WritersOK, LogsOK, Jobs
<1>3. Head(w[p].out) \in Seq(Lines) BY <1>2
<1>4. \A i \in Inodes : file[i] \o Head(w[p].out) \in Seq(Lines) BY <1>2, <1>3
<1>5. file' \in [Inodes -> Seq(Lines)] BY <1>1, <1>2, <1>4
<1> QED BY <1>1, <1>5, CalledType, ClosedStep

-----------------------------------------------------------------------------
(* The invariant holds at first and in every step.                         *)

LEMMA InitInv == ASSUME Init PROVE Inv
<1> DEFINE a == [None EXCEPT !.id = 1]
           x == Msg(1, 99, FALSE)
           b == [id |-> 2, msgs |-> {x}, last |-> 1]
<1>1. /\ mst = [n \in Names |-> IF n = Inbox THEN a ELSE IF n = First1 THEN b ELSE None]
      /\ (rep = mst /\ cur = NoInode) \/ (rep = [n \in Names |-> None] /\ cur = First(Inodes))
      /\ file = [i \in Inodes |-> IF i = cur THEN <<USER>> ELSE <<>>]
      /\ w = [p \in Writers |-> Ready]
      /\ wrk = NoInode /\ left = {} /\ flock = [i \in Inodes |-> "free"]
      /\ c = Rest /\ staged = {} /\ ops = 0
      /\ bound = {[id |-> 2, uid |-> 1, uuid |-> 99]}
  BY DEF Init
<1>2. x \in Msgs /\ x.uid = 1 /\ x.uuid = 99 BY DEF Msg, Msgs
<1> HIDE DEF x
<1>3. /\ a \in Boxes /\ a.id = 1 /\ a.msgs = {} /\ b \in Boxes /\ b.id = 2 /\ b.msgs = {x} /\ b.last = 1
      /\ None \in Boxes /\ None.id = 0 /\ None.msgs = {} /\ None.last = 0 /\ a.last = 0
  BY <1>2 DEF None, Boxes
<1> HIDE DEF a, b
<1>4. Genuine(a) /\ Genuine(b) /\ Genuine(None) BY <1>1, <1>2, <1>3 DEF Genuine
<1>5. \A n \in Names : mst[n] \in {a, b, None} /\ rep[n] \in {mst[n], None} BY <1>1
<1>6. Fresh(c, "idle") BY <1>1, RestOK
<1>7. StoreOK BY <1>1, <1>3 DEF StoreOK, Bindings
<1>8. WritersOK
  <2>1. <<<<USER>>>> \in Seq(Seq(Lines)) /\ <<<<USER>>>> # <<>> BY LinesType DEF Names
  <2>2. Ready \in Jobs /\ Ready.pc = "idle" BY <2>1, LogsType
  <2> QED BY <1>1, <2>2 DEF WritersOK
<1>9. LogsOK
  <2>1. First(Inodes) \in Inodes BY InodeAssumption, FirstIn
  <2>2. <<USER>> \in Seq(Lines) /\ <<>> \in Seq(Lines) BY LinesType DEF Names
  <2>3. file \in [Inodes -> Seq(Lines)] BY <1>1, <2>2
  <2>4. c.pc = "idle" BY <1>6 DEF Fresh
  <2> QED BY <1>1, <2>1, <2>3, <2>4 DEF LogsOK
<1>10. ClientOK BY <1>6 DEF Fresh, ClientOK, EndPcs
<1>11. MailInv BY <1>4, <1>5, <1>6 DEF MailInv, Fresh
<1>12. LastId \in Nat /\ LastId >= 1 /\ (First1 \in Names /\ First1 # Inbox => LastId >= 2)
  <2>1. LastId = Cardinality(Names) /\ Cardinality(Names) \in Nat /\ IsFiniteSet(Names)
    BY <1>1, NamesFinite DEF LastId
  <2>2. Cardinality({Inbox}) = 1 /\ IsFiniteSet({Inbox}) BY FS_Singleton
  <2>3. {Inbox} \in SUBSET Names BY DEF Names
  <2>4. LastId >= 1 BY <2>1, <2>2, <2>3, FS_Subset
  <2>5. ASSUME First1 \in Names, First1 # Inbox PROVE LastId >= 2
    <3>1. Cardinality({Inbox} \cup {First1}) = Cardinality({Inbox}) + 1
      BY <2>2, <2>5, FS_AddElement
    <3>2. {Inbox} \cup {First1} \in SUBSET Names BY <2>3, <2>5
    <3>3. Cardinality({Inbox} \cup {First1}) <= Cardinality(Names) BY <2>1, <3>2, FS_Subset
    <3> QED BY <2>1, <2>2, <3>1, <3>3
  <2> QED BY <2>1, <2>4, <2>5
<1>13. \A n \in Names : mst[n] = b => n = First1 /\ n # Inbox BY <1>1, <1>3
<1>14. \A n \in Names : mst[n] = a => n = Inbox BY <1>1, <1>3
<1>15. \A n \in Names : mst[n].id <= LastId
  <2>1. ASSUME NEW n \in Names PROVE mst[n].id <= LastId
    <3>1. CASE mst[n] = b
      <4>1. LastId >= 2 BY <1>12, <1>13, <3>1
      <4> QED BY <1>3, <1>12, <3>1, <4>1
    <3>2. CASE mst[n] \in {a, None} BY <1>3, <1>12, <3>2
    <3> QED BY <1>5, <3>1, <3>2
  <2> QED BY <2>1
<1>16. IdInv
  <2>1. \A n \in Names : rep[n].id <= LastId BY <1>3, <1>5, <1>12, <1>15
  <2>2. \A n \in Names : mst[n].id = 0 => mst[n] = None BY <1>3, <1>5
  <2>3. \A n, m \in Names : mst[n].id = mst[m].id /\ mst[n].id # 0 => n = m
    BY <1>3, <1>5, <1>13, <1>14
  <2>4. c.m.id <= LastId BY <1>3, <1>6, <1>12 DEF Fresh
  <2> QED BY <1>15, <2>1, <2>2, <2>3, <2>4 DEF IdInv
<1>17. LastInv
  <2>1. ASSUME NEW n \in Names, NEW m \in Names, rep[n].id = mst[m].id, rep[n].id # 0
        PROVE  rep[n].last <= mst[m].last
    <3>1. rep[n] = mst[n] BY <1>3, <1>5, <2>1
    <3>2. n = m BY <1>16, <2>1, <3>1 DEF IdInv
    <3>3. mst[n].last \in Nat BY <1>3, <1>5
    <3> QED BY <3>1, <3>2, <3>3
  <2>2. c.pc = "idle" /\ c.m.id = 0 BY <1>3, <1>6 DEF Fresh
  <2> QED BY <2>1, <2>2 DEF LastInv, Behind, Working, WorkPcs
<1> QED BY <1>7, <1>8, <1>9, <1>10, <1>11, <1>16, <1>17 DEF Inv, TypeInv

LEMMA ClientInv == ASSUME Inv, Client PROVE Inv'
BY TakeLog, ReadLog, SendLock, DoAppend, UploadFrom, DoMailboxes, DoUser, UserReset, DoUserMain,
   ReserveMessages, Reserve, FolderDelete, FolderRename, DoFolders, FolderCreate, UpdateFlags,
   ExpungeReplica, UploadList, UpdateUidlast DEF Client

LEMMA ServeInv == ASSUME Inv, NEW p \in Writers, Serve(p) \/ Log(p) PROVE Inv'
BY AppendStep, Store, Expunge, Create, Delete, Copy, Rename, DeleteUser, LogOpen, LogLock,
   LogWrite,
   Delmbox DEF Serve, Log

LEMMA NextInv == ASSUME Inv, [Next]_vars PROVE Inv'
<1>1. CASE Next BY <1>1, ServeInv, ClientInv, Die, Redo, Restart, DropStaged DEF Next
<1>2. CASE UNCHANGED vars
  <2>1. UNCHANGED <<mst, rep, w, cur, wrk, left, file, flock, c, staged, ops, bound>>
    BY <1>2 DEF vars
  <2>2. WritersOK' /\ LogsOK' BY <2>1 DEF Inv, TypeInv, WritersOK, LogsOK
  <2> QED BY <2>1, <2>2, LogStep
<1> QED BY <1>1, <1>2

THEOREM Invariant == Spec => []Inv
<1>1. Init => Inv BY InitInv
<1>2. Inv /\ [Next]_vars => Inv' BY NextInv
<1> QED BY <1>1, <1>2, PTL DEF Spec

(* The state keeps its types through every interleaving of requests, log   *)
(* writers and sync_client, no UID passes the last_uid of its mailbox on   *)
(* either side, and the work file of sync_client is never the file that    *)
(* sync_log_base writes to or one that was left behind.                    *)
THEOREM TypeCorrect == Spec => []TypeOK
<1>1. Inv => TypeOK
  <2> SUFFICES ASSUME Inv PROVE TypeOK OBVIOUS
  <2>1. ASSUME NEW n \in Names, NEW b \in {mst[n], rep[n]}
        PROVE  b.last \in Nat /\ \A u \in Uids(b.msgs) : u <= b.last
    <3>1. b \in Boxes BY MasterCopy
    <3>2. Genuine(b) BY DEF Inv, MailInv
    <3> QED BY <3>1, <3>2 DEF Boxes, Genuine, Uids
  <2>2. LogsOK BY DEF Inv, TypeInv
  <2>3. ASSUME NEW i \in Inodes PROVE Range(file[i]) \subseteq Lines
    <3>1. file[i] \in Seq(Lines) BY <2>2 DEF LogsOK
    <3> QED BY <3>1 DEF Range
  <2> QED BY <2>1, <2>2, <2>3 DEF TypeOK, LogsOK
<1> QED BY <1>1, Invariant, PTL

(* Whatever is renamed, deleted, created again or delivered while          *)
(* do_folders works with what it read before, and wherever sync_client     *)
(* fails, the replica shows under a UID of a mailbox only the message that *)
(* the master had there.                                                   *)
THEOREM NoForeign == Spec => []NoForeignMail
<1>1. Inv => NoForeignMail BY DEF Inv, MailInv, Genuine, NoForeignMail
<1> QED BY <1>1, Invariant, PTL
=============================================================================
