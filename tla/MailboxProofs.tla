--------------------------- MODULE MailboxProofs ---------------------------
(***************************************************************************)
(* Proofs about the mailbox: the types of its state, the binding of uids   *)
(* to messages, the order of the uids in cyrus.index, the message files,   *)
(* the quota, what the clients know of the mailbox and the offsets into    *)
(* cyrus.cache, for any number of processes, messages and faults.          *)
(***************************************************************************)
EXTENDS Mailbox, FiniteSetTheorems, FunctionTheorems, WellFoundedInduction, TLAPS

-----------------------------------------------------------------------------
(* The inductive invariant                                                 *)

Records == [uid : Uids, mid : 1..MaxMid, off : Nat, del : BOOLEAN]
IndexFiles == [gen : Nat, uidvalidity : Nat, exists : Nat, last_uid : 0..MaxMid,
               deleted : Int, recs : Seq(Records)]
ExpungeFiles == [there : BOOLEAN, exists : Nat, recs : Seq(Records)]

\* The types of the files; the generation grows no faster than the inodes.
FilesOK ==
  /\ index \in Seq(IndexFiles) /\ Len(index) <= MaxInodes
  /\ \A i \in 1..Len(index) : index[i].exists <= Len(index[i].recs) /\ index[i].gen \in 1..i
  /\ dir \in [index : 1..Len(index), cache : 1..Len(index)]
  /\ cache \in [Inodes -> Seq(Nat)]
  /\ xfile \in ExpungeFiles /\ xfile.exists <= Len(xfile.recs)
  /\ ~xfile.there => xfile.exists = 0
  /\ msgs \in [Uids -> 0..MaxMid] /\ pub \in [Uids -> 0..MaxMid]
  /\ mid \in 0..MaxMid /\ used \in Nat /\ faults \in Nat

Expunges == {"delayed", "immediate", "cleanup"}

\* The kinds of operation that have each step.
Phase(o) ==
  /\ o.pc \in {"idle", "open", "lockindex", "append", "commitquota", "storeflag", "records",
               "quota", "xheader", "renindex", "rencache", "renexpunge", "unlock", "unlink",
               "restore", "addquota"}
  /\ o.pc = "lockindex" => /\ o.kind \in Expunges \cup {"store", "append", "unexpunge"}
                           /\ o.n = 0 /\ o.dels = {}
  /\ o.pc \in {"append", "commitquota"} => o.kind = "append"
  /\ o.pc = "storeflag" => o.kind = "store"
  /\ o.pc \in {"records", "quota", "renindex", "unlock"} => o.kind \in Expunges
  /\ o.pc = "xheader" => o.kind = "delayed"
  /\ o.pc \in {"rencache", "unlink"} => o.kind \in {"immediate", "cleanup"}
  /\ o.pc = "renexpunge" => o.kind \in {"cleanup", "unexpunge"}
  /\ o.pc \in {"restore", "addquota"} => o.kind = "unexpunge"

Fields == {"pc", "kind", "fd", "n", "clen", "dels", "msgno", "flag", "usinguid"}
OpOK(o) ==
  /\ DOMAIN o = Fields
  /\ o.n \in Nat /\ o.clen \in Nat /\ o.dels \in SUBSET Uids /\ o.flag \in BOOLEAN
  /\ Phase(o)
OpsOK == op = [p \in Procs |-> op[p]] /\ \A p \in Procs : OpOK(op[p])

\* The steps between mailbox_lock_header and its end, and those under the
\* lock of the index that has the name.
Lockless == {"idle", "open", "unlink"}
Header(o) == o.pc \notin Lockless \cup {"storeflag"} /\ o.kind # "store"
IndexPcs == {"append", "commitquota", "storeflag", "records", "quota", "xheader", "renindex",
             "restore"}
LocksOK ==
  /\ header_lock \in Procs \cup {NoProc} /\ index_lock \in [Inodes -> Procs \cup {NoProc}]
  /\ \A p \in Procs :
       /\ Header(op[p]) => header_lock = p
       /\ op[p].pc \in IndexPcs => index_lock[dir.index] = p
       /\ op[p].pc \in Lockless => header_lock # p /\ \A i \in Inodes : index_lock[i] # p

\* A process that is going to replace cyrus.index has an inode for it.
RoomAt(o) ==
  (/\ o.kind \in Expunges \cup {"unexpunge"}
   /\ o.pc \in {"lockindex", "records", "quota", "xheader", "renindex", "restore"})
    => Len(index) < MaxInodes

\* What an append has written behind the end of the index.
StagedAt(o) == o.pc = "append" =>
  /\ o.clen <= Len(cache[dir.cache])
  /\ Current.last_uid + o.n <= MaxMid /\ Current.exists + o.n <= Len(Current.recs)
  /\ \A k \in 1..o.n :
       /\ Current.recs[Current.exists + k].uid = Current.last_uid + k
       /\ Current.recs[Current.exists + k].mid = msgs[Current.last_uid + k]

\* What a delayed expunge has written behind the end of cyrus.expunge.
CopiedAt(o) == (o.kind = "delayed" /\ o.pc \in {"quota", "xheader"}) =>
  LET d == Drop(Live(Current), o.dels)
  IN /\ xfile.there /\ xfile.exists + Len(d) <= Len(xfile.recs)
     /\ \A k \in 1..Len(d) : xfile.recs[xfile.exists + k] = d[k]

Work(o) == RoomAt(o) /\ StagedAt(o) /\ CopiedAt(o)
WorkOK == \A p \in Procs : Work(op[p])

TypeInv == FilesOK /\ OpsOK /\ LocksOK /\ WorkOK

InIndex(u) == \E i \in 1..Current.exists : Current.recs[i].uid = u
InExpunge(u) == \E i \in 1..xfile.exists : xfile.recs[i].uid = u

\* Every record that a header counts has the message published under its uid;
\* nothing is published above last_uid, and no process deletes a file there.
Bound(r) == r.mid = pub[r.uid] /\ r.uid <= Current.last_uid
LowAt(o) == \A u \in o.dels : u <= Current.last_uid
Bindings ==
  /\ \A i \in 1..Current.exists : Bound(Current.recs[i])
  /\ \A i \in 1..xfile.exists : Bound(xfile.recs[i])
  /\ \A u \in Uids : pub[u] # NoFile => u <= Current.last_uid /\ msgs[u] \in {NoFile, pub[u]}
  /\ \A p \in Procs : LowAt(op[p])

\* The uids of both files, alone and together.
Ascending ==
  \A i, j \in 1..Current.exists : i < j =>
    \/ Current.recs[i].uid < Current.recs[j].uid
    \/ Current.recs[i].uid = Current.recs[j].uid /\ Current.recs[i].uid \in torn
Distinct ==
  \A i, j \in 1..xfile.exists :
    i < j /\ xfile.recs[i].uid = xfile.recs[j].uid => xfile.recs[i].uid \in torn
Moving(o) == \/ o.kind = "delayed" /\ o.pc = "renindex"
             \/ o.kind = "unexpunge" /\ o.pc = "renexpunge"
Apart ==
  \A u \in Uids : InIndex(u) /\ InExpunge(u) =>
    u \in torn \/ \E p \in Procs : Moving(op[p]) /\ u \in op[p].dels
UidInv == Bindings /\ Ascending /\ Distinct /\ Apart

\* What an expunge has yet to delete is in neither file any more, or is still
\* in cyrus.expunge when that is about to be replaced.
Gone(u) == u \in torn \/ (~InIndex(u) /\ ~InExpunge(u))
DoomedAt(o) ==
  /\ o.kind \in {"immediate", "cleanup"} /\ o.pc \in {"unlock", "unlink"} =>
       \A u \in o.dels : Gone(u)
  /\ o.kind = "immediate" /\ o.pc = "rencache" => \A u \in o.dels : Gone(u)
  /\ o.kind = "immediate" /\ Header(o) => ~xfile.there
  /\ o.kind = "cleanup" /\ o.pc \in {"quota", "renindex", "rencache", "renexpunge"} =>
       \A u \in o.dels : InExpunge(u)
Doomed == \A p \in Procs : DoomedAt(op[p])
FileInv == ~Forced => Doomed /\ MessageFiles

\* What the process at work has yet to charge for, or has released already.
Owing(o) == \/ o.pc \in {"xheader", "renindex"} /\ o.kind # "cleanup"
            \/ o.pc \in {"commitquota", "addquota"}
            \/ o.pc = "renexpunge" /\ o.kind = "unexpunge"
Owed(o) == IF o.pc \in {"xheader", "renindex"} THEN Len(Drop(Live(Current), o.dels))
           ELSE IF o.pc = "renexpunge" THEN Len(Drop(Expunged, o.dels)) ELSE o.n
QuotaInv ==
  /\ used <= Current.exists
  /\ \A p \in Procs : Owing(op[p]) => used + Owed(op[p]) <= Current.exists
  /\ faults = 0 =>
       /\ \A p \in Procs : Owing(op[p]) => used + Owed(op[p]) = Current.exists
       /\ (\A p \in Procs : ~Owing(op[p])) => used = Current.exists

-----------------------------------------------------------------------------
(* Sequences of records                                                    *)

StrictOrder(I, R) ==
  /\ \A i \in I : <<i, i>> \notin R
  /\ \A i, j \in I : i # j => <<i, j>> \in R \/ <<j, i>> \in R
  /\ \A i, j, k \in I : <<i, j>> \in R /\ <<j, k>> \in R => <<i, k>> \in R

\* Ordered takes every position in I once, in the order R.
Lists(f, recs, I, R, list) ==
  /\ f \in [1..Cardinality(I) -> I]
  /\ list = [n \in 1..Cardinality(I) |-> recs[f[n]]]
  /\ \A i \in I : \E n \in 1..Cardinality(I) : f[n] = i
  /\ \A n, m \in 1..Cardinality(I) : n < m => <<f[n], f[m]>> \in R

LEMMA OrderedLists ==
  ASSUME NEW recs, NEW I, IsFiniteSet(I), NEW R, StrictOrder(I, R)
  PROVE  Cardinality(I) \in Nat /\ \E f : Lists(f, recs, I, R, Ordered(recs, I, R))
<1> DEFINE N == Cardinality(I)
           Below(i) == {j \in I : <<j, i>> \in R}
           P == [i \in I |-> Place(i, I, R)]
           f == [n \in 1..N |-> CHOOSE i \in I : Place(i, I, R) = n]
<1>1. N \in Nat BY FS_CardinalityType
<1>2. ASSUME NEW i \in I
      PROVE  IsFiniteSet(Below(i)) /\ Cardinality(Below(i)) \in Nat
             /\ Place(i, I, R) = 1 + Cardinality(Below(i))
  <2>1. Below(i) \in SUBSET I OBVIOUS
  <2>2. IsFiniteSet(Below(i)) BY <2>1, FS_Subset
  <2>3. Place(i, I, R) = 1 + Cardinality(Below(i)) BY DEF Place
  <2> QED BY <2>2, <2>3, FS_CardinalityType
<1>3. ASSUME NEW i \in I, NEW j \in I, <<i, j>> \in R
      PROVE  Place(i, I, R) < Place(j, I, R)
  <2>1. Below(i) \in SUBSET Below(j) BY <1>3 DEF StrictOrder
  <2>2. i \in Below(j) /\ i \notin Below(i) BY <1>3 DEF StrictOrder
  <2>3. Below(i) # Below(j) BY <2>2
  <2>4. Cardinality(Below(i)) <= Cardinality(Below(j)) /\ Cardinality(Below(i)) # Cardinality(Below(j))
    BY <1>2, <2>1, <2>3, FS_Subset
  <2>5. /\ Cardinality(Below(i)) \in Nat /\ Place(i, I, R) = 1 + Cardinality(Below(i))
        /\ Cardinality(Below(j)) \in Nat /\ Place(j, I, R) = 1 + Cardinality(Below(j))
    BY <1>2
  <2> HIDE DEF Below
  <2> QED BY <2>4, <2>5
<1>4. ASSUME NEW i \in I PROVE Place(i, I, R) \in 1..N
  <2>1. Below(i) \in SUBSET I /\ i \notin Below(i) BY DEF StrictOrder
  <2>2. Below(i) # I BY <2>1
  <2>3. Cardinality(Below(i)) <= N /\ Cardinality(Below(i)) # N BY <2>1, <2>2, FS_Subset
  <2> HIDE DEF N
  <2> QED BY <1>1, <1>2, <2>3
<1>5. P \in Injection(I, 1..N)
  <2>1. P \in [I -> 1..N] BY <1>4
  <2>2. ASSUME NEW i \in I, NEW j \in I, i # j PROVE P[i] # P[j]
    <3>1. <<i, j>> \in R \/ <<j, i>> \in R BY <2>2 DEF StrictOrder
    <3>2. Place(i, I, R) \in Nat /\ Place(j, I, R) \in Nat BY <1>1, <1>4
    <3>3. Place(i, I, R) # Place(j, I, R)
      <4>1. CASE <<i, j>> \in R
        <5>1. Place(i, I, R) < Place(j, I, R) BY <1>3, <4>1
        <5> QED BY <3>2, <5>1
      <4>2. CASE <<j, i>> \in R
        <5>1. Place(j, I, R) < Place(i, I, R) BY <1>3, <4>2
        <5> QED BY <3>2, <5>1
      <4> QED BY <3>1, <4>1, <4>2
    <3> QED BY <3>3
  <2> HIDE DEF P
  <2> QED BY <2>1, <2>2, Fun_IsInj
<1>6. P \in Surjection(I, 1..N)
  <2>1. IsFiniteSet(1..N) /\ Cardinality(1..N) = N BY <1>1, FS_Interval
  <2>2. Cardinality(I) = Cardinality(1..N) BY <2>1
  <2> HIDE DEF P, N
  <2> DEFINE T == 1..N
  <2>3. IsFiniteSet(T) /\ P \in Injection(I, T) /\ Cardinality(I) = Cardinality(T)
    BY <1>5, <2>1, <2>2
  <2> HIDE DEF T
  <2>4. P \in Surjection(I, T) BY <2>3, FS_Injection
  <2> QED BY <2>4 DEF T
<1>7. \A n \in 1..N : \E i \in I : P[i] = n
  <2> HIDE DEF P, N
  <2> QED BY <1>6, Fun_SurjectionProperties
<1>8. ASSUME NEW n \in 1..N PROVE f[n] \in I /\ Place(f[n], I, R) = n
  <2>1. PICK i \in I : P[i] = n BY <1>7
  <2>2. Place(i, I, R) = n BY <2>1
  <2> QED BY <2>2
<1>9. f \in [1..N -> I] BY <1>8
<1>10. Ordered(recs, I, R) = [n \in 1..N |-> recs[f[n]]] BY DEF Ordered
<1>11. ASSUME NEW i \in I PROVE \E n \in 1..N : f[n] = i
  <2>1. Place(i, I, R) \in 1..N BY <1>4
  <2>2. f[Place(i, I, R)] \in I /\ Place(f[Place(i, I, R)], I, R) = Place(i, I, R) BY <1>8, <2>1
  <2>3. f[Place(i, I, R)] = i
    <3> SUFFICES ASSUME f[Place(i, I, R)] # i PROVE FALSE OBVIOUS
    <3> DEFINE j == f[Place(i, I, R)]
    <3>1. j \in I /\ j # i /\ Place(i, I, R) \in Nat /\ Place(j, I, R) = Place(i, I, R)
      BY <1>1, <1>4, <2>2
    <3> HIDE DEF j
    <3>2. CASE <<i, j>> \in R
      <4>1. Place(i, I, R) < Place(j, I, R) BY <1>3, <3>1, <3>2
      <4> QED BY <3>1, <4>1
    <3>3. CASE <<j, i>> \in R
      <4>1. Place(j, I, R) < Place(i, I, R) BY <1>3, <3>1, <3>3
      <4> QED BY <3>1, <4>1
    <3> QED BY <3>1, <3>2, <3>3 DEF StrictOrder
  <2> QED BY <2>1, <2>3
<1>12. ASSUME NEW n \in 1..N, NEW m \in 1..N, n < m PROVE <<f[n], f[m]>> \in R
  <2>1. /\ f[n] \in I /\ Place(f[n], I, R) = n
        /\ f[m] \in I /\ Place(f[m], I, R) = m BY <1>8
  <2> DEFINE x == f[n]
             y == f[m]
  <2> HIDE DEF f
  <2>2. x # y BY <1>12, <2>1
  <2>3. CASE <<y, x>> \in R BY <1>1, <1>3, <1>12, <2>1, <2>3
  <2> QED BY <2>1, <2>2, <2>3 DEF StrictOrder
<1> HIDE DEF N, f
<1>13. Lists(f, recs, I, R, Ordered(recs, I, R)) BY <1>9, <1>10, <1>11, <1>12 DEF Lists, N
<1> QED BY <1>1, <1>13 DEF N

\* A selection f of the positions of recs, in file order.
Picks(f, recs, list, D) ==
  /\ f \in [1..Len(list) -> {i \in DOMAIN recs : recs[i].uid \in D}]
  /\ \A n \in 1..Len(list) : list[n] = recs[f[n]]
  /\ \A i \in DOMAIN recs : recs[i].uid \in D => \E n \in 1..Len(list) : f[n] = i
  /\ \A n, m \in 1..Len(list) : n < m => f[n] < f[m]

LEMMA OrderedPicks ==
  ASSUME NEW recs \in Seq(Records), NEW D, NEW I, I = {i \in DOMAIN recs : recs[i].uid \in D}
  PROVE  /\ Ordered(recs, I, FileOrder(recs)) \in Seq(Records)
         /\ IsFiniteSet(I) /\ Len(Ordered(recs, I, FileOrder(recs))) = Cardinality(I)
         /\ \E f : Picks(f, recs, Ordered(recs, I, FileOrder(recs)), D)
<1> DEFINE R == FileOrder(recs)
           L == Ordered(recs, I, R)
           N == Cardinality(I)
<1>1. DOMAIN recs = 1..Len(recs) /\ Len(recs) \in Nat /\ \A i \in DOMAIN recs : recs[i] \in Records
  OBVIOUS
<1>2. IsFiniteSet(I)
  <2>1. I \in SUBSET (1..Len(recs)) BY <1>1
  <2>2. IsFiniteSet(1..Len(recs)) BY <1>1, FS_Interval
  <2> QED BY <2>1, <2>2, FS_Subset
<1>3. \A i, j \in I : <<i, j>> \in R <=> i < j BY <1>1 DEF FileOrder
<1>4. \A i \in I : i \in Int BY <1>1
<1>5. StrictOrder(I, R)
  <2> HIDE DEF R
  <2> QED BY <1>3, <1>4 DEF StrictOrder
<1>6. N \in Nat BY <1>2, FS_CardinalityType
<1>7. PICK f : Lists(f, recs, I, R, L) BY <1>2, <1>5, OrderedLists
<1> HIDE DEF R, L, N
<1>8. L = [n \in 1..N |-> recs[f[n]]] /\ f \in [1..N -> I] BY <1>7 DEF Lists, N
<1>9. \A n \in 1..N : recs[f[n]] \in Records BY <1>1, <1>8
<1>10. L \in Seq(Records) /\ Len(L) = N BY <1>6, <1>8, <1>9
<1>11. \A n, m \in 1..N : n < m => f[n] < f[m] BY <1>3, <1>7, <1>8 DEF Lists, N
<1>12. \A i \in I : \E n \in 1..N : f[n] = i BY <1>7 DEF Lists, N
<1>13. Picks(f, recs, L, D) BY <1>8, <1>10, <1>11, <1>12 DEF Picks
<1> QED BY <1>2, <1>10, <1>13 DEF L, N, R

\* What Keep and Drop are.
LEMMA DropPicks ==
  ASSUME NEW recs \in Seq(Records), NEW D
  PROVE  Drop(recs, D) \in Seq(Records) /\ \E f : Picks(f, recs, Drop(recs, D), D)
BY OrderedPicks DEF Drop

LEMMA KeepPicks ==
  ASSUME NEW recs \in Seq(Records), NEW D
  PROVE  /\ Keep(recs, D) \in Seq(Records)
         /\ \E f : Picks(f, recs, Keep(recs, D), Uids \ D)
<1> DEFINE I == {i \in DOMAIN recs : recs[i].uid \in Uids \ D}
<1>0. \A i \in DOMAIN recs : recs[i].uid \in Uids
  <2>1. \A i \in DOMAIN recs : recs[i] \in Records OBVIOUS
  <2> QED BY <2>1 DEF Records
<1>1. I = {i \in DOMAIN recs : recs[i].uid \notin D} BY <1>0
<1> HIDE DEF I
<1>2. Keep(recs, D) = Ordered(recs, I, FileOrder(recs)) BY <1>1 DEF Keep
<1> QED BY <1>2, OrderedPicks DEF I

\* Together they have all records.
LEMMA KeepDropLen ==
  ASSUME NEW recs \in Seq(Records), NEW D
  PROVE  Len(Keep(recs, D)) + Len(Drop(recs, D)) = Len(recs)
<1> DEFINE I == {i \in DOMAIN recs : recs[i].uid \in Uids \ D}
           J == {i \in DOMAIN recs : recs[i].uid \in D}
<1>0. \A i \in DOMAIN recs : recs[i].uid \in Uids
  <2>1. \A i \in DOMAIN recs : recs[i] \in Records OBVIOUS
  <2> QED BY <2>1 DEF Records
<1>1. I = {i \in DOMAIN recs : recs[i].uid \notin D} BY <1>0
<1>2. IsFiniteSet(I) /\ Len(Keep(recs, D)) = Cardinality(I) BY <1>1, OrderedPicks DEF Keep
<1>3. IsFiniteSet(J) /\ Len(Drop(recs, D)) = Cardinality(J) BY OrderedPicks DEF Drop
<1>4. I \cup J = 1..Len(recs) /\ I \cap J = {} BY <1>1
<1>5. Len(recs) \in Nat /\ Cardinality(1..Len(recs)) = Len(recs)
  <2>1. Len(recs) \in Nat /\ 1 \in Int OBVIOUS
  <2>2. Cardinality(1..Len(recs)) = IF 1 > Len(recs) THEN 0 ELSE Len(recs) - 1 + 1
    BY <2>1, FS_Interval
  <2> QED BY <2>1, <2>2
<1> HIDE DEF I, J
<1>6. Cardinality(I \cup J) = Cardinality(I) + Cardinality(J) - Cardinality({})
  BY <1>2, <1>3, <1>4, FS_Union
<1>7. Cardinality({}) = 0 /\ Cardinality(I) \in Nat /\ Cardinality(J) \in Nat
  BY <1>2, <1>3, FS_EmptySet, FS_CardinalityType
<1>8. Cardinality(I \cup J) = Len(recs) BY <1>4, <1>5
<1> QED BY <1>2, <1>3, <1>5, <1>6, <1>7, <1>8

\* The merge has the records of both sequences, in the order of their uids;
\* of two records with one uid that of the first sequence comes first.
Shuffles(f, recs, new, list) ==
  /\ Len(list) = Len(recs) + Len(new)
  /\ f \in [1..Len(list) -> 1..Len(list)]
  /\ \A n \in 1..Len(list) : list[n] = (recs \o new)[f[n]]
  /\ \A i \in 1..Len(list) : \E n \in 1..Len(list) : f[n] = i
  /\ \A n, m \in 1..Len(list) : n < m =>
       \/ list[n].uid < list[m].uid
       \/ list[n].uid = list[m].uid /\ f[n] < f[m]

LEMMA MergedShuffles ==
  ASSUME NEW recs \in Seq(Records), NEW new \in Seq(Records)
  PROVE  Merged(recs, new) \in Seq(Records) /\ \E f : Shuffles(f, recs, new, Merged(recs, new))
<1> DEFINE all == recs \o new
           R == UidOrder(all)
           I == DOMAIN all
           L == Ordered(all, I, R)
<1>1. all \in Seq(Records) /\ Len(all) = Len(recs) + Len(new) /\ I = 1..Len(all)
  OBVIOUS
<1>2. Merged(recs, new) = L BY DEF Merged
<1> HIDE DEF all
<1>3. IsFiniteSet(I) /\ Cardinality(I) = Len(all)
  <2>1. Len(all) \in Nat /\ Len(all) \in Int /\ 1 \in Int BY <1>1
  <2>2. /\ IsFiniteSet(1..Len(all))
        /\ Cardinality(1..Len(all)) = IF 1 > Len(all) THEN 0 ELSE Len(all) - 1 + 1
    BY <2>1, FS_Interval
  <2> QED BY <1>1, <2>1, <2>2
<1>4. \A i \in I : all[i].uid \in Int /\ i \in Int
  <2>1. \A i \in I : all[i] \in Records /\ i \in Int BY <1>1
  <2>2. Uids \subseteq Int BY MailboxAssumption DEF Uids
  <2> QED BY <2>1, <2>2 DEF Records
<1>5. \A i, j \in I : <<i, j>> \in R <=>
        \/ all[i].uid < all[j].uid
        \/ all[i].uid = all[j].uid /\ i < j
  BY DEF UidOrder
<1>6. StrictOrder(I, R)
  <2> HIDE DEF R, I
  <2>1. ASSUME NEW i \in I PROVE <<i, i>> \notin R
    <3>1. all[i].uid \in Int /\ i \in Int BY <1>4
    <3> QED BY <1>5, <3>1
  <2>2. ASSUME NEW i \in I, NEW j \in I, i # j PROVE <<i, j>> \in R \/ <<j, i>> \in R
    <3>1. all[i].uid \in Int /\ i \in Int /\ all[j].uid \in Int /\ j \in Int BY <1>4
    <3>2. \/ all[i].uid < all[j].uid \/ (all[i].uid = all[j].uid /\ i < j)
          \/ all[j].uid < all[i].uid \/ (all[j].uid = all[i].uid /\ j < i)
      BY <2>2, <3>1
    <3> QED BY <1>5, <3>2
  <2>3. ASSUME NEW i \in I, NEW j \in I, NEW k \in I, <<i, j>> \in R, <<j, k>> \in R
        PROVE  <<i, k>> \in R
    <3>1. /\ all[i].uid < all[j].uid \/ (all[i].uid = all[j].uid /\ i < j)
          /\ all[j].uid < all[k].uid \/ (all[j].uid = all[k].uid /\ j < k)
      BY <1>5, <2>3
    <3>2. /\ all[i].uid \in Int /\ i \in Int /\ all[j].uid \in Int /\ j \in Int
          /\ all[k].uid \in Int /\ k \in Int BY <1>4
    <3>3. all[i].uid < all[k].uid \/ (all[i].uid = all[k].uid /\ i < k) BY <3>1, <3>2
    <3> QED BY <1>5, <3>3
  <2> QED BY <2>1, <2>2, <2>3 DEF StrictOrder
<1> HIDE DEF R
<1>7. PICK f : Lists(f, all, I, R, L) BY <1>3, <1>6, OrderedLists
<1> HIDE DEF L, I
<1>8. /\ L = [n \in 1..Len(all) |-> all[f[n]]] /\ f \in [1..Len(all) -> I]
      /\ \A i \in I : \E n \in 1..Len(all) : f[n] = i
      /\ \A n, m \in 1..Len(all) : n < m => <<f[n], f[m]>> \in R
  BY <1>3, <1>7 DEF Lists
<1>9. \A n \in 1..Len(all) : all[f[n]] \in Records BY <1>1, <1>8
<1>10. L \in Seq(Records) /\ Len(L) = Len(all) BY <1>1, <1>8, <1>9
<1>11. \A n \in 1..Len(L) : L[n] = all[f[n]] /\ f[n] \in I BY <1>8, <1>10
<1>12. ASSUME NEW n \in 1..Len(L), NEW m \in 1..Len(L), n < m
       PROVE  L[n].uid < L[m].uid \/ (L[n].uid = L[m].uid /\ f[n] < f[m])
  <2>1. <<f[n], f[m]>> \in R BY <1>8, <1>10, <1>12
  <2> QED BY <1>5, <1>11, <2>1
<1>13. I = 1..Len(L) BY <1>1, <1>10 DEF I
<1>14. Shuffles(f, recs, new, L) BY <1>1, <1>8, <1>10, <1>11, <1>12, <1>13 DEF Shuffles, all
<1> QED BY <1>2, <1>10, <1>14

\* WriteAt keeps what is before position n and puts the new records there.
LEMMA WriteAtFacts ==
  ASSUME NEW recs \in Seq(Records), NEW n \in 1..Len(recs) + 1, NEW new \in Seq(Records)
  PROVE  /\ WriteAt(recs, n, new) \in Seq(Records)
         /\ Len(WriteAt(recs, n, new)) >= n - 1 + Len(new)
         /\ Len(WriteAt(recs, n, new)) >= Len(recs)
         /\ \A i \in 1..n - 1 : WriteAt(recs, n, new)[i] = recs[i]
         /\ \A i \in 1..Len(new) : WriteAt(recs, n, new)[n - 1 + i] = new[i]
<1> DEFINE a == SubSeq(recs, 1, n - 1)
           b == SubSeq(recs, n + Len(new), Len(recs))
<1>1. a \in Seq(Records) /\ Len(a) = n - 1 /\ \A i \in 1..n - 1 : a[i] = recs[i] OBVIOUS
<1>2. b \in Seq(Records) /\ Len(b) >= 0 /\ Len(b) >= Len(recs) - n - Len(new) + 1 OBVIOUS
<1>3. WriteAt(recs, n, new) = (a \o new) \o b BY DEF WriteAt
<1> HIDE DEF a, b
<1>4. /\ a \o new \in Seq(Records) /\ Len(a \o new) = n - 1 + Len(new)
      /\ \A i \in 1..n - 1 : (a \o new)[i] = recs[i]
      /\ \A i \in 1..Len(new) : (a \o new)[n - 1 + i] = new[i]
  BY <1>1
<1> DEFINE c == a \o new
<1>5. WriteAt(recs, n, new) = c \o b BY <1>3
<1>6. /\ c \in Seq(Records) /\ Len(c) = n - 1 + Len(new)
      /\ \A i \in 1..n - 1 : c[i] = recs[i]
      /\ \A i \in 1..Len(new) : c[n - 1 + i] = new[i]
  BY <1>4
<1> HIDE DEF c
<1>7. c \o b \in Seq(Records) /\ Len(c \o b) = Len(c) + Len(b) /\ \A i \in 1..Len(c) : (c \o b)[i] = c[i]
  BY <1>2, <1>6
<1>8. \A i \in 1..n - 1 : i \in 1..Len(c) BY <1>6
<1>9. \A i \in 1..Len(new) : n - 1 + i \in 1..Len(c) BY <1>6
<1>10. Len(c \o b) >= n - 1 + Len(new) /\ Len(c \o b) >= Len(recs) BY <1>2, <1>6, <1>7
<1> QED BY <1>5, <1>6, <1>7, <1>8, <1>9, <1>10

-----------------------------------------------------------------------------
(* How a step changes what a process is doing                              *)

\* The step is of p: nobody else's operation changes.
Steps(p) == op' = [q \in Procs |-> op'[q]] /\ \A q \in Procs : q # p => op'[q] = op[q]

\* p keeps its operation and goes on with another step of it.
GoesOn(p, pc) == /\ Steps(p) /\ DOMAIN op'[p] = Fields /\ op'[p].pc = pc
                 /\ op'[p].kind = op[p].kind /\ op'[p].n = op[p].n /\ op'[p].clen = op[p].clen /\ op'[p].flag = op[p].flag
                 /\ op'[p].dels = op[p].dels

LEMMA StepGoesOn ==
  ASSUME OpsOK, NEW p \in Procs, NEW pc, Step(p, pc)
  PROVE  GoesOn(p, pc)
BY DEF OpsOK, OpOK, Step, Steps, GoesOn, Fields

\* Idle is an operation without a step.
LEMMA IdleOK == OpOK(Idle) /\ Idle.pc = "idle" /\ Idle.kind = "none" /\ Idle.dels = {} /\ Idle.n = 0
BY DEF OpOK, Idle, Phase, Fields

LEMMA ReleaseSteps ==
  ASSUME OpsOK, NEW p \in Procs, Release(p)
  PROVE  Steps(p) /\ op'[p] = Idle
BY DEF OpsOK, Release, Steps

LEMMA OpsStep ==
  ASSUME OpsOK, NEW p \in Procs, Steps(p), OpOK(op'[p])
  PROVE  OpsOK'
BY DEF OpsOK, Steps, OpOK, Phase

\* Two processes are not at once between mailbox_lock_header and its end, nor
\* both under the lock of the index.
LEMMA Alone ==
  ASSUME LocksOK, NEW p \in Procs
  PROVE  /\ Header(op[p]) => \A q \in Procs : q # p => ~Header(op[q])
         /\ op[p].pc \in IndexPcs => \A q \in Procs : q # p => op[q].pc \notin IndexPcs
BY DEF LocksOK

LEMMA LocksKept ==
  ASSUME LocksOK, NEW p \in Procs, Steps(p), header_lock' = header_lock, index_lock' = index_lock,
         dir'.index = dir.index, Header(op'[p]) => Header(op[p]),
         op'[p].pc \in IndexPcs => op[p].pc \in IndexPcs,
         op'[p].pc \in Lockless => op[p].pc \in Lockless
  PROVE  LocksOK'
BY DEF LocksOK, Steps, Header

\* The name moves to another inode, and nobody has that one locked.
LEMMA LocksMoved ==
  ASSUME LocksOK, NEW p \in Procs, Steps(p), header_lock' = header_lock, index_lock' = index_lock,
         op[p].pc \in IndexPcs, op'[p].pc \notin IndexPcs \cup Lockless,
         Header(op'[p]) => Header(op[p])
  PROVE  LocksOK'
BY DEF LocksOK, Steps, Header

\* p gives up what it holds.
LEMMA LocksFreed ==
  ASSUME LocksOK, NEW p \in Procs, Steps(p), dir'.index = dir.index, dir.index \in Inodes,
         op'[p].pc \in Lockless,
         header_lock' = IF header_lock = p THEN NoProc ELSE header_lock,
         index_lock' = [i \in Inodes |-> IF index_lock[i] = p THEN NoProc ELSE index_lock[i]]
  PROVE  LocksOK'
<1>1. p # NoProc BY MailboxAssumption DEF Procs
<1>2. header_lock' \in Procs \cup {NoProc} /\ index_lock' \in [Inodes -> Procs \cup {NoProc}]
  BY DEF LocksOK
<1>3. ~Header(op'[p]) /\ op'[p].pc \notin IndexPcs BY DEF Header, IndexPcs, Lockless
<1>4. ASSUME NEW q \in Procs
      PROVE  /\ Header(op'[q]) => header_lock' = q
             /\ op'[q].pc \in IndexPcs => index_lock'[dir'.index] = q
             /\ op'[q].pc \in Lockless => header_lock' # q /\ \A i \in Inodes : index_lock'[i] # q
  <2>1. CASE q = p
    BY <1>1, <1>3, <2>1
  <2>2. CASE q # p
    <3>1. op'[q] = op[q] BY <2>2 DEF Steps
    <3>2. q # NoProc BY MailboxAssumption DEF Procs
    <3> QED BY <2>2, <3>1, <3>2 DEF LocksOK
  <2> QED BY <2>1, <2>2
<1> QED BY <1>2, <1>4 DEF LocksOK, Header

LEMMA LocksReleased ==
  ASSUME LocksOK, OpsOK, NEW p \in Procs, Release(p), dir'.index = dir.index,
         dir.index \in Inodes
  PROVE  LocksOK'
<1>1. Steps(p) /\ op'[p] = Idle BY ReleaseSteps
<1>2. op'[p].pc \in Lockless BY <1>1, IdleOK DEF Lockless
<1> QED BY <1>1, <1>2, LocksFreed DEF Release

\* The index that has the name.
LEMMA CurrentType ==
  ASSUME FilesOK
  PROVE  /\ Current \in IndexFiles /\ Current.recs \in Seq(Records)
         /\ Current.exists \in Nat /\ Current.exists <= Len(Current.recs)
         /\ Current.gen \in 1..dir.index /\ Current.last_uid \in 0..MaxMid
         /\ Live(Current) \in Seq(Records) /\ Len(Live(Current)) = Current.exists
         /\ \A i \in 1..Current.exists :
              Live(Current)[i] = Current.recs[i] /\ Current.recs[i] \in Records
         /\ dir.index \in 1..Len(index) /\ dir.index \in Inodes /\ dir.cache \in Inodes
<1>1. dir.index \in 1..Len(index) /\ dir.cache \in 1..Len(index) /\ index \in Seq(IndexFiles)
      /\ Len(index) \in Nat /\ Len(index) <= MaxInodes
  BY DEF FilesOK
<1>2. Current \in IndexFiles /\ Current.exists <= Len(Current.recs) /\ Current.gen \in 1..dir.index
  BY <1>1 DEF FilesOK, Current
<1>3. Current.recs \in Seq(Records) /\ Current.exists \in Nat /\ Current.last_uid \in 0..MaxMid
  BY <1>2 DEF IndexFiles
<1> DEFINE r == Current.recs
           e == Current.exists
<1> HIDE DEF r, e
<1>4. r \in Seq(Records) /\ e \in Nat /\ e <= Len(r) /\ Live(Current) = SubSeq(r, 1, e)
  BY <1>2, <1>3 DEF r, e, Live
<1>5. SubSeq(r, 1, e) \in Seq(Records) /\ Len(SubSeq(r, 1, e)) = e
      /\ \A i \in 1..e : SubSeq(r, 1, e)[i] = r[i] /\ r[i] \in Records
  BY <1>4
<1>6. dir.index \in Inodes /\ dir.cache \in Inodes BY <1>1, MailboxAssumption DEF Inodes
<1> QED BY <1>1, <1>2, <1>3, <1>4, <1>5, <1>6 DEF r, e

LEMMA ExpungedType ==
  ASSUME FilesOK
  PROVE  /\ xfile.recs \in Seq(Records) /\ xfile.exists \in Nat /\ xfile.exists <= Len(xfile.recs)
         /\ Expunged \in Seq(Records) /\ Len(Expunged) = xfile.exists
         /\ \A i \in 1..xfile.exists : Expunged[i] = xfile.recs[i] /\ xfile.recs[i] \in Records
<1>1. xfile.recs \in Seq(Records) /\ xfile.exists \in Nat /\ xfile.exists <= Len(xfile.recs)
  BY DEF FilesOK, ExpungeFiles
<1> DEFINE r == xfile.recs
           e == xfile.exists
<1> HIDE DEF r, e
<1>2. r \in Seq(Records) /\ e \in Nat /\ e <= Len(r) /\ Expunged = SubSeq(r, 1, e)
  BY <1>1 DEF r, e, Expunged
<1>3. SubSeq(r, 1, e) \in Seq(Records) /\ Len(SubSeq(r, 1, e)) = e
      /\ \A i \in 1..e : SubSeq(r, 1, e)[i] = r[i] /\ r[i] \in Records
  BY <1>2
<1> QED BY <1>1, <1>2, <1>3 DEF r, e

\* A step that leaves the files alone.
LEMMA StillType ==
  ASSUME TypeInv, NEW p \in Procs, Steps(p), UNCHANGED <<mail, pub, mid>>,
         used' \in Nat, faults' \in Nat, OpOK(op'[p]), LocksOK', Work(op'[p])
  PROVE  TypeInv'
<1>1. FilesOK' BY DEF TypeInv, FilesOK, mail
<1>2. OpsOK' BY OpsStep DEF TypeInv
<1>3. ASSUME NEW q \in Procs PROVE Work(op[q])'
  <2>1. Work(op'[q]) BY DEF Steps, TypeInv, WorkOK
  <2>2. Current' = Current BY DEF Current, mail
  <2>3. Drop(Live(Current), op[q].dels)' = Drop(Live(Current), op'[q].dels) BY <2>2
  <2>4. RoomAt(op[q])' BY <2>1 DEF Work, RoomAt, mail
  <2>5. StagedAt(op[q])' BY <2>1, <2>2 DEF Work, StagedAt, mail
  <2>6. CopiedAt(op[q])' BY <2>1, <2>2, <2>3 DEF Work, CopiedAt, mail
  <2> QED BY <2>4, <2>5, <2>6 DEF Work
<1> QED BY <1>1, <1>2, <1>3 DEF TypeInv, WorkOK

Inv == TypeInv /\ UidInv /\ FileInv /\ QuotaInv

LEMMA MailStill == ASSUME UNCHANGED mail PROVE Current' = Current /\ xfile' = xfile
BY DEF mail, Current

\* The quota when the files and quota.used stay: p owes what it owed, or it
\* was cut short.
LEMMA QuotaStill ==
  ASSUME Inv, NEW p \in Procs, Steps(p), Current' = Current, xfile' = xfile, used' = used,
         faults' \in Nat, faults' = 0 => faults = 0,
         \/ ~Owing(op'[p]) /\ (~Owing(op[p]) \/ faults' # 0)
         \/ Owing(op'[p]) /\ Owing(op[p]) /\ Owed(op'[p]) = Owed(op[p])
  PROVE  QuotaInv'
<1>1. Current' = Current /\ Expunged' = Expunged BY DEF Expunged
<1>2. ASSUME NEW q \in Procs
      PROVE  Owing(op[q])' = Owing(op'[q]) /\ Owed(op[q])' = Owed(op'[q])
  BY <1>1 DEF Owing, Owed
<1>3. ASSUME NEW q \in Procs, q # p PROVE Owing(op[q])' = Owing(op[q]) /\ Owed(op[q])' = Owed(op[q])
  <2>1. op'[q] = op[q] BY <1>3 DEF Steps
  <2> QED BY <1>2, <2>1
<1>4. QuotaInv BY DEF Inv
<1> QED BY <1>1, <1>2, <1>3, <1>4 DEF QuotaInv

\* The uids and the message files when the files stay.
LEMMA UidStill ==
  ASSUME Inv, NEW p \in Procs, Steps(p), Current' = Current, UNCHANGED <<xfile, msgs, pub>>,
         torn \subseteq torn', op'[p].dels \subseteq op[p].dels,
         Moving(op[p]) => \/ Moving(op'[p]) /\ op'[p].dels = op[p].dels
                          \/ op[p].dels \subseteq torn'
  PROVE  UidInv'
<1>1. Current' = Current OBVIOUS
<1>2. UidInv BY DEF Inv
<1>3. Bindings'
  <2>1. ASSUME NEW q \in Procs PROVE LowAt(op[q])'
    BY <1>1, <1>2 DEF UidInv, Bindings, LowAt, Steps
  <2>2. /\ \A i \in 1..Current.exists : Bound(Current.recs[i])
        /\ \A i \in 1..xfile.exists : Bound(xfile.recs[i])
        /\ \A u \in Uids : pub[u] # NoFile => u <= Current.last_uid /\ msgs[u] \in {NoFile, pub[u]}
    BY <1>2 DEF UidInv, Bindings
  <2> QED BY <1>1, <2>1, <2>2 DEF Bindings, Bound
<1>4. Ascending' BY <1>1, <1>2 DEF UidInv, Ascending
<1>5. Distinct' BY <1>2 DEF UidInv, Distinct
<1>6. Apart'
  <2> SUFFICES ASSUME NEW u \in Uids, InIndex(u)', InExpunge(u)'
               PROVE  u \in torn' \/ \E q \in Procs : Moving(op'[q]) /\ u \in op'[q].dels
    BY DEF Apart, Moving
  <2>1. InIndex(u) /\ InExpunge(u) BY <1>1 DEF InIndex, InExpunge
  <2>2. CASE u \in torn BY <2>2
  <2>3. CASE u \notin torn
    <3>1. PICK q \in Procs : Moving(op[q]) /\ u \in op[q].dels
      BY <1>2, <2>1, <2>3 DEF UidInv, Apart
    <3>2. CASE q = p BY <3>1, <3>2
    <3>3. CASE q # p BY <3>1, <3>3 DEF Steps
    <3> QED BY <3>2, <3>3
  <2> QED BY <2>2, <2>3
<1> QED BY <1>3, <1>4, <1>5, <1>6 DEF UidInv

LEMMA FileStill ==
  ASSUME Inv, NEW p \in Procs, Steps(p), Current' = Current, UNCHANGED <<xfile, msgs>>,
         torn \subseteq torn', ~Forced => DoomedAt(op'[p])
  PROVE  FileInv'
<1> SUFFICES ASSUME ~Forced PROVE Doomed' /\ MessageFiles' BY DEF FileInv
<1>1. Current' = Current OBVIOUS
<1>2. Doomed /\ MessageFiles BY DEF Inv, FileInv
<1>3. \A u : InIndex(u)' = InIndex(u) /\ InExpunge(u)' = InExpunge(u)
  BY <1>1 DEF InIndex, InExpunge
<1>4. \A u : Gone(u) => Gone(u)' BY <1>3 DEF Gone
<1>5. ASSUME NEW q \in Procs PROVE DoomedAt(op[q])'
  <2>1. DoomedAt(op'[q]) BY <1>2 DEF Doomed, Steps
  <2> QED BY <1>3, <1>4, <2>1 DEF DoomedAt, Header
<1>6. MessageFiles' BY <1>1, <1>2 DEF MessageFiles
<1> QED BY <1>5, <1>6 DEF Doomed

LEMMA Still ==
  ASSUME Inv, NEW p \in Procs, Steps(p), UNCHANGED <<mail, pub, mid>>, torn \subseteq torn',
         used' \in Nat, faults' \in Nat, OpOK(op'[p]), LocksOK', Work(op'[p]),
         op'[p].dels \subseteq op[p].dels,
         Moving(op[p]) => \/ Moving(op'[p]) /\ op'[p].dels = op[p].dels
                          \/ op[p].dels \subseteq torn',
         ~Forced => DoomedAt(op'[p]), QuotaInv'
  PROVE  Inv'
<1>1. TypeInv' BY StillType DEF Inv
<1>2. Current' = Current BY DEF Current, mail
<1>3. UidInv' BY <1>2, UidStill DEF mail
<1>4. FileInv' BY <1>2, FileStill DEF mail
<1> QED BY <1>1, <1>3, <1>4 DEF Inv

\* p ends its operation and leaves the files alone.
LEMMA StillReleased ==
  ASSUME Inv, NEW p \in Procs, Release(p), UNCHANGED <<mail, pub, mid>>, torn \subseteq torn',
         used' \in Nat, faults' \in Nat, Moving(op[p]) => op[p].dels \subseteq torn', QuotaInv'
  PROVE  Inv'
<1>1. Steps(p) /\ op'[p] = Idle BY ReleaseSteps DEF Inv, TypeInv
<1>2. LocksOK' BY LocksReleased, CurrentType DEF Inv, TypeInv, mail
<1>3. OpOK(op'[p]) /\ op'[p].dels = {} BY <1>1, IdleOK
<1>4. Work(op'[p]) /\ DoomedAt(op'[p])
  BY <1>1, IdleOK DEF Work, RoomAt, StagedAt, CopiedAt, DoomedAt, Header, Lockless, Expunges
<1> QED BY <1>1, <1>2, <1>3, <1>4, Still

-----------------------------------------------------------------------------
(* Locks                                                                   *)

LEMMA LockHeaderInv ==
  ASSUME Inv, NEW p \in Procs, NEW kind \in DOMAIN Writers, mailbox_lock_header(p, kind)
  PROVE  Inv'
<1>0. kind \in Expunges \cup {"append", "unexpunge"} BY DEF Writers, Expunges
<1>1. /\ op[p] = Idle /\ header_lock = NoProc /\ header_lock' = p /\ index_lock' = index_lock
      /\ UNCHANGED <<mail, used, index_lock, view, mid, faults, history>>
      /\ kind # "append" => Len(index) < MaxInodes
      /\ Applies(kind)
  BY DEF mailbox_lock_header
<1>2. PICK fd : op' = [op EXCEPT ![p] = [Idle EXCEPT !.pc = "lockindex", !.kind = kind, !.fd = fd]]
  BY DEF mailbox_lock_header
<1>3. /\ Steps(p) /\ DOMAIN op'[p] = Fields /\ op'[p].pc = "lockindex" /\ op'[p].kind = kind
      /\ op'[p].n = 0 /\ op'[p].clen = 0 /\ op'[p].flag \in BOOLEAN /\ op'[p].dels = {}
  BY <1>2 DEF Steps, Idle, Fields, Inv, TypeInv, OpsOK
<1>4. OpOK(op'[p]) BY <1>0, <1>3 DEF OpOK, Phase
<1>5. LocksOK'
  <2>1. \A q \in Procs : ~Header(op[q]) \/ header_lock = q BY DEF Inv, TypeInv, LocksOK
  <2>2. \A q \in Procs : q # NoProc BY MailboxAssumption DEF Procs
  <2>3. LocksOK BY DEF Inv, TypeInv
  <2>4. op'[p].pc \notin IndexPcs /\ op'[p].pc \notin Lockless BY <1>3 DEF IndexPcs, Lockless
  <2>5. dir' = dir BY <1>1 DEF mail
  <2> QED BY <1>1, <1>3, <2>1, <2>2, <2>3, <2>4, <2>5 DEF LocksOK, Steps, Header
<1>6. Work(op'[p]) BY <1>0, <1>1, <1>3 DEF Work, RoomAt, StagedAt, CopiedAt, Expunges
<1>7. ~Owing(op'[p]) /\ ~Owing(op[p]) /\ ~Moving(op[p])
  BY <1>1, <1>3, IdleOK DEF Owing, Moving
<1>8. ~Forced => DoomedAt(op'[p]) BY <1>1, <1>3 DEF DoomedAt, Applies
<1>9. used' \in Nat /\ faults' \in Nat /\ torn \subseteq torn' /\ UNCHANGED <<mail, pub, mid, used>>
  BY <1>1 DEF Inv, TypeInv, FilesOK, history
<1>10. QuotaInv' BY <1>1, <1>3, <1>7, <1>9, QuotaStill, MailStill
<1> QED BY <1>3, <1>4, <1>5, <1>6, <1>7, <1>8, <1>9, <1>10, Still

LEMMA LockIndexInv ==
  ASSUME Inv, NEW p \in Procs, mailbox_lock_index(p)
  PROVE  Inv'
<1>0. TypeInv /\ LocksOK /\ OpsOK /\ FilesOK BY DEF Inv, TypeInv
<1>1. /\ op[p].pc = "lockindex" /\ UNCHANGED <<mail, used, mid, faults, history>>
      /\ index_lock[op[p].fd] = NoProc
  BY DEF mailbox_lock_index
<1>2. used' \in Nat /\ faults' \in Nat /\ torn \subseteq torn' /\ UNCHANGED <<mail, pub, mid, used>>
      /\ faults' = faults
  BY <1>0, <1>1 DEF FilesOK, history
<1>3. ~Owing(op[p]) /\ ~Moving(op[p]) BY <1>1 DEF Owing, Moving
<1>4. /\ OpOK(op[p]) /\ op[p].n = 0 /\ op[p].dels = {} /\ Work(op[p])
      /\ op[p].kind \in Expunges \cup {"store", "append", "unexpunge"}
  BY <1>0, <1>1 DEF OpsOK, OpOK, Phase, TypeInv, WorkOK
<1>5. ~Forced => DoomedAt(op[p]) BY DEF Inv, FileInv, Doomed
<1>6. CASE /\ op[p].fd = dir.index
           /\ index_lock' = [index_lock EXCEPT ![op[p].fd] = p]
           /\ op' = [op EXCEPT ![p].pc = FirstStep(op[p].kind),
                            ![p].clen = Len(cache[dir.cache])]
           /\ UNCHANGED <<header_lock, view>>
  <2>1. /\ Steps(p) /\ DOMAIN op'[p] = Fields /\ op'[p].pc = FirstStep(op[p].kind)
        /\ op'[p].kind = op[p].kind /\ op'[p].n = 0 /\ op'[p].dels = {}
        /\ op'[p].clen = Len(cache[dir.cache]) /\ op'[p].flag \in BOOLEAN
    BY <1>0, <1>4, <1>6 DEF Steps, Fields, OpsOK, OpOK
  <2>2. /\ op[p].kind = "append" => op'[p].pc = "append"
        /\ op[p].kind = "store" => op'[p].pc = "storeflag"
        /\ op[p].kind = "unexpunge" => op'[p].pc = "restore"
        /\ op[p].kind \in Expunges => op'[p].pc = "records"
    BY <2>1 DEF FirstStep, Expunges
  <2>3. cache[dir.cache] \in Seq(Nat) /\ Current.last_uid \in 0..MaxMid
        /\ Current.exists <= Len(Current.recs) /\ Current.exists \in Nat /\ dir.index \in Inodes
    BY <1>0, CurrentType DEF FilesOK
  <2>4. Len(cache[dir.cache]) \in Nat BY <2>3
  <2>5. OpOK(op'[p]) BY <1>4, <2>1, <2>2, <2>4 DEF OpOK, Phase, Expunges
  <2>6. LocksOK'
    <3>1. \A q \in Procs : q # NoProc BY MailboxAssumption DEF Procs
    <3>2. op'[p].pc \in IndexPcs /\ op'[p].pc \notin Lockless
      BY <1>4, <2>2 DEF IndexPcs, Lockless, Expunges
    <3>3. dir' = dir BY <1>2 DEF mail
    <3>4. Header(op'[p]) => Header(op[p]) BY <1>1, <1>4, <2>1, <2>2 DEF Header, Lockless, Expunges
    <3>5. index_lock[dir.index] = NoProc /\ \A q \in Procs : op[q].pc \notin IndexPcs
      BY <1>0, <1>1, <1>6, <3>1 DEF LocksOK
    <3>6. Steps(p) BY <2>1
    <3>7. header_lock' = header_lock /\ index_lock' = [index_lock EXCEPT ![dir.index] = p] BY <1>6
    <3> QED BY <1>0, <2>3, <3>1, <3>6, <3>7, <3>2, <3>3, <3>4, <3>5 DEF LocksOK, Steps, Header
  <2>7. Work(op'[p])
    <3>1. RoomAt(op'[p]) BY <1>1, <1>4, <2>1 DEF Work, RoomAt
    <3>2. StagedAt(op'[p]) BY <2>1, <2>3, <2>4 DEF StagedAt
    <3>3. CopiedAt(op'[p]) BY <2>1, <2>2 DEF CopiedAt, Expunges
    <3> QED BY <3>1, <3>2, <3>3 DEF Work
  <2>8. ~Owing(op'[p]) BY <1>4, <2>1, <2>2 DEF Owing, Expunges
  <2>9. ~Forced => DoomedAt(op'[p])
    BY <1>1, <1>4, <1>5, <2>1, <2>2 DEF DoomedAt, Header, Expunges, Lockless
  <2>10. QuotaInv' BY <1>2, <1>3, <2>1, <2>8, QuotaStill, MailStill
  <2> QED BY <1>2, <1>3, <2>1, <2>5, <2>6, <2>7, <2>9, <2>10, Still
<1>7. CASE /\ op' = [op EXCEPT ![p].fd = dir.index]
           /\ UNCHANGED <<header_lock, index_lock>>
  <2>1. GoesOn(p, op[p].pc) BY <1>0, <1>7 DEF GoesOn, Steps, Fields, OpsOK, OpOK
  <2>2. OpOK(op'[p]) BY <1>4, <2>1 DEF OpOK, Phase, GoesOn
  <2>3. LocksOK'
    <3>1. Header(op'[p]) => Header(op[p]) BY <2>1 DEF GoesOn, Header
    <3>2. Steps(p) /\ op'[p].pc = op[p].pc /\ dir'.index = dir.index
      BY <1>2, <2>1 DEF GoesOn, mail
    <3> QED BY <1>0, <1>7, <3>1, <3>2, LocksKept
  <2>4. Work(op'[p]) BY <1>1, <1>4, <2>1 DEF Work, RoomAt, StagedAt, CopiedAt, GoesOn
  <2>5. ~Owing(op'[p]) BY <1>1, <2>1 DEF Owing, GoesOn
  <2>6. ~Forced => DoomedAt(op'[p]) BY <1>5, <2>1 DEF DoomedAt, Header, GoesOn
  <2>7. QuotaInv' BY <1>2, <1>3, <2>1, <2>5, QuotaStill, MailStill DEF GoesOn
  <2> QED BY <1>2, <1>3, <1>4, <2>1, <2>2, <2>3, <2>4, <2>6, <2>7, Still DEF GoesOn
<1>8. CASE Release(p)
  <2>1. Steps(p) /\ op'[p] = Idle BY <1>0, <1>8, ReleaseSteps
  <2>2. ~Owing(op'[p]) BY <2>1, IdleOK DEF Owing
  <2>3. QuotaInv' BY <1>2, <1>3, <2>1, <2>2, QuotaStill, MailStill
  <2> QED BY <1>2, <1>3, <1>8, <2>3, StillReleased
<1> QED BY <1>6, <1>7, <1>8 DEF mailbox_lock_index

-----------------------------------------------------------------------------
(* Steps that end an operation, and sessions                               *)

\* The operation ends where nothing is owed.
LEMMA EndsInv ==
  ASSUME Inv, NEW p \in Procs, Release(p), UNCHANGED <<mail, used, mid, pub>>, torn \subseteq torn',
         faults' \in Nat, faults' = 0 => faults = 0 /\ ~Owing(op[p]),
         Moving(op[p]) => op[p].dels \subseteq torn'
  PROVE  Inv'
<1>1. Steps(p) /\ op'[p] = Idle BY ReleaseSteps DEF Inv, TypeInv
<1>2. ~Owing(op'[p]) BY <1>1, IdleOK DEF Owing
<1>3. QuotaInv' BY <1>1, <1>2, QuotaStill, MailStill
<1>4. used' \in Nat BY DEF Inv, TypeInv, FilesOK
<1> QED BY <1>3, <1>4, StillReleased

LEMMA PoplockedInv ==
  ASSUME Inv, NEW p \in Procs, poplocked(p)
  PROVE  Inv'
<1>1. /\ Release(p) /\ UNCHANGED <<mail, used, mid, pub>> /\ torn' = torn /\ faults' = faults
      /\ op[p].pc = "records"
  BY DEF poplocked, history
<1>2. ~Owing(op[p]) /\ ~Moving(op[p]) BY <1>1 DEF Owing, Moving
<1>3. faults \in Nat BY DEF Inv, TypeInv, FilesOK
<1> QED BY <1>1, <1>2, <1>3, EndsInv

\* What is between the two files is torn when a process goes no further.
LEMMA CutOffMoving ==
  ASSUME NEW p \in Procs, Moving(op[p])
  PROVE  CutOff(p) = op[p].dels
BY DEF Moving, CutOff, Has

LEMMA FaultCounts ==
  ASSUME FilesOK, Fault
  PROVE  faults' \in Nat /\ faults' # 0
BY DEF FilesOK, Fault

LEMMA RestoreFailsInv ==
  ASSUME Inv, NEW p \in Procs, restore_fails(p)
  PROVE  Inv'
<1>1. /\ Release(p) /\ UNCHANGED <<mail, used, mid, pub>> /\ torn' = torn \cup CutOff(p)
      /\ (op[p].kind = "unexpunge" /\ op[p].pc = "restore" /\ faults' = faults) \/ Fault
  BY DEF restore_fails, Has
<1>2. Moving(op[p]) => op[p].dels \subseteq torn' BY <1>1, CutOffMoving
<1>3. faults' \in Nat /\ (faults' = 0 => faults = 0 /\ ~Owing(op[p]))
  BY <1>1, FaultCounts DEF Inv, TypeInv, FilesOK, Owing
<1> QED BY <1>1, <1>2, <1>3, EndsInv

LEMMA KillInv ==
  ASSUME Inv, NEW p \in Procs, Kill(p)
  PROVE  Inv'
<1>1. Release(p) /\ UNCHANGED <<mail, used, mid, pub>> /\ torn' = torn \cup CutOff(p) /\ Fault
  BY DEF Kill
<1>2. Moving(op[p]) => op[p].dels \subseteq torn' BY <1>1, CutOffMoving
<1>3. faults' \in Nat /\ faults' # 0 BY <1>1, FaultCounts DEF Inv, TypeInv
<1> QED BY <1>1, <1>2, <1>3, EndsInv

\* A session opens, checks or closes the mailbox, and touches no file.
LEMMA SessionStep ==
  ASSUME Inv, NEW p \in Procs, UNCHANGED <<mail, used, header_lock, index_lock, mid, faults, history>>,
         op[p].pc \in Lockless, Steps(p), OpOK(op'[p]), op'[p].dels = {},
         \/ op'[p].pc \in {"idle", "open"}
         \/ op'[p].pc = "lockindex" /\ op'[p].kind = "store"
  PROVE  Inv'
<1>1. LocksOK /\ used \in Nat /\ faults \in Nat BY DEF Inv, TypeInv, FilesOK
<1>2. ~Header(op'[p]) /\ op'[p].pc \notin IndexPcs BY DEF Header, IndexPcs, Lockless
<1>3. dir'.index = dir.index BY DEF mail
<1>4. LocksOK'
  <2>1. header_lock' = header_lock /\ index_lock' = index_lock OBVIOUS
  <2> QED BY <1>1, <1>2, <1>3, <2>1, LocksKept
<1>5. Work(op'[p]) /\ DoomedAt(op'[p]) /\ ~Owing(op'[p])
  BY <1>2 DEF Work, RoomAt, StagedAt, CopiedAt, DoomedAt, Owing, Expunges
<1>6. ~Owing(op[p]) /\ ~Moving(op[p]) BY DEF Owing, Moving, Lockless
<1>7. UNCHANGED <<mail, pub, mid, used, faults>> /\ torn' = torn BY DEF history
<1>8. QuotaInv' BY <1>1, <1>5, <1>6, <1>7, QuotaStill, MailStill
<1> QED BY <1>1, <1>4, <1>5, <1>6, <1>7, <1>8, Still

LEMMA CheckOK == OpOK(Check) /\ Check.pc = "open" /\ Check.dels = {}
BY DEF OpOK, Check, Idle, Phase, Fields

LEMMA SessionInv ==
  ASSUME Inv, NEW p \in Users,
         \/ index_newmailbox(p) \/ index_check_replaced(p) \/ index_opened(p) \/ index_check(p)
         \/ index_store(p) \/ index_closemailbox(p)
  PROVE  Inv'
<1>0. p \in Procs /\ OpsOK /\ OpOK(op[p]) BY DEF Procs, Inv, TypeInv, OpsOK
<1> DEFINE Files == UNCHANGED <<mail, used, header_lock, index_lock, mid, faults, history>>
<1>1. CASE index_newmailbox(p)
  <2>1. /\ op' = [op EXCEPT ![p] = [Idle EXCEPT !.pc = "open", !.kind = "select", !.fd = dir.index]]
        /\ Files /\ op[p].pc = "idle"
    BY <1>1, IdleOK DEF index_newmailbox
  <2>2. Steps(p) /\ OpOK(op'[p]) /\ op'[p].dels = {} /\ op'[p].pc = "open"
    BY <1>0, <2>1 DEF OpsOK, Steps, OpOK, Idle, Phase, Fields
  <2> QED BY <1>0, <2>1, <2>2, SessionStep DEF Lockless
<1>2. CASE index_check_replaced(p)
  <2>1. op' = [op EXCEPT ![p] = Check] /\ Files /\ op[p].pc = "idle"
    BY <1>2, IdleOK DEF index_check_replaced
  <2>2. Steps(p) /\ op'[p] = Check BY <1>0, <2>1 DEF OpsOK, Steps
  <2> QED BY <1>0, <2>1, <2>2, CheckOK, SessionStep DEF Lockless
<1>3. CASE index_opened(p)
  <2>1. /\ op[p].pc = "open" /\ Files
        /\ op' = [op EXCEPT ![p] = Idle] \/ op' = [op EXCEPT ![p].fd = dir.index]
    BY <1>3 DEF index_opened
  <2>2. CASE op' = [op EXCEPT ![p] = Idle]
    <3>1. Steps(p) /\ op'[p] = Idle BY <1>0, <2>2 DEF OpsOK, Steps
    <3> QED BY <1>0, <2>1, <3>1, IdleOK, SessionStep DEF Lockless
  <2>3. CASE op' = [op EXCEPT ![p].fd = dir.index]
    <3>1. GoesOn(p, "open") BY <1>0, <2>1, <2>3 DEF GoesOn, Steps, Fields, OpsOK, OpOK
    <3>2. OpOK(op'[p]) BY <1>0, <2>1, <3>1 DEF OpOK, Phase, GoesOn
    <3>3. Steps(p) /\ op'[p].pc = "open" /\ torn' = torn BY <2>1, <3>1 DEF GoesOn, history
    <3>4. LocksOK /\ LocksOK' /\ used \in Nat /\ faults \in Nat
      <4>1. ~Header(op'[p]) /\ op'[p].pc \notin IndexPcs BY <3>3 DEF Header, IndexPcs, Lockless
      <4>2. LocksOK /\ dir'.index = dir.index /\ op[p].pc \in Lockless
        BY <2>1 DEF Inv, TypeInv, Lockless, mail
      <4>3. header_lock' = header_lock /\ index_lock' = index_lock BY <2>1
      <4>4. LocksOK' BY <1>0, <3>3, <4>1, <4>2, <4>3, LocksKept
      <4> QED BY <4>2, <4>4 DEF Inv, TypeInv, FilesOK
    <3>5. Work(op'[p]) /\ DoomedAt(op'[p]) /\ ~Owing(op'[p]) /\ ~Owing(op[p]) /\ ~Moving(op[p])
      BY <2>1, <3>3 DEF Work, RoomAt, StagedAt, CopiedAt, DoomedAt, Owing, Moving, Header,
         Lockless
    <3>6. op'[p].dels = op[p].dels BY <3>1 DEF GoesOn
    <3>7. UNCHANGED <<mail, pub, mid, used>> /\ faults' = faults BY <2>1 DEF history
    <3>8. QuotaInv' BY <1>0, <3>3, <3>4, <3>5, <3>7, QuotaStill, MailStill
    <3> QED BY <1>0, <3>2, <3>3, <3>4, <3>5, <3>6, <3>7, <3>8, Still
  <2> QED BY <2>1, <2>2, <2>3
<1>4. CASE index_check(p) \/ index_closemailbox(p)
  <2>1. op' = op /\ Files /\ op[p] = Idle BY <1>4 DEF index_check, index_closemailbox
  <2>2. Steps(p) /\ op'[p] = Idle BY <1>0, <2>1 DEF OpsOK, Steps
  <2> QED BY <1>0, <2>1, <2>2, IdleOK, SessionStep DEF Lockless
<1>5. CASE index_store(p)
  <2>1. PICK n \in DOMAIN view[p].uids, flag \in BOOLEAN, usinguid \in BOOLEAN :
          op' = [op EXCEPT ![p] = [Idle EXCEPT !.pc = "lockindex", !.kind = "store", !.fd = view[p].mfd,
                                     !.msgno = n, !.flag = flag, !.usinguid = usinguid]]
    BY <1>5 DEF index_store
  <2>2. Files /\ op[p].pc = "idle" BY <1>5, IdleOK DEF index_store
  <2>3. /\ Steps(p) /\ OpOK(op'[p]) /\ op'[p].dels = {} /\ op'[p].pc = "lockindex"
        /\ op'[p].kind = "store"
    <3>1. Steps(p) BY <1>0, <2>1 DEF OpsOK, Steps
    <3>2. /\ DOMAIN op'[p] = Fields /\ op'[p].pc = "lockindex" /\ op'[p].kind = "store"
          /\ op'[p].n = 0 /\ op'[p].clen = 0 /\ op'[p].flag \in BOOLEAN /\ op'[p].dels = {}
      BY <1>0, <2>1 DEF OpsOK, Idle, Fields
    <3> QED BY <3>1, <3>2 DEF OpOK, Phase
  <2> QED BY <1>0, <2>2, <2>3, SessionStep DEF Lockless
<1> QED BY <1>1, <1>2, <1>3, <1>4, <1>5

\* Nobody does anything.
LEMMA StutterInv == ASSUME Inv, UNCHANGED vars PROVE Inv'
<1>1. UNCHANGED <<index, cache, dir, xfile, msgs, used, header_lock, index_lock, op, mid, faults, pub, torn>>
  BY DEF vars, mail, history
<1>2. Current' = Current /\ Expunged' = Expunged BY <1>1 DEF Current, Expunged
<1>3. ASSUME NEW q \in Procs
      PROVE  Work(op[q])' = Work(op[q]) /\ DoomedAt(op[q])' = DoomedAt(op[q]) /\ LowAt(op[q])' = LowAt(op[q])
             /\ Owing(op[q])' = Owing(op[q]) /\ Owed(op[q])' = Owed(op[q])
  BY <1>1, <1>2 DEF Work, RoomAt, StagedAt, CopiedAt, DoomedAt, Gone, InIndex, InExpunge,
     Header, LowAt,
     Owing, Owed
<1>4. TypeInv'
  BY <1>1, <1>3 DEF Inv, TypeInv, FilesOK, OpsOK, OpOK, Phase, LocksOK, Header, WorkOK
<1>5. UidInv'
  BY <1>1, <1>2, <1>3 DEF Inv, UidInv, Bindings, Bound, Ascending, Distinct, Apart, Moving,
     InIndex,
     InExpunge
<1>6. FileInv' BY <1>1, <1>2, <1>3 DEF Inv, FileInv, Doomed, MessageFiles
<1>7. QuotaInv' BY <1>1, <1>2, <1>3 DEF Inv, QuotaInv
<1> QED BY <1>4, <1>5, <1>6, <1>7 DEF Inv

-----------------------------------------------------------------------------
(* The quota                                                               *)

LEMMA OwingHeader ==
  ASSUME OpsOK, NEW p \in Procs, Owing(op[p]) \/ Moving(op[p])
  PROVE  Header(op[p])
BY DEF OpsOK, OpOK, Phase, Owing, Moving, Header, Lockless, Expunges

\* p charges what it owes, or LOSTQUOTA is logged.
LEMMA PaidInv ==
  ASSUME Inv, NEW p \in Procs, Release(p), Owing(op[p]), ~Moving(op[p]), Owed(op[p]) = op[p].n,
         UNCHANGED <<mail, mid, pub, torn>>,
         \/ used' = used + op[p].n /\ faults' = faults
         \/ Fault /\ used' = used
  PROVE  Inv'
<1>0. LocksOK /\ OpsOK /\ FilesOK /\ QuotaInv BY DEF Inv, TypeInv
<1>1. Steps(p) /\ op'[p] = Idle BY <1>0, ReleaseSteps
<1>2. ~Owing(op'[p]) BY <1>1, IdleOK DEF Owing
<1>3. CASE Fault /\ used' = used
  <2>1. faults' \in Nat /\ faults' # 0 /\ used' \in Nat BY <1>0, <1>3, FaultCounts DEF FilesOK
  <2>2. QuotaInv' BY <1>1, <1>2, <1>3, <2>1, QuotaStill, MailStill
  <2> QED BY <2>1, <2>2, StillReleased
<1>4. CASE used' = used + op[p].n /\ faults' = faults
  <2>1. op[p].n \in Nat /\ used \in Nat /\ faults \in Nat BY <1>0 DEF OpsOK, OpOK, FilesOK
  <2>2. used + op[p].n <= Current.exists /\ (faults = 0 => used + op[p].n = Current.exists)
    BY <1>0 DEF QuotaInv
  <2>3. \A q \in Procs : ~Owing(op'[q])
    <3>1. Header(op[p]) BY <1>0, OwingHeader
    <3>2. \A q \in Procs : q # p => ~Header(op[q]) BY <1>0, <3>1, Alone
    <3>3. \A q \in Procs : q # p => ~Owing(op[q]) BY <1>0, <3>2, OwingHeader
    <3> QED BY <1>1, <1>2, <3>3 DEF Steps
  <2>4. Current' = Current BY MailStill
  <2>5. \A q \in Procs : Owing(op[q])' = Owing(op'[q]) BY DEF Owing
  <2>6. QuotaInv' BY <1>4, <2>2, <2>3, <2>4, <2>5 DEF QuotaInv
  <2>7. used' \in Nat /\ faults' \in Nat BY <1>4, <2>1
  <2> QED BY <2>6, <2>7, StillReleased
<1> QED BY <1>3, <1>4

LEMMA AppendQuotaInv ==
  ASSUME Inv, NEW p \in Procs, append_quota(p)
  PROVE  Inv'
<1>1. /\ op[p].pc = "commitquota" /\ Release(p) /\ UNCHANGED <<mail, mid, pub, torn>>
      /\ (used' = used + op[p].n /\ faults' = faults) \/ (Fault /\ used' = used)
  BY DEF append_quota, Has, history
<1>2. Owing(op[p]) /\ ~Moving(op[p]) /\ Owed(op[p]) = op[p].n BY <1>1 DEF Owing, Moving, Owed
<1> QED BY <1>1, <1>2, PaidInv

LEMMA RestoreQuotaInv ==
  ASSUME Inv, NEW p \in Procs, restore_quota(p)
  PROVE  Inv'
<1>1. /\ op[p].pc = "addquota" /\ Release(p) /\ UNCHANGED <<mail, mid, pub, torn>>
      /\ (used' = used + op[p].n /\ faults' = faults) \/ (Fault /\ used' = used)
  BY DEF restore_quota, Has, history
<1>2. Owing(op[p]) /\ ~Moving(op[p]) /\ Owed(op[p]) = op[p].n BY <1>1 DEF Owing, Moving, Owed
<1> QED BY <1>1, <1>2, PaidInv

LEMMA ReleaseQuotaInv ==
  ASSUME Inv, NEW p \in Procs, release_quota(p)
  PROVE  Inv'
<1>0. TypeInv /\ LocksOK /\ OpsOK /\ FilesOK /\ QuotaInv BY DEF Inv, TypeInv
<1> DEFINE pc == IF op[p].kind = "delayed" THEN "xheader" ELSE "renindex"
           d == Drop(Live(Current), op[p].dels)
           freed == IF op[p].kind = "cleanup" THEN 0 ELSE Len(d)
<1>1. /\ op[p].pc = "quota" /\ Step(p, pc) /\ used' = IF used >= freed THEN used - freed ELSE 0
      /\ UNCHANGED <<mail, mid, pub>> /\ torn' = torn /\ faults' = faults
      /\ header_lock' = header_lock /\ index_lock' = index_lock
  BY DEF release_quota, history
<1>2. GoesOn(p, pc) BY <1>0, <1>1, StepGoesOn
<1>3. op[p].kind \in Expunges /\ OpOK(op[p]) /\ Work(op[p])
  BY <1>0, <1>1 DEF OpsOK, OpOK, Phase, TypeInv, WorkOK
<1>4. Len(d) \in Nat /\ Len(d) <= Current.exists /\ Current.exists \in Nat
  <2>1. Live(Current) \in Seq(Records) /\ Len(Live(Current)) = Current.exists /\ Current.exists \in Nat
    BY <1>0, CurrentType
  <2>2. Len(Keep(Live(Current), op[p].dels)) + Len(d) = Current.exists BY <2>1, KeepDropLen
  <2>3. Keep(Live(Current), op[p].dels) \in Seq(Records) /\ d \in Seq(Records)
    BY <2>1, KeepPicks, DropPicks
  <2>4. Len(Keep(Live(Current), op[p].dels)) \in Nat /\ Len(d) \in Nat BY <2>3
  <2> HIDE DEF d
  <2> QED BY <2>1, <2>2, <2>4
<1>5. used \in Nat /\ faults \in Nat /\ used <= Current.exists BY <1>0 DEF FilesOK, QuotaInv
<1>6. /\ Steps(p) /\ op'[p].kind = op[p].kind /\ op'[p].dels = op[p].dels /\ op'[p].pc = pc
      /\ DOMAIN op'[p] = Fields /\ op'[p].n = op[p].n /\ op'[p].clen = op[p].clen /\ op'[p].flag = op[p].flag
  BY <1>2 DEF GoesOn
<1>7. OpOK(op'[p]) BY <1>3, <1>6 DEF OpOK, Phase, Expunges
<1>8. LocksOK'
  <2>1. Header(op'[p]) => Header(op[p]) BY <1>1, <1>6 DEF Header, Lockless
  <2>2. op[p].pc \in IndexPcs /\ op'[p].pc \notin Lockless BY <1>1, <1>6 DEF Lockless, IndexPcs
  <2>3. dir'.index = dir.index BY <1>1 DEF mail
  <2> QED BY <1>0, <1>1, <1>6, <2>1, <2>2, <2>3, LocksKept
<1>9. Work(op'[p])
  <2>1. RoomAt(op'[p]) BY <1>1, <1>3, <1>6 DEF Work, RoomAt
  <2>2. StagedAt(op'[p]) BY <1>6 DEF StagedAt
  <2>3. CopiedAt(op'[p]) BY <1>1, <1>3, <1>6 DEF Work, CopiedAt
  <2> QED BY <2>1, <2>2, <2>3 DEF Work
<1>10. ~Forced => DoomedAt(op'[p])
  <2>1. ~Forced => DoomedAt(op[p]) BY DEF Inv, FileInv, Doomed
  <2> QED BY <1>1, <1>6, <2>1 DEF DoomedAt, Header, Lockless
<1>11. QuotaInv'
  <2>1. Header(op[p]) BY <1>1, <1>3 DEF Header, Lockless, Expunges
  <2>2. \A q \in Procs : q # p => ~Header(op[q]) BY <1>0, <2>1, Alone
  <2>3. \A q \in Procs : q # p => ~Owing(op[q]) BY <1>0, <2>2, OwingHeader
  <2>4. \A q \in Procs : Owing(op[q])' = Owing(op'[q]) BY DEF Owing
  <2>5. \A q \in Procs : q # p => ~Owing(op[q])' BY <1>6, <2>3, <2>4 DEF Steps
  <2>6. Current' = Current BY <1>1, MailStill
  <2>7. ~Owing(op[p]) BY <1>1 DEF Owing
  <2>8. Owing(op[p])' = (op[p].kind # "cleanup") BY <1>6, <2>4 DEF Owing
  <2>9. Owed(op[p])' = Len(d) BY <1>6, <2>6 DEF Owed
  <2>10. faults = 0 => used = Current.exists BY <1>0, <2>3, <2>7 DEF QuotaInv
  <2> HIDE DEF d
  <2>11. CASE op[p].kind = "cleanup"
    <3>1. used' = used BY <1>1, <1>5, <2>11
    <3> QED BY <1>1, <1>5, <2>5, <2>6, <2>8, <2>10, <2>11, <3>1 DEF QuotaInv
  <2>12. CASE op[p].kind # "cleanup"
    <3>1. used' <= Current.exists /\ used' + Len(d) <= Current.exists
      BY <1>1, <1>4, <1>5, <2>12
    <3>2. faults = 0 => used' + Len(d) = Current.exists BY <1>1, <1>4, <1>5, <2>10, <2>12
    <3> QED BY <1>1, <2>5, <2>6, <2>8, <2>9, <2>12, <3>1, <3>2 DEF QuotaInv
  <2> QED BY <2>11, <2>12
<1>12. used' \in Nat BY <1>1, <1>4, <1>5
<1>13. ~Moving(op[p]) BY <1>1 DEF Moving
<1> QED BY <1>1, <1>5, <1>6, <1>7, <1>8, <1>9, <1>10, <1>11, <1>12, <1>13, Still

-----------------------------------------------------------------------------
(* The end of an expunge                                                   *)

LEMMA AfterExpungeOK ==
  ASSUME NEW p \in Procs
  PROVE  /\ OpOK(AfterExpunge(p)) /\ AfterExpunge(p).pc \in {"idle", "open"}
         /\ AfterExpunge(p).dels = {}
BY IdleOK, CheckOK DEF AfterExpunge

LEMMA UnlockInv ==
  ASSUME Inv, NEW p \in Procs, unlock(p)
  PROVE  Inv'
<1>0. TypeInv /\ LocksOK /\ OpsOK /\ FilesOK BY DEF Inv, TypeInv
<1>1. /\ op[p].pc = "unlock" /\ header_lock' = NoProc
      /\ index_lock' = [i \in Inodes |-> IF index_lock[i] = p THEN NoProc ELSE index_lock[i]]
      /\ UNCHANGED <<mail, used, mid, pub>> /\ torn' = torn /\ faults' = faults
  BY DEF unlock, history
<1>2. op[p].kind \in Expunges /\ OpOK(op[p]) BY <1>0, <1>1 DEF OpsOK, OpOK, Phase
<1>3. header_lock = p /\ dir.index \in Inodes
  <2>1. Header(op[p]) BY <1>1, <1>2 DEF Header, Lockless, Expunges
  <2> QED BY <1>0, <2>1, CurrentType DEF LocksOK
<1>4. /\ Steps(p) /\ OpOK(op'[p]) /\ op'[p].pc \in Lockless /\ op'[p].dels \subseteq op[p].dels
      /\ op'[p].pc = "unlink" => /\ op'[p].kind = op[p].kind /\ op'[p].dels = op[p].dels
                                 /\ op[p].kind \in {"immediate", "cleanup"}
  <2>1. CASE newcache(op[p].kind)
    <3>1. op' = [op EXCEPT ![p] = [op[p] EXCEPT !.pc = "unlink"]] BY <2>1 DEF unlock
    <3>2. /\ Steps(p) /\ DOMAIN op'[p] = Fields /\ op'[p].pc = "unlink" /\ op'[p].kind = op[p].kind
          /\ op'[p].n = op[p].n /\ op'[p].clen = op[p].clen /\ op'[p].flag = op[p].flag /\ op'[p].dels = op[p].dels
      BY <1>0, <1>2, <3>1 DEF OpsOK, OpOK, Steps, Fields
    <3>3. op[p].kind \in {"immediate", "cleanup"} BY <2>1 DEF newcache
    <3> QED BY <1>2, <3>2, <3>3 DEF OpOK, Phase, Lockless
  <2>2. CASE ~newcache(op[p].kind)
    <3>1. op' = [op EXCEPT ![p] = AfterExpunge(p)] BY <2>2 DEF unlock
    <3>2. Steps(p) /\ op'[p] = AfterExpunge(p) BY <1>0, <3>1 DEF OpsOK, Steps
    <3> QED BY <3>2, AfterExpungeOK DEF Lockless
  <2> QED BY <2>1, <2>2
<1>5. LocksOK'
  <2>1. dir'.index = dir.index BY <1>1 DEF mail
  <2>2. header_lock' = IF header_lock = p THEN NoProc ELSE header_lock BY <1>1, <1>3
  <2> QED BY <1>0, <1>1, <1>3, <1>4, <2>1, <2>2, LocksFreed
<1>6. ~Header(op'[p]) /\ op'[p].pc \in {"idle", "open", "unlink"} BY <1>4 DEF Header, Lockless
<1>7. Work(op'[p]) /\ ~Owing(op'[p])
  BY <1>6 DEF Work, RoomAt, StagedAt, CopiedAt, Owing
<1>8. ~Owing(op[p]) /\ ~Moving(op[p]) BY <1>1 DEF Owing, Moving
<1>9. ~Forced => DoomedAt(op'[p])
  <2>1. ~Forced => DoomedAt(op[p]) BY DEF Inv, FileInv, Doomed
  <2> QED BY <1>1, <1>4, <1>6, <2>1 DEF DoomedAt
<1>10. used \in Nat /\ faults \in Nat BY <1>0 DEF FilesOK
<1>11. QuotaInv' BY <1>1, <1>4, <1>7, <1>8, <1>10, QuotaStill, MailStill
<1> QED BY <1>1, <1>4, <1>5, <1>7, <1>8, <1>9, <1>10, <1>11, Still

LEMMA RenameCacheInv ==
  ASSUME Inv, NEW p \in Procs, rename_cache(p)
  PROVE  Inv'
<1>0. TypeInv /\ LocksOK /\ OpsOK /\ FilesOK /\ WorkOK BY DEF Inv, TypeInv
<1> DEFINE pc == IF op[p].kind = "cleanup" THEN "renexpunge" ELSE "unlock"
<1>1. /\ op[p].pc = "rencache" /\ Step(p, pc)
      /\ UNCHANGED <<index, cache, xfile, msgs, used, header_lock, index_lock, mid, pub>> /\ torn' = torn
      /\ \/ dir' = [dir EXCEPT !.cache = Current.gen] /\ faults' = faults
         \/ Fault /\ dir' = dir
  BY DEF rename_cache, history
<1>2. GoesOn(p, pc) BY <1>0, <1>1, StepGoesOn
<1>3. op[p].kind \in {"immediate", "cleanup"} /\ OpOK(op[p]) /\ Header(op[p])
  BY <1>0, <1>1 DEF OpsOK, OpOK, Phase, Header, Lockless
<1>4. /\ Steps(p) /\ op'[p].kind = op[p].kind /\ op'[p].dels = op[p].dels /\ op'[p].pc = pc
      /\ DOMAIN op'[p] = Fields /\ op'[p].n = op[p].n /\ op'[p].clen = op[p].clen /\ op'[p].flag = op[p].flag
  BY <1>2 DEF GoesOn
<1>5. /\ dir' \in [index : 1..Len(index), cache : 1..Len(index)] /\ dir'.index = dir.index
      /\ Current' = Current
  <2>1. dir \in [index : 1..Len(index), cache : 1..Len(index)] /\ Len(index) \in Nat
    BY <1>0 DEF FilesOK
  <2>2. Current.gen \in 1..dir.index BY <1>0, CurrentType
  <2>3. dir.index \in 1..Len(index) BY <2>1
  <2>4. Current.gen \in 1..Len(index) BY <2>1, <2>2, <2>3
  <2>5. dir' \in [index : 1..Len(index), cache : 1..Len(index)] /\ dir'.index = dir.index
    BY <1>1, <2>1, <2>4
  <2> QED BY <1>1, <2>5 DEF Current
<1>6. faults' \in Nat /\ (faults' = 0 => faults = 0) BY <1>0, <1>1, FaultCounts DEF FilesOK
<1>7. OpOK(op'[p]) BY <1>3, <1>4 DEF OpOK, Phase, Expunges
<1>8. TypeInv'
  <2>1. FilesOK' BY <1>0, <1>1, <1>5, <1>6 DEF FilesOK
  <2>2. OpsOK' BY <1>0, <1>4, <1>7, OpsStep
  <2>3. LocksOK'
    <3>1. Header(op'[p]) => Header(op[p]) BY <1>3
    <3>2. op'[p].pc \notin Lockless \cup IndexPcs BY <1>4 DEF Lockless, IndexPcs
    <3> QED BY <1>0, <1>1, <1>4, <1>5, <3>1, <3>2, LocksKept
  <2>4. ASSUME NEW q \in Procs PROVE Work(op[q])'
    <3>1. ~Header(op[q]) \/ q = p BY <1>0, <1>3, Alone
    <3>2. /\ op'[q].pc # "append" /\ ~(op'[q].kind = "delayed" /\ op'[q].pc \in {"quota", "xheader"})
          /\ ~(/\ op'[q].kind \in Expunges \cup {"unexpunge"}
               /\ op'[q].pc \in {"lockindex", "records", "quota", "xheader", "renindex", "restore"})
      <4>1. CASE q = p BY <1>4, <4>1
      <4>2. CASE q # p
        <5>1. op'[q] = op[q] /\ ~Header(op[q]) /\ Phase(op[q])
          BY <1>0, <1>4, <3>1, <4>2 DEF Steps, OpsOK, OpOK
        <5> QED BY <5>1 DEF Header, Phase, Lockless, Expunges
      <4> QED BY <4>1, <4>2
    <3> QED BY <3>2 DEF Work, RoomAt, StagedAt, CopiedAt
  <2> QED BY <2>1, <2>2, <2>3, <2>4 DEF TypeInv, WorkOK
<1>9. ~Moving(op[p]) /\ ~Owing(op[p]) /\ ~Owing(op'[p]) BY <1>1, <1>3, <1>4 DEF Moving, Owing
<1>10. UidInv' BY <1>1, <1>4, <1>5, <1>9, UidStill
<1>11. FileInv'
  <2>1. ~Forced => DoomedAt(op[p]) BY DEF Inv, FileInv, Doomed
  <2>2. ~Forced => DoomedAt(op'[p]) BY <1>1, <1>3, <1>4, <2>1 DEF DoomedAt, Header, Lockless
  <2> QED BY <1>1, <1>4, <1>5, <2>2, FileStill
<1>12. QuotaInv' BY <1>1, <1>4, <1>5, <1>6, <1>9, QuotaStill
<1> QED BY <1>8, <1>10, <1>11, <1>12 DEF Inv

\* Beside a process that has the header locked the others do nothing that
\* depends on what it changes, but for the files they have yet to delete.
LEMMA Bystander ==
  ASSUME TypeInv, NEW p \in Procs, NEW q \in Procs, q # p, Header(op[p]), Steps(p)
  PROVE  /\ op'[q] = op[q] /\ ~Header(op[q]) /\ ~Owing(op[q]) /\ ~Moving(op[q])
         /\ Work(op[q])' /\ ~Owing(op[q])' /\ ~Moving(op'[q])
<1>1. op'[q] = op[q] /\ ~Header(op[q]) /\ Phase(op[q])
  BY Alone DEF TypeInv, Steps, OpsOK, OpOK
<1>2. /\ op[q].pc # "append" /\ ~(op[q].kind = "delayed" /\ op[q].pc \in {"quota", "xheader"})
      /\ ~(/\ op[q].kind \in Expunges \cup {"unexpunge"}
           /\ op[q].pc \in {"lockindex", "records", "quota", "xheader", "renindex", "restore"})
  BY <1>1 DEF Header, Phase, Lockless, Expunges
<1>3. ~Owing(op[q]) /\ ~Moving(op[q]) BY <1>1, OwingHeader DEF TypeInv
<1>4. Owing(op[q])' = Owing(op'[q]) BY DEF Owing
<1> QED BY <1>1, <1>2, <1>3, <1>4 DEF Work, RoomAt, StagedAt, CopiedAt

LEMMA UnlinkInv ==
  ASSUME Inv, NEW p \in Procs, unlink_messages(p)
  PROVE  Inv'
<1>0. TypeInv /\ LocksOK /\ OpsOK /\ FilesOK /\ WorkOK /\ UidInv BY DEF Inv, TypeInv
<1>1. /\ op[p].pc = "unlink"
      /\ UNCHANGED <<index, cache, dir, xfile, used, header_lock, index_lock, mid, faults, pub, torn>>
  BY DEF unlink_messages, history
<1>2. Current' = Current /\ dir'.index = dir.index BY <1>1 DEF Current
<1>3. CASE op[p].dels = {}
  <2>1. op' = [op EXCEPT ![p] = AfterExpunge(p)] /\ msgs' = msgs BY <1>3 DEF unlink_messages
  <2>2. Steps(p) /\ op'[p] = AfterExpunge(p) BY <1>0, <2>1 DEF OpsOK, Steps
  <2>3. UNCHANGED <<mail, used, header_lock, index_lock, mid, faults, history>>
    BY <1>1, <2>1 DEF mail, history
  <2> QED BY <1>1, <2>2, <2>3, AfterExpungeOK, SessionStep DEF Lockless
<1>4. CASE op[p].dels # {}
  <2>1. PICK u \in op[p].dels :
          msgs' = [msgs EXCEPT ![u] = NoFile] /\ op' = [op EXCEPT ![p].dels = @ \ {u}]
    BY <1>4 DEF unlink_messages
  <2>2. OpOK(op[p]) /\ u \in Uids /\ op[p].kind \in {"immediate", "cleanup"}
    BY <1>0, <1>1 DEF OpsOK, OpOK, Phase
  <2>3. /\ Steps(p) /\ DOMAIN op'[p] = Fields /\ op'[p].pc = "unlink" /\ op'[p].kind = op[p].kind
        /\ op'[p].n = op[p].n /\ op'[p].clen = op[p].clen /\ op'[p].flag = op[p].flag /\ op'[p].dels = op[p].dels \ {u}
    BY <1>0, <1>1, <2>1, <2>2 DEF OpsOK, OpOK, Steps, Fields
  <2>4. OpOK(op'[p]) BY <2>2, <2>3 DEF OpOK, Phase
  <2>5. u <= Current.last_uid BY <1>0 DEF UidInv, Bindings, LowAt
  <2>6. \A v \in Uids : msgs'[v] = IF v = u THEN NoFile ELSE msgs[v] BY <1>0, <2>1 DEF FilesOK
  <2>7. TypeInv'
    <3>1. 0 \in 0..MaxMid BY MailboxAssumption
    <3>2. FilesOK' BY <1>0, <1>1, <2>1, <3>1 DEF FilesOK, NoFile
    <3>3. OpsOK' BY <1>0, <2>3, <2>4, OpsStep
    <3>4. LocksOK'
      <4>1. ~Header(op'[p]) /\ op'[p].pc \notin IndexPcs /\ op[p].pc \in Lockless
        BY <1>1, <2>3 DEF Header, Lockless, IndexPcs
      <4> QED BY <1>0, <1>1, <1>2, <2>3, <4>1, LocksKept
    <3>5. ASSUME NEW q \in Procs PROVE Work(op[q])'
      <4>1. CASE q = p BY <2>3, <4>1 DEF Work, RoomAt, StagedAt, CopiedAt
      <4>2. CASE q # p
        <5>1. op'[q] = op[q] /\ Work(op[q]) /\ op[q].n \in Nat /\ Current.last_uid \in 0..MaxMid
          BY <1>0, <2>3, <4>2, CurrentType DEF Steps, WorkOK, OpsOK, OpOK
        <5>2. RoomAt(op[q])' BY <1>1, <5>1 DEF Work, RoomAt
        <5>3. StagedAt(op[q])'
          <6> SUFFICES ASSUME op[q].pc = "append" PROVE StagedAt(op[q])'
            BY <5>1 DEF StagedAt
          <6>1. Current.last_uid + op[q].n <= MaxMid BY <5>1 DEF Work, StagedAt
          <6>2. \A k \in 1..op[q].n : Current.last_uid + k \in Uids /\ Current.last_uid + k # u
            BY <2>2, <2>5, <5>1, <6>1, MailboxAssumption DEF Uids
          <6>3. \A k \in 1..op[q].n : msgs'[Current.last_uid + k] = msgs[Current.last_uid + k]
            BY <2>6, <6>2
          <6> QED BY <1>1, <1>2, <5>1, <6>3 DEF Work, StagedAt
        <5>4. CopiedAt(op[q])'
          <6>1. Drop(Live(Current), op[q].dels)' = Drop(Live(Current), op[q].dels) BY <1>2, <5>1
          <6> QED BY <1>1, <5>1, <6>1 DEF Work, CopiedAt
        <5> QED BY <5>2, <5>3, <5>4 DEF Work
      <4> QED BY <4>1, <4>2
    <3> QED BY <3>2, <3>3, <3>4, <3>5 DEF TypeInv, WorkOK
  <2>8. UidInv'
    <3>1. ASSUME NEW q \in Procs PROVE LowAt(op[q])'
      BY <1>0, <1>2, <2>3 DEF UidInv, Bindings, LowAt, Steps
    <3>2. Bindings' BY <1>0, <1>1, <1>2, <2>6, <3>1 DEF UidInv, Bindings, Bound
    <3>3. Ascending' BY <1>0, <1>1, <1>2 DEF UidInv, Ascending
    <3>4. Distinct' BY <1>0, <1>1 DEF UidInv, Distinct
    <3>5. Apart'
      <4>1. \A v : InIndex(v)' = InIndex(v) /\ InExpunge(v)' = InExpunge(v)
        BY <1>1, <1>2 DEF InIndex, InExpunge
      <4>2. ~Moving(op[p]) BY <1>1 DEF Moving
      <4>3. \A q \in Procs : Moving(op[q]) => op'[q] = op[q] BY <2>3, <4>2 DEF Steps
      <4>4. \A q \in Procs : Moving(op[q])' = Moving(op'[q]) BY DEF Moving
      <4> QED BY <1>0, <1>1, <4>1, <4>3, <4>4 DEF UidInv, Apart
    <3> QED BY <3>2, <3>3, <3>4, <3>5 DEF UidInv
  <2>9. FileInv'
    <3> SUFFICES ASSUME ~Forced PROVE Doomed' /\ MessageFiles' BY DEF FileInv
    <3>1. Doomed /\ MessageFiles BY DEF Inv, FileInv
    <3>2. \A v : InIndex(v)' = InIndex(v) /\ InExpunge(v)' = InExpunge(v) /\ Gone(v)' = Gone(v)
      BY <1>1, <1>2 DEF InIndex, InExpunge, Gone
    <3>3. Gone(u) BY <1>1, <2>2, <3>1 DEF Doomed, DoomedAt
    <3>4. ASSUME NEW q \in Procs PROVE DoomedAt(op[q])'
      <4>1. DoomedAt(op[q]) /\ op'[q].pc = op[q].pc /\ op'[q].kind = op[q].kind
            /\ op'[q].dels \subseteq op[q].dels
        BY <1>1, <2>3, <3>1 DEF Doomed, Steps
      <4> QED BY <1>1, <3>2, <4>1 DEF DoomedAt, Header
    <3>5. \A i \in 1..Current.exists : Current.recs[i].uid \in Uids
      BY <1>0, CurrentType DEF Records
    <3>6. \A i \in 1..xfile.exists : xfile.recs[i].uid \in Uids
      BY <1>0, ExpungedType DEF Records
    <3>7. MessageFiles'
      BY <1>1, <1>2, <2>6, <3>1, <3>3, <3>5, <3>6 DEF MessageFiles, Gone, InIndex, InExpunge
    <3> QED BY <3>4, <3>7 DEF Doomed
  <2>10. QuotaInv'
    <3>1. ~Owing(op[p]) /\ ~Owing(op'[p]) BY <1>1, <2>3 DEF Owing
    <3>2. faults' \in Nat /\ faults' = faults BY <1>0, <1>1 DEF FilesOK
    <3> QED BY <1>1, <1>2, <2>3, <3>1, <3>2, QuotaStill
  <2> QED BY <2>7, <2>8, <2>9, <2>10 DEF Inv
<1> QED BY <1>3, <1>4

-----------------------------------------------------------------------------
(* STORE                                                                   *)

\* A STORE changes the \Deleted flags and their count, under the lock of the
\* index and not of the header.
LEMMA StoreFlagInv ==
  ASSUME Inv, NEW p \in Procs, index_storeflag(p)
  PROVE  Inv'
<1>0. TypeInv /\ LocksOK /\ OpsOK /\ FilesOK /\ UidInv /\ QuotaInv BY DEF Inv, TypeInv
<1>1. /\ op[p].pc = "storeflag" /\ Release(p)
      /\ UNCHANGED <<cache, dir, xfile, msgs, used, mid, faults, pub, torn>>
  BY DEF index_storeflag, Has, history
<1> DEFINE Flagged(at, flag) == [i \in DOMAIN Current.recs |->
             IF i \in at THEN [Current.recs[i] EXCEPT !.del = flag] ELSE Current.recs[i]]
           ix(at, flag, n) == [Current EXCEPT !.deleted = @ + n, !.recs = Flagged(at, flag)]
<1>2. \/ index' = index
      \/ \E at \in SUBSET Int, flag \in BOOLEAN, n \in Int : index' = [index EXCEPT ![dir.index] = ix(at, flag, n)]
  <2>1. op[p].flag \in BOOLEAN BY <1>0 DEF OpsOK, OpOK
  <2> DEFINE uid == view[p].uids[op[p].msgno]
             at == {i \in 1..Current.exists : Current.recs[i].uid = uid}
             was == IF at # {} THEN Current.recs[CHOOSE i \in at : TRUE].del
                    ELSE index[view[p].ino].recs[op[p].msgno].del
             n == CASE op[p].flag /\ ~was -> 1 [] ~op[p].flag /\ was -> -1 [] OTHER -> 0
  <2>2. index' = IF at = {} /\ op[p].usinguid THEN index
                 ELSE [index EXCEPT
                   ![dir.index].deleted = @ + n,
                   ![dir.index].recs =
                      [i \in DOMAIN @ |-> IF i \in at THEN [@[i] EXCEPT !.del = op[p].flag]
                                          ELSE @[i]]]
    BY DEF index_storeflag
  <2>3. n \in Int
    <3> HIDE DEF was
    <3> QED BY <2>1
  <2>6. at \in SUBSET Int BY <1>0, CurrentType
  <2> HIDE DEF n, at
  <2>4. dir.index \in DOMAIN index /\ Current = index[dir.index]
    BY <1>0, CurrentType DEF FilesOK, Current
  <2>5. \/ index' = index \/ index' = [index EXCEPT ![dir.index] = ix(at, op[p].flag, n)]
    BY <2>2, <2>4 DEF Current
  <2> HIDE DEF ix
  <2> QED BY <2>1, <2>3, <2>5, <2>6
<1>3. Current \in IndexFiles /\ index \in Seq(IndexFiles) /\ dir.index \in 1..Len(index)
      /\ Current.recs \in Seq(Records) /\ Current = index[dir.index] /\ dir.index \in Inodes
  BY <1>0, CurrentType DEF FilesOK, Current
<1>4. /\ Current' \in IndexFiles /\ index' \in Seq(IndexFiles) /\ Len(index') = Len(index)
      /\ \A i \in 1..Len(index) : i # dir.index => index'[i] = index[i]
      /\ Current'.exists = Current.exists /\ Current'.last_uid = Current.last_uid
      /\ Current'.gen = Current.gen
      /\ Len(Current'.recs) = Len(Current.recs)
      /\ \A i \in 1..Len(Current.recs) : /\ Current'.recs[i].uid = Current.recs[i].uid
                                         /\ Current'.recs[i].mid = Current.recs[i].mid
  <2>1. CASE index' = index
    <3>1. Current' = Current BY <1>1, <2>1 DEF Current
    <3> QED BY <1>3, <2>1, <3>1
  <2>2. CASE \E at \in SUBSET Int, flag \in BOOLEAN, n \in Int : index' = [index EXCEPT ![dir.index] = ix(at, flag, n)]
    <3>1. PICK at \in SUBSET Int, flag \in BOOLEAN, n \in Int : index' = [index EXCEPT ![dir.index] = ix(at, flag, n)]
      BY <2>2
    <3> DEFINE r == Current.recs
    <3>2. r \in Seq(Records) BY <1>3
    <3>3. /\ Flagged(at, flag) \in Seq(Records) /\ Len(Flagged(at, flag)) = Len(r)
          /\ \A i \in 1..Len(r) : /\ Flagged(at, flag)[i].uid = r[i].uid
                                  /\ Flagged(at, flag)[i].mid = r[i].mid
      <4> HIDE DEF r
      <4> DEFINE f == [i \in DOMAIN r |-> IF i \in at THEN [r[i] EXCEPT !.del = flag] ELSE r[i]]
      <4>1. DOMAIN r = 1..Len(r) /\ Len(r) \in Nat /\ \A i \in 1..Len(r) : r[i] \in Records
        BY <3>2
      <4>2. ASSUME NEW i \in 1..Len(r)
            PROVE  f[i] \in Records /\ f[i].uid = r[i].uid /\ f[i].mid = r[i].mid
        BY <4>1 DEF Records
      <4>3. f \in Seq(Records) /\ Len(f) = Len(r)
        <5>1. f \in [1..Len(r) -> Records] BY <4>1, <4>2
        <5> HIDE DEF f
        <5> QED BY <4>1, <5>1
      <4>4. f = Flagged(at, flag) BY DEF r
      <4> QED BY <4>2, <4>3, <4>4
    <3> HIDE DEF Flagged, r
    <3>4. /\ ix(at, flag, n) \in IndexFiles /\ ix(at, flag, n).recs = Flagged(at, flag)
          /\ ix(at, flag, n).exists = Current.exists /\ ix(at, flag, n).last_uid = Current.last_uid
          /\ ix(at, flag, n).gen = Current.gen
      <4>0. Current \in IndexFiles BY <1>3
      <4>a. Current.deleted \in Int BY <4>0 DEF IndexFiles
      <4>1. Current.deleted + n \in Int BY <4>a
      <4> DEFINE F == Flagged(at, flag)
                 m == Current.deleted + n
      <4>2. F \in Seq(Records) /\ m \in Int BY <3>3, <4>1
      <4>3. ix(at, flag, n) = [Current EXCEPT !.deleted = m, !.recs = F] OBVIOUS
      <4> HIDE DEF F, m, ix
      <4>4. ix(at, flag, n) \in IndexFiles /\ ix(at, flag, n).recs = F
        BY <1>3, <4>2, <4>3 DEF IndexFiles
      <4>5. /\ ix(at, flag, n).exists = Current.exists /\ ix(at, flag, n).last_uid = Current.last_uid
            /\ ix(at, flag, n).gen = Current.gen
        BY <1>3, <4>3 DEF IndexFiles
      <4> QED BY <4>4, <4>5 DEF F
    <3> HIDE DEF ix
    <3>5. Current' = ix(at, flag, n) BY <1>1, <1>3, <3>1 DEF Current
    <3>6. /\ index' \in Seq(IndexFiles) /\ Len(index') = Len(index)
          /\ \A i \in 1..Len(index) : i # dir.index => index'[i] = index[i]
      BY <1>3, <3>1, <3>4
    <3> QED BY <3>3, <3>4, <3>5, <3>6 DEF r
  <2> QED BY <1>2, <2>1, <2>2
<1> HIDE DEF Flagged, ix
<1>5. Steps(p) /\ op'[p] = Idle BY <1>0, <1>1, ReleaseSteps
<1>6. Current.exists \in Nat /\ Current.exists <= Len(Current.recs) /\ Len(Current.recs) \in Nat
  BY <1>0, <1>3, CurrentType
<1>7. \A i \in 1..Current.exists : i \in 1..Len(Current.recs) BY <1>6
<1>8. \A q \in Procs : q # p => op'[q] = op[q] /\ op[q].pc \notin IndexPcs
  BY <1>0, <1>1, <1>5, Alone DEF Steps, IndexPcs
<1>9. TypeInv'
  <2>1. FilesOK'
    <3>1. index'[dir.index] = Current' BY <1>1 DEF Current
    <3>2. \A i \in 1..Len(index) : index'[i].exists <= Len(index'[i].recs) /\ index'[i].gen \in 1..i
      BY <1>0, <1>3, <1>4, <1>6, <3>1 DEF FilesOK
    <3> QED BY <1>0, <1>1, <1>4, <3>2 DEF FilesOK
  <2>2. OpsOK' BY <1>0, <1>5, IdleOK, OpsStep
  <2>3. LocksOK' BY <1>0, <1>1, <1>3, LocksReleased
  <2>4. ASSUME NEW q \in Procs PROVE Work(op[q])'
    <3>1. CASE q = p BY <1>5, <3>1, IdleOK DEF Work, RoomAt, StagedAt, CopiedAt
    <3>2. CASE q # p
      <4>1. op'[q] = op[q] /\ op[q].pc \notin IndexPcs BY <1>8, <3>2
      <4>2. RoomAt(op[q]) BY <1>0 DEF TypeInv, WorkOK, Work
      <4> QED BY <1>4, <4>1, <4>2 DEF Work, RoomAt, StagedAt, CopiedAt, IndexPcs
    <3> QED BY <3>1, <3>2
  <2> QED BY <2>1, <2>2, <2>3, <2>4 DEF TypeInv, WorkOK
<1>10. \A u : InIndex(u)' = InIndex(u) /\ InExpunge(u)' = InExpunge(u) /\ Gone(u)' = Gone(u)
  BY <1>1, <1>4, <1>7 DEF InIndex, InExpunge, Gone
<1>11. UidInv'
  <2>1. ASSUME NEW q \in Procs PROVE LowAt(op[q])'
    BY <1>0, <1>4, <1>5, IdleOK DEF UidInv, Bindings, LowAt, Steps
  <2>2. /\ \A i \in 1..Current.exists : Bound(Current.recs[i])
        /\ \A i \in 1..xfile.exists : Bound(xfile.recs[i])
        /\ \A u \in Uids : pub[u] # NoFile => u <= Current.last_uid /\ msgs[u] \in {NoFile, pub[u]}
    BY <1>0 DEF UidInv, Bindings
  <2>3. \A i \in 1..Current'.exists : Bound(Current.recs[i])'
    BY <1>1, <1>4, <1>7, <2>2 DEF Bound
  <2>4. \A i \in 1..xfile'.exists : Bound(xfile.recs[i])' BY <1>1, <1>4, <2>2 DEF Bound
  <2>5. Bindings' BY <1>1, <1>4, <2>1, <2>2, <2>3, <2>4 DEF Bindings
  <2>6. Ascending' BY <1>0, <1>1, <1>4, <1>7 DEF UidInv, Ascending
  <2>7. Distinct' BY <1>0, <1>1 DEF UidInv, Distinct
  <2>8. Apart'
    <3>1. ~Moving(op[p]) BY <1>1 DEF Moving
    <3>2. \A q \in Procs : Moving(op[q]) => op'[q] = op[q] BY <1>5, <3>1 DEF Steps
    <3>3. \A q \in Procs : Moving(op[q])' = Moving(op'[q]) BY DEF Moving
    <3> QED BY <1>0, <1>1, <1>10, <3>2, <3>3 DEF UidInv, Apart
  <2> QED BY <2>5, <2>6, <2>7, <2>8 DEF UidInv
<1>12. FileInv'
  <2> SUFFICES ASSUME ~Forced PROVE Doomed' /\ MessageFiles' BY DEF FileInv
  <2>1. Doomed /\ MessageFiles BY DEF Inv, FileInv
  <2>2. ASSUME NEW q \in Procs PROVE DoomedAt(op[q])'
    <3>1. CASE q = p BY <1>5, <3>1, IdleOK DEF DoomedAt, Header, Lockless
    <3>2. CASE q # p BY <1>1, <1>8, <1>10, <2>1, <3>2 DEF Doomed, DoomedAt, Header
    <3> QED BY <3>1, <3>2
  <2>3. MessageFiles' BY <1>1, <1>4, <1>7, <2>1 DEF MessageFiles
  <2> QED BY <2>2, <2>3 DEF Doomed
<1>13. QuotaInv'
  <2>1. ~Owing(op[p]) /\ ~Owing(op'[p]) BY <1>1, <1>5, IdleOK DEF Owing
  <2>2. Expunged' = Expunged BY <1>1 DEF Expunged
  <2>3. \A q \in Procs : Owing(op[q])' = Owing(op'[q]) BY DEF Owing
  <2>4. \A q \in Procs : q # p => Owing(op[q])' = Owing(op[q]) /\ Owed(op[q])' = Owed(op[q])
    BY <1>8, <2>2, <2>3 DEF Owed, IndexPcs
  <2> QED BY <1>0, <1>1, <1>4, <2>1, <2>3, <2>4 DEF QuotaInv
<1> QED BY <1>9, <1>11, <1>12, <1>13 DEF Inv

-----------------------------------------------------------------------------
(* Steps of the process that has the header locked                         *)

LEMMA HolderType ==
  ASSUME TypeInv, NEW p \in Procs, Header(op[p]), Steps(p), OpOK(op'[p]), FilesOK', LocksOK',
         Work(op[p])'
  PROVE  TypeInv'
<1>1. OpsOK' BY OpsStep DEF TypeInv
<1>2. ASSUME NEW q \in Procs PROVE Work(op[q])'
  <2>1. CASE q = p BY <2>1
  <2>2. CASE q # p BY <2>2, Bystander
  <2> QED BY <2>1, <2>2
<1> QED BY <1>1, <1>2 DEF TypeInv, WorkOK

\* The rule for UidInv: what is published above last_uid stays unpublished.
LEMMA HolderUid ==
  ASSUME Inv, NEW p \in Procs, Header(op[p]), Steps(p),
         Current.last_uid \in Int, Current'.last_uid \in Int, Current.last_uid <= Current'.last_uid,
         \A i \in 1..Current'.exists : Bound(Current.recs[i])',
         \A i \in 1..xfile'.exists : Bound(xfile.recs[i])',
         \A u \in Uids : pub'[u] # NoFile => u <= Current'.last_uid /\ msgs'[u] \in {NoFile, pub'[u]},
         \A u \in op'[p].dels : u <= Current'.last_uid,
         Ascending', Distinct',
         \A u \in Uids : InIndex(u)' /\ InExpunge(u)' =>
           u \in torn' \/ (Moving(op'[p]) /\ u \in op'[p].dels)
  PROVE  UidInv'
<1>1. ASSUME NEW q \in Procs PROVE LowAt(op[q])'
  <2>1. CASE q = p BY <2>1 DEF LowAt
  <2>2. CASE q # p
    <3>1. op'[q] = op[q] /\ LowAt(op[q]) /\ op[q].dels \subseteq Uids
      BY <2>2 DEF Steps, Inv, UidInv, Bindings, TypeInv, OpsOK, OpOK
    <3>2. Uids \subseteq Int BY MailboxAssumption DEF Uids
    <3>3. \A u \in op[q].dels : u <= Current.last_uid /\ u \in Int BY <3>1, <3>2 DEF LowAt
    <3>4. \A u \in op[q].dels : u <= Current'.last_uid BY <3>3
    <3> QED BY <3>1, <3>4 DEF LowAt
  <2> QED BY <2>1, <2>2
<1>2. Bindings' BY <1>1 DEF Bindings
<1>3. \A q \in Procs : Moving(op[q])' = Moving(op'[q]) BY DEF Moving
<1>4. Apart' BY <1>3 DEF Apart
<1> QED BY <1>2, <1>4 DEF UidInv

LEMMA HolderApart ==
  ASSUME Inv, NEW p \in Procs, Header(op[p]), NEW u \in Uids, InIndex(u), InExpunge(u)
  PROVE  u \in torn \/ (Moving(op[p]) /\ u \in op[p].dels)
<1>1. \A q \in Procs : q # p => ~Moving(op[q]) BY Alone, OwingHeader DEF Inv, TypeInv
<1> QED BY <1>1 DEF Inv, UidInv, Apart

LEMMA HolderFiles ==
  ASSUME Inv, NEW p \in Procs, Header(op[p]), Steps(p),
         ~Forced => (\A u \in Uids : u <= Current.last_uid /\ Gone(u) => Gone(u)'),
         ~Forced => DoomedAt(op[p])', ~Forced => MessageFiles'
  PROVE  FileInv'
<1> SUFFICES ASSUME ~Forced PROVE Doomed' /\ MessageFiles' BY DEF FileInv
<1>1. ASSUME NEW q \in Procs PROVE DoomedAt(op[q])'
  <2>1. CASE q = p BY <2>1
  <2>2. CASE q # p
    <3>1. op'[q] = op[q] /\ ~Header(op[q]) BY <2>2, Bystander DEF Inv
    <3>2. DoomedAt(op[q]) /\ LowAt(op[q]) /\ op[q].dels \subseteq Uids /\ Phase(op[q])
      BY DEF Inv, UidInv, FileInv, Doomed, Bindings, TypeInv, OpsOK, OpOK
    <3>3. op[q].kind \in {"immediate", "cleanup"} =>
            op[q].pc \notin {"unlock", "quota", "renindex", "rencache", "renexpunge"}
      BY <3>1 DEF Header, Lockless
    <3>4. \A u \in op[q].dels : Gone(u) => Gone(u)' BY <3>2 DEF LowAt
    <3>5. op[q].kind \in {"immediate", "cleanup"} /\ op[q].pc \in {"unlock", "unlink"} =>
            \A u \in op[q].dels : Gone(u)'
      BY <3>2, <3>4 DEF DoomedAt
    <3> QED BY <3>1, <3>3, <3>5 DEF DoomedAt, Header
  <2> QED BY <2>1, <2>2
<1> QED BY <1>1 DEF Doomed

LEMMA HolderQuota ==
  ASSUME Inv, NEW p \in Procs, Header(op[p]), Steps(p), used' <= Current'.exists,
         Owing(op'[p]) => used' + Owed(op[p])' <= Current'.exists,
         faults' = 0 => used' + (IF Owing(op'[p]) THEN Owed(op[p])' ELSE 0) = Current'.exists,
         used' \in Nat, Current'.exists \in Nat
  PROVE  QuotaInv'
<1>1. \A q \in Procs : q # p => ~Owing(op[q])' BY Bystander DEF Inv
<1>2. Owing(op[p])' = Owing(op'[p]) BY DEF Owing
<1>3. CASE Owing(op'[p])
  <2>1. /\ \A q \in Procs : Owing(op[q])' => used' + Owed(op[q])' <= Current'.exists
        /\ faults' = 0 => \A q \in Procs : Owing(op[q])' => used' + Owed(op[q])' = Current'.exists
    BY <1>1, <1>3
  <2>2. \E q \in Procs : Owing(op[q])' BY <1>2, <1>3
  <2> QED BY <2>1, <2>2 DEF QuotaInv
<1>4. CASE ~Owing(op'[p])
  <2>1. \A q \in Procs : ~Owing(op[q])' BY <1>1, <1>2, <1>4
  <2>2. faults' = 0 => used' = Current'.exists BY <1>4
  <2> QED BY <2>1, <2>2 DEF QuotaInv
<1> QED BY <1>3, <1>4

\* What QuotaInv says of the holder.
LEMMA HolderOwes ==
  ASSUME Inv, NEW p \in Procs, Header(op[p])
  PROVE  /\ used \in Nat /\ used <= Current.exists
         /\ Owing(op[p]) => used + Owed(op[p]) <= Current.exists
         /\ faults = 0 /\ Owing(op[p]) => used + Owed(op[p]) = Current.exists
         /\ faults = 0 /\ ~Owing(op[p]) => used = Current.exists
<1>1. \A q \in Procs : q # p => ~Owing(op[q]) BY Alone, OwingHeader DEF Inv, TypeInv
<1> QED BY <1>1 DEF Inv, QuotaInv, TypeInv, FilesOK

\* cyrus.index is written in place.
LEMMA IndexWritten ==
  ASSUME FilesOK, NEW ix \in IndexFiles, index' = [index EXCEPT ![dir.index] = ix], dir' = dir,
         ix.exists <= Len(ix.recs), ix.gen = Current.gen
  PROVE  /\ Current' = ix /\ index' \in Seq(IndexFiles) /\ Len(index') = Len(index)
         /\ \A i \in 1..Len(index') : index'[i].exists <= Len(index'[i].recs) /\ index'[i].gen \in 1..i
<1>1. index \in Seq(IndexFiles) /\ dir.index \in 1..Len(index) /\ Current.gen \in 1..dir.index
  BY CurrentType DEF FilesOK
<1>2. /\ index' \in Seq(IndexFiles) /\ Len(index') = Len(index) /\ index'[dir.index] = ix
      /\ \A i \in 1..Len(index) : i # dir.index => index'[i] = index[i]
  BY <1>1
<1>3. ASSUME NEW i \in 1..Len(index)
      PROVE  index'[i].exists <= Len(index'[i].recs) /\ index'[i].gen \in 1..i
  <2>1. CASE i = dir.index BY <1>1, <1>2, <2>1
  <2>2. CASE i # dir.index BY <1>2, <2>2 DEF FilesOK
  <2> QED BY <2>1, <2>2
<1> QED BY <1>2, <1>3 DEF Current

\* A new cyrus.index takes the name.
LEMMA IndexReplaced ==
  ASSUME FilesOK, NEW ix \in IndexFiles, index' = Append(index, ix),
         dir' = [dir EXCEPT !.index = Len(index) + 1],
         ix.exists <= Len(ix.recs), ix.gen \in 1..Len(index) + 1, Len(index) < MaxInodes
  PROVE  /\ Current' = ix /\ index' \in Seq(IndexFiles) /\ Len(index') <= MaxInodes
         /\ \A i \in 1..Len(index') : index'[i].exists <= Len(index'[i].recs) /\ index'[i].gen \in 1..i
         /\ dir' \in [index : 1..Len(index'), cache : 1..Len(index')]
<1>1. index \in Seq(IndexFiles) /\ dir \in [index : 1..Len(index), cache : 1..Len(index)]
  BY DEF FilesOK
<1>2. Len(index) \in Nat /\ MaxInodes \in Nat BY <1>1, MailboxAssumption
<1>3. /\ index' \in Seq(IndexFiles) /\ Len(index') = Len(index) + 1 /\ index'[Len(index) + 1] = ix
      /\ \A i \in 1..Len(index) : index'[i] = index[i]
  BY <1>1
<1>4. ASSUME NEW i \in 1..Len(index')
      PROVE  index'[i].exists <= Len(index'[i].recs) /\ index'[i].gen \in 1..i
  <2>1. CASE i = Len(index) + 1 BY <1>3, <2>1
  <2>2. CASE i # Len(index) + 1
    <3>1. i \in 1..Len(index) BY <1>2, <1>3, <2>2
    <3> QED BY <1>3, <3>1 DEF FilesOK
  <2> QED BY <2>1, <2>2
<1>5. dir' \in [index : 1..Len(index'), cache : 1..Len(index')] /\ dir'.index = Len(index) + 1
  BY <1>1, <1>2, <1>3
<1> QED BY <1>2, <1>3, <1>4, <1>5 DEF Current

-----------------------------------------------------------------------------
(* Append                                                                  *)

LEMMA AppendMessageInv ==
  ASSUME Inv, NEW p \in Procs, append_message(p)
  PROVE  Inv'
<1>0. TypeInv /\ LocksOK /\ OpsOK /\ FilesOK /\ UidInv /\ QuotaInv BY DEF Inv, TypeInv
<1> DEFINE n == op[p].n
           uid == Current.last_uid + n + 1
           off == Len(cache[dir.cache]) + 1
           r == Record(uid, mid + 1, off)
           at == Current.exists + n + 1
           recs == WriteAt(Current.recs, at, <<r>>)
           ix == [Current EXCEPT !.recs = recs]
<1>1. dir.index \in DOMAIN index /\ Current = index[dir.index]
  BY <1>0, CurrentType DEF FilesOK, Current
<1>2. /\ op[p].pc = "append" /\ mid < MaxMid /\ uid \in Uids /\ mid' = mid + 1
      /\ msgs' = [msgs EXCEPT ![uid] = mid + 1]
      /\ cache' = [cache EXCEPT ![dir.cache] = Append(@, mid + 1)]
      /\ op' = [op EXCEPT ![p].n = @ + 1]
      /\ UNCHANGED <<dir, xfile, used, header_lock, index_lock, faults, pub, torn>>
  BY DEF append_message, history
<1>3. index' = [index EXCEPT ![dir.index] = ix] BY <1>1 DEF append_message
<1>4. OpOK(op[p]) /\ op[p].kind = "append" /\ n \in Nat /\ Work(op[p]) /\ Header(op[p])
      /\ op[p].clen \in Nat
  BY <1>0, <1>2 DEF OpsOK, OpOK, Phase, TypeInv, WorkOK, Header, Lockless
<1>5. /\ op[p].clen <= Len(cache[dir.cache]) /\ Current.exists + n <= Len(Current.recs)
      /\ \A k \in 1..n : /\ Current.recs[Current.exists + k].uid = Current.last_uid + k
                         /\ Current.recs[Current.exists + k].mid = msgs[Current.last_uid + k]
  BY <1>2, <1>4 DEF Work, StagedAt
<1>6. /\ Current \in IndexFiles /\ Current.recs \in Seq(Records) /\ Current.exists \in Nat
      /\ Current.exists <= Len(Current.recs) /\ Current.last_uid \in 0..MaxMid
      /\ Current.last_uid \in Int /\ dir.cache \in Inodes /\ Len(Current.recs) \in Nat
  BY <1>0, CurrentType, MailboxAssumption
<1>7. cache \in [Inodes -> Seq(Nat)] /\ cache[dir.cache] \in Seq(Nat) /\ mid \in 0..MaxMid
      /\ msgs \in [Uids -> 0..MaxMid] /\ MaxMid \in Nat /\ used \in Nat
  BY <1>0, <1>6, MailboxAssumption DEF FilesOK
<1>8. mid + 1 \in 1..MaxMid /\ mid + 1 \in Nat /\ off \in Nat BY <1>2, <1>7
<1>9. r \in Records /\ r.uid = uid /\ r.mid = mid + 1 BY <1>2, <1>8 DEF Records, Record
<1> HIDE DEF r
<1>10. <<r>> \in Seq(Records) /\ Len(<<r>>) = 1 /\ <<r>>[1] = r BY <1>9
<1>11. at \in 1..Len(Current.recs) + 1 BY <1>4, <1>5, <1>6
<1>12. /\ recs \in Seq(Records) /\ Len(recs) >= at /\ Len(recs) >= Len(Current.recs)
       /\ \A i \in 1..Current.exists + n : recs[i] = Current.recs[i]
       /\ recs[at] = r
  <2> HIDE DEF at
  <2>1. /\ recs \in Seq(Records) /\ Len(recs) >= at - 1 + 1 /\ Len(recs) >= Len(Current.recs)
        /\ \A i \in 1..at - 1 : recs[i] = Current.recs[i]
        /\ \A i \in 1..1 : recs[at - 1 + i] = <<r>>[i]
    BY <1>6, <1>10, <1>11, WriteAtFacts
  <2>2. at \in Nat /\ at - 1 + 1 = at /\ at - 1 = Current.exists + n BY <1>4, <1>6, <1>11 DEF at
  <2>3. recs[at - 1 + 1] = r BY <1>10, <2>1
  <2> QED BY <2>1, <2>2, <2>3
<1> HIDE DEF recs
<1>13. /\ ix \in IndexFiles /\ ix.recs = recs /\ ix.exists = Current.exists
       /\ ix.last_uid = Current.last_uid /\ ix.gen = Current.gen
  BY <1>6, <1>12 DEF IndexFiles
<1> HIDE DEF ix
<1>14. ix.exists <= Len(ix.recs) BY <1>6, <1>12, <1>13
<1>15. /\ Current' = ix /\ index' \in Seq(IndexFiles) /\ Len(index') = Len(index)
       /\ \A i \in 1..Len(index') : index'[i].exists <= Len(index'[i].recs) /\ index'[i].gen \in 1..i
  BY <1>0, <1>2, <1>3, <1>13, <1>14, IndexWritten
<1>16. /\ Steps(p) /\ DOMAIN op'[p] = Fields /\ op'[p].pc = "append" /\ op'[p].kind = "append"
       /\ op'[p].n = n + 1 /\ op'[p].clen = op[p].clen /\ op'[p].flag = op[p].flag
       /\ op'[p].dels = op[p].dels
  BY <1>0, <1>2, <1>4 DEF OpsOK, OpOK, Steps, Fields
<1>17. OpOK(op'[p]) BY <1>4, <1>16 DEF OpOK, Phase
<1>18. \A i \in 1..Current.exists : Current'.recs[i] = Current.recs[i]
  BY <1>4, <1>6, <1>12, <1>13, <1>15
<1>19. \A v \in Uids : msgs'[v] = IF v = uid THEN mid + 1 ELSE msgs[v] BY <1>2, <1>7
<1>20. \A v \in Uids : v <= Current.last_uid => msgs'[v] = msgs[v]
  BY <1>4, <1>6, <1>19, MailboxAssumption DEF Uids
<1>21. TypeInv'
  <2>1. msgs' \in [Uids -> 0..MaxMid] /\ cache' \in [Inodes -> Seq(Nat)] /\ mid' \in 0..MaxMid
    <3>1. mid + 1 \in 0..MaxMid BY <1>8
    <3>2. Append(cache[dir.cache], mid + 1) \in Seq(Nat) BY <1>7, <1>8
    <3> QED BY <1>2, <1>7, <3>1, <3>2
  <2>2. FilesOK' BY <1>0, <1>2, <1>15, <2>1 DEF FilesOK
  <2>3. LocksOK'
    <3>1. Header(op'[p]) => Header(op[p]) BY <1>4
    <3>2. op[p].pc = op'[p].pc BY <1>2, <1>16
    <3> QED BY <1>0, <1>2, <1>16, <3>1, <3>2, LocksKept
  <2>4. StagedAt(op[p])'
    <3>1. op'[p].clen <= Len(cache'[dir'.cache])
      <4>1. cache'[dir'.cache] = Append(cache[dir.cache], mid + 1) BY <1>2, <1>6, <1>7
      <4>2. Len(Append(cache[dir.cache], mid + 1)) = Len(cache[dir.cache]) + 1
            /\ Len(cache[dir.cache]) \in Nat BY <1>7
      <4> QED BY <1>4, <1>5, <1>16, <4>1, <4>2
    <3>2. Current'.last_uid + op'[p].n <= MaxMid
      BY <1>2, <1>4, <1>6, <1>7, <1>13, <1>15, <1>16 DEF Uids
    <3>3. Current'.exists + op'[p].n <= Len(Current'.recs)
      <4>1. Len(recs) \in Nat /\ Current'.recs = recs /\ Current'.exists = Current.exists
        BY <1>12, <1>13, <1>15
      <4> QED BY <1>4, <1>6, <1>12, <1>16, <4>1
    <3>4. ASSUME NEW k \in 1..op'[p].n
          PROVE  /\ Current'.recs[Current'.exists + k].uid = Current'.last_uid + k
                 /\ Current'.recs[Current'.exists + k].mid = msgs'[Current'.last_uid + k]
      <4>1. Current'.recs = recs /\ Current'.exists = Current.exists
            /\ Current'.last_uid = Current.last_uid
        BY <1>13, <1>15
      <4>2. CASE k = n + 1
        <5>0. Current.exists \in Int /\ Current.last_uid \in Int /\ n \in Int BY <1>4, <1>6
        <5>1. Current.exists + k = at /\ Current.last_uid + k = uid BY <4>2, <5>0
        <5>2. msgs'[uid] = mid + 1 BY <1>2, <1>19
        <5> HIDE DEF at, uid
        <5> QED BY <1>9, <1>12, <4>1, <5>1, <5>2
      <4>3. CASE k # n + 1
        <5>1. k \in 1..n BY <1>4, <1>16, <4>3
        <5>2. Current.exists + k \in 1..Current.exists + n BY <1>4, <1>6, <5>1
        <5>3. recs[Current.exists + k] = Current.recs[Current.exists + k] BY <1>12, <5>2
        <5>4. Current.last_uid + k \in Uids /\ Current.last_uid + k # uid
          <6> DEFINE l == Current.last_uid
          <6>1. l \in 0..MaxMid /\ MaxMid \in Nat /\ n \in Nat /\ k \in 1..n /\ l + n + 1 \in 1..MaxMid
            BY <1>2, <1>4, <1>6, <1>7, <5>1 DEF Uids
          <6> HIDE DEF l, n
          <6>2. l + k \in 1..MaxMid /\ l + k # l + n + 1 BY <6>1
          <6> QED BY <6>2 DEF Uids, l, n
        <5>5. msgs'[Current.last_uid + k] = msgs[Current.last_uid + k] BY <1>19, <5>4
        <5> HIDE DEF n
        <5> QED BY <1>5, <4>1, <5>1, <5>3, <5>5
      <4> QED BY <4>2, <4>3
    <3> QED BY <3>1, <3>2, <3>3, <3>4 DEF StagedAt
  <2>5. Work(op[p])' BY <1>16, <2>4 DEF Work, RoomAt, CopiedAt, Expunges
  <2> QED BY <1>0, <1>4, <1>16, <1>17, <2>2, <2>3, <2>5, HolderType
<1>22. Current'.exists = Current.exists /\ Current'.last_uid = Current.last_uid BY <1>13, <1>15
<1>23. \A v : InIndex(v)' = InIndex(v) /\ InExpunge(v)' = InExpunge(v) /\ Gone(v)' = Gone(v)
  BY <1>2, <1>18, <1>22 DEF InIndex, InExpunge, Gone
<1>24. ~Moving(op[p]) /\ ~Moving(op'[p]) /\ ~Owing(op[p]) /\ ~Owing(op'[p])
  BY <1>2, <1>16 DEF Moving, Owing
<1>25. UidInv'
  <2>1. /\ \A i \in 1..Current.exists : Bound(Current.recs[i])
        /\ \A i \in 1..xfile.exists : Bound(xfile.recs[i])
        /\ \A u \in Uids : pub[u] # NoFile => u <= Current.last_uid /\ msgs[u] \in {NoFile, pub[u]}
        /\ LowAt(op[p])
    BY <1>0 DEF UidInv, Bindings
  <2>2. \A i \in 1..Current'.exists : Bound(Current.recs[i])'
    BY <1>2, <1>18, <1>22, <2>1 DEF Bound
  <2>3. \A i \in 1..xfile'.exists : Bound(xfile.recs[i])' BY <1>2, <1>22, <2>1 DEF Bound
  <2>4. \A u \in Uids : pub'[u] # NoFile => u <= Current'.last_uid /\ msgs'[u] \in {NoFile, pub'[u]}
    BY <1>2, <1>20, <1>22, <2>1
  <2>5. \A u \in op'[p].dels : u <= Current'.last_uid BY <1>16, <1>22, <2>1 DEF LowAt
  <2>6. Ascending' BY <1>0, <1>2, <1>18, <1>22 DEF UidInv, Ascending
  <2>7. Distinct' BY <1>0, <1>2 DEF UidInv, Distinct
  <2>8. \A u \in Uids : InIndex(u)' /\ InExpunge(u)' => u \in torn'
    BY <1>2, <1>4, <1>23, <1>24, HolderApart
  <2>9. Current.last_uid <= Current'.last_uid /\ Current'.last_uid \in Int BY <1>6, <1>22
  <2> QED BY <1>4, <1>6, <1>16, <2>2, <2>3, <2>4, <2>5, <2>6, <2>7, <2>8, <2>9, HolderUid
<1>26. FileInv'
  <2>1. DoomedAt(op[p])' BY <1>16 DEF DoomedAt
  <2>2. ASSUME ~Forced PROVE MessageFiles'
    <3>1. MessageFiles BY <2>2 DEF Inv, FileInv
    <3>2. \A i \in 1..Current.exists : Current.recs[i].uid \in Uids /\ Current.recs[i].uid <= Current.last_uid
      BY <1>0, CurrentType DEF Records, UidInv, Bindings, Bound
    <3>3. \A i \in 1..xfile.exists : xfile.recs[i].uid \in Uids /\ xfile.recs[i].uid <= Current.last_uid
      BY <1>0, ExpungedType DEF Records, UidInv, Bindings, Bound
    <3> QED BY <1>2, <1>18, <1>20, <1>22, <3>1, <3>2, <3>3 DEF MessageFiles
  <2> QED BY <1>4, <1>16, <1>23, <2>1, <2>2, HolderFiles
<1>27. QuotaInv'
  <2>1. used <= Current.exists /\ (faults = 0 => used = Current.exists)
    BY <1>4, <1>24, HolderOwes
  <2>2. used' \in Nat /\ Current'.exists \in Nat /\ used' <= Current'.exists
        /\ (faults' = 0 => used' + 0 = Current'.exists)
    BY <1>2, <1>6, <1>7, <1>22, <2>1
  <2> QED BY <1>4, <1>16, <1>24, <2>2, HolderQuota
<1> QED BY <1>21, <1>25, <1>26, <1>27 DEF Inv

LEMMA AppendCommitInv ==
  ASSUME Inv, NEW p \in Procs, append_commit(p)
  PROVE  Inv'
<1>0. TypeInv /\ LocksOK /\ OpsOK /\ FilesOK /\ UidInv /\ QuotaInv BY DEF Inv, TypeInv
<1> DEFINE n == op[p].n
           e == Current.exists
           l == Current.last_uid
           ix == [Current EXCEPT !.exists = e + n, !.last_uid = l + n]
<1>1. dir.index \in DOMAIN index /\ Current = index[dir.index]
  BY <1>0, CurrentType DEF FilesOK, Current
<1>2. /\ op[p].pc = "append" /\ n > 0 /\ Step(p, "commitquota")
      /\ pub' = [u \in Uids |-> IF u \in l + 1..l + n THEN msgs[u] ELSE pub[u]]
      /\ UNCHANGED <<cache, dir, xfile, msgs, used, header_lock, index_lock, mid, faults, torn>>
  BY DEF append_commit
<1>3. index' = [index EXCEPT ![dir.index] = ix] BY <1>1 DEF append_commit
<1>4. OpOK(op[p]) /\ op[p].kind = "append" /\ n \in Nat /\ Work(op[p]) /\ Header(op[p])
  BY <1>0, <1>2 DEF OpsOK, OpOK, Phase, TypeInv, WorkOK, Header, Lockless
<1>5. /\ l + n <= MaxMid /\ e + n <= Len(Current.recs)
      /\ \A k \in 1..n : Current.recs[e + k].uid = l + k /\ Current.recs[e + k].mid = msgs[l + k]
  BY <1>2, <1>4 DEF Work, StagedAt
<1>6. Current \in IndexFiles /\ Current.recs \in Seq(Records)
  BY <1>0, CurrentType
<1>7. e \in Nat /\ l \in Nat /\ n \in Nat /\ Len(Current.recs) \in Nat /\ MaxMid \in Nat /\ e + n \in Nat
      /\ l + n \in 0..MaxMid
  <2>1. e \in Nat /\ l \in 0..MaxMid /\ MaxMid \in Nat /\ Len(Current.recs) \in Nat
    BY <1>0, <1>6, CurrentType, MailboxAssumption
  <2>2. l + n <= MaxMid /\ n \in Nat BY <1>4, <1>5
  <2> HIDE DEF l, n, e
  <2> QED BY <2>1, <2>2
<1>8. msgs \in [Uids -> 0..MaxMid] /\ pub \in [Uids -> 0..MaxMid] /\ used \in Nat
  BY <1>0 DEF FilesOK
<1> HIDE DEF e, l, n
<1>9. /\ ix \in IndexFiles /\ ix.recs = Current.recs /\ ix.exists = e + n
       /\ ix.last_uid = l + n /\ ix.gen = Current.gen
  BY <1>6, <1>7 DEF IndexFiles
<1> HIDE DEF ix
<1>10. ix.exists <= Len(ix.recs) BY <1>5, <1>9
<1>11. /\ Current' = ix /\ index' \in Seq(IndexFiles) /\ Len(index') = Len(index)
       /\ \A i \in 1..Len(index') : index'[i].exists <= Len(index'[i].recs) /\ index'[i].gen \in 1..i
  BY <1>0, <1>2, <1>3, <1>9, <1>10, IndexWritten
<1>12. /\ Steps(p) /\ op'[p].pc = "commitquota" /\ op'[p].kind = "append" /\ op'[p].n = n
       /\ op'[p].dels = op[p].dels /\ OpOK(op'[p])
  <2>1. GoesOn(p, "commitquota") BY <1>0, <1>2, StepGoesOn
  <2> QED BY <1>4, <2>1 DEF GoesOn, OpOK, Phase, n
<1>13. Current'.recs = Current.recs /\ Current'.exists = e + n /\ Current'.last_uid = l + n
  BY <1>9, <1>11
<1>14. ASSUME NEW i \in 1..e + n
       PROVE  i \in 1..e \/ \E k \in 1..n : i = e + k
  <2>1. CASE i <= e BY <1>7, <2>1
  <2>2. CASE ~(i <= e)
    <3>1. i - e \in 1..n /\ i = e + (i - e) BY <1>7, <2>2
    <3> QED BY <3>1
  <2> QED BY <2>1, <2>2
<1>15. \A u \in Uids : u \in Nat /\ (u <= l => pub'[u] = pub[u])
  BY <1>2, <1>7 DEF Uids
<1>16. \A k \in 1..n : l + k \in Uids /\ pub'[l + k] = msgs[l + k] /\ l < l + k
  <2>1. ASSUME NEW k \in 1..n PROVE l + k \in Uids /\ l + k \in l + 1..l + n /\ l < l + k
    BY <1>7 DEF Uids
  <2> QED BY <1>2, <2>1
<1>17. TypeInv'
  <2>1. pub' \in [Uids -> 0..MaxMid] BY <1>2, <1>8
  <2>2. FilesOK' BY <1>0, <1>2, <1>11, <2>1 DEF FilesOK
  <2>3. LocksOK'
    <3>1. Header(op'[p]) => Header(op[p]) BY <1>4
    <3>2. op[p].pc \in IndexPcs /\ op'[p].pc \notin Lockless BY <1>2, <1>12 DEF IndexPcs, Lockless
    <3> QED BY <1>0, <1>2, <1>12, <3>1, <3>2, LocksKept
  <2>4. Work(op[p])' BY <1>12 DEF Work, RoomAt, StagedAt, CopiedAt, Expunges
  <2> QED BY <1>0, <1>4, <1>12, <2>2, <2>3, <2>4, HolderType
<1>18. ~Moving(op[p]) /\ ~Moving(op'[p]) /\ ~Owing(op[p]) /\ Owing(op'[p])
  BY <1>2, <1>12 DEF Moving, Owing
<1>19. /\ \A i \in 1..e : Bound(Current.recs[i]) /\ Current.recs[i].uid \in Uids
       /\ \A i \in 1..xfile.exists : Bound(xfile.recs[i]) /\ xfile.recs[i].uid \in Uids
       /\ \A u \in Uids : pub[u] # NoFile => u <= l /\ msgs[u] \in {NoFile, pub[u]}
       /\ LowAt(op[p])
  BY <1>0, CurrentType, ExpungedType DEF UidInv, Bindings, Records, e, l
<1>20. \A i \in 1..e : Current.recs[i].mid = pub[Current.recs[i].uid] /\ Current.recs[i].uid <= l
  BY <1>19 DEF Bound, l
<1>21. \A i \in 1..xfile.exists : xfile.recs[i].mid = pub[xfile.recs[i].uid] /\ xfile.recs[i].uid <= l
  BY <1>19 DEF Bound, l
<1>22. \A u \in Uids : u <= l => u <= l + n BY <1>7, <1>15
<1>23. \A u \in Uids : InIndex(u)' => InIndex(u) \/ ~(u <= l)
  <2> SUFFICES ASSUME NEW u \in Uids, NEW i \in 1..e + n, Current.recs[i].uid = u, u <= l PROVE InIndex(u)
    BY <1>13 DEF InIndex
  <2>1. CASE i \in 1..e BY <2>1 DEF InIndex, e
  <2>2. CASE \E k \in 1..n : i = e + k
    <3>1. PICK k \in 1..n : i = e + k BY <2>2
    <3>2. u = l + k /\ l < l + k BY <1>5, <1>16, <3>1
    <3>3. l + k \in Int BY <1>7
    <3> QED BY <1>7, <3>2, <3>3
  <2> QED BY <1>14, <2>1, <2>2
<1>24. \A u : InExpunge(u)' = InExpunge(u) BY <1>2 DEF InExpunge
<1>25. UidInv'
  <2>1. ASSUME NEW i \in 1..Current'.exists PROVE Bound(Current.recs[i])'
    <3>1. i \in 1..e + n BY <1>13
    <3>2. CASE i \in 1..e
      <4>1. Current.recs[i].mid = pub'[Current.recs[i].uid] /\ Current.recs[i].uid <= l + n
        BY <1>15, <1>19, <1>20, <1>22, <3>2
      <4> QED BY <1>13, <4>1 DEF Bound
    <3>3. CASE \E k \in 1..n : i = e + k
      <4>1. PICK k \in 1..n : i = e + k BY <3>3
      <4>2. Current.recs[i].uid = l + k /\ Current.recs[i].mid = pub'[l + k] BY <1>5, <1>16, <4>1
      <4>3. l + k <= l + n BY <1>7
      <4> QED BY <1>13, <4>2, <4>3 DEF Bound
    <3> QED BY <1>14, <3>1, <3>2, <3>3
  <2>2. \A i \in 1..xfile'.exists : Bound(xfile.recs[i])'
    BY <1>2, <1>13, <1>15, <1>19, <1>21, <1>22 DEF Bound
  <2>3. ASSUME NEW u \in Uids, pub'[u] # NoFile
        PROVE  u <= Current'.last_uid /\ msgs'[u] \in {NoFile, pub'[u]}
    <3>1. CASE u \in l + 1..l + n
      <4>1. pub'[u] = msgs[u] /\ u <= l + n BY <1>2, <1>7, <3>1
      <4> QED BY <1>2, <1>13, <4>1
    <3>2. CASE u \notin l + 1..l + n
      <4>1. pub'[u] = pub[u] BY <1>2, <3>2
      <4> QED BY <1>2, <1>13, <1>19, <1>22, <2>3, <4>1
    <3> QED BY <3>1, <3>2
  <2>4. \A u \in op'[p].dels : u <= Current'.last_uid
    <3>1. \A u \in op[p].dels : u \in Uids /\ u <= l BY <1>4, <1>19 DEF LowAt, OpOK, l
    <3> QED BY <1>12, <1>13, <1>22, <3>1
  <2>5. Ascending'
    <3> SUFFICES ASSUME NEW i \in 1..e + n, NEW j \in 1..e + n, i < j
                 PROVE  \/ Current.recs[i].uid < Current.recs[j].uid
                        \/ Current.recs[i].uid = Current.recs[j].uid /\ Current.recs[i].uid \in torn
      BY <1>2, <1>13 DEF Ascending
    <3>1. CASE j \in 1..e
      <4>1. i \in 1..e BY <1>7, <3>1
      <4> QED BY <1>0, <3>1, <4>1 DEF UidInv, Ascending, e
    <3>2. CASE \E k \in 1..n : j = e + k
      <4>1. PICK k \in 1..n : j = e + k BY <3>2
      <4>2. Current.recs[j].uid = l + k BY <1>5, <4>1
      <4>3. CASE i \in 1..e
        <5>1. Current.recs[i].uid \in Nat /\ Current.recs[i].uid <= l BY <1>15, <1>19, <1>20, <4>3
        <5>2. l < l + k /\ l + k \in Nat BY <1>7
        <5> QED BY <1>7, <4>2, <5>1, <5>2
      <4>4. CASE \E m \in 1..n : i = e + m
        <5>1. PICK m \in 1..n : i = e + m BY <4>4
        <5>2. Current.recs[i].uid = l + m BY <1>5, <5>1
        <5> QED BY <1>7, <4>1, <4>2, <5>1, <5>2
      <4> QED BY <1>14, <4>3, <4>4
    <3> QED BY <1>14, <3>1, <3>2
  <2>6. Distinct' BY <1>0, <1>2 DEF UidInv, Distinct
  <2>7. ASSUME NEW u \in Uids, InIndex(u)', InExpunge(u)' PROVE u \in torn'
    <3>1. InExpunge(u) /\ u <= l BY <1>21, <1>24, <2>7 DEF InExpunge
    <3>2. InIndex(u) BY <1>23, <2>7, <3>1
    <3> QED BY <1>2, <1>4, <1>18, <3>1, <3>2, HolderApart
  <2>8. Current.last_uid <= Current'.last_uid /\ Current'.last_uid \in Int /\ Current.last_uid \in Int
    <3>1. l <= l + n /\ l + n \in Int /\ l \in Int BY <1>7
    <3> QED BY <1>13, <3>1 DEF l
  <2> QED BY <1>4, <1>12, <2>1, <2>2, <2>3, <2>4, <2>5, <2>6, <2>7, <2>8, HolderUid
<1>26. FileInv'
  <2>1. DoomedAt(op[p])' BY <1>12 DEF DoomedAt
  <2>2. ASSUME ~Forced PROVE MessageFiles'
    <3>1. MessageFiles BY <2>2 DEF Inv, FileInv
    <3>2. ASSUME NEW i \in 1..e + n
          PROVE  Current.recs[i].uid \in torn \/ msgs[Current.recs[i].uid] = Current.recs[i].mid
      <4>1. CASE i \in 1..e BY <3>1, <4>1 DEF MessageFiles, e
      <4>2. CASE \E k \in 1..n : i = e + k BY <1>5, <4>2
      <4> QED BY <1>14, <4>1, <4>2
    <3> QED BY <1>2, <1>13, <3>1, <3>2 DEF MessageFiles
  <2>3. \A u \in Uids : u <= Current.last_uid /\ Gone(u) => Gone(u)'
    BY <1>2, <1>23, <1>24 DEF Gone, l
  <2> QED BY <1>4, <1>12, <2>1, <2>2, <2>3, HolderFiles
<1>27. QuotaInv'
  <2>1. used <= e /\ (faults = 0 => used = e) BY <1>4, <1>18, HolderOwes DEF e
  <2>2. Owed(op[p])' = n BY <1>12 DEF Owed
  <2>3. /\ used' \in Nat /\ Current'.exists \in Nat /\ used' <= Current'.exists
        /\ used' + n <= Current'.exists /\ (faults' = 0 => used' + n = Current'.exists)
    BY <1>2, <1>7, <1>8, <1>13, <2>1
  <2> QED BY <1>4, <1>12, <1>18, <2>2, <2>3, HolderQuota
<1> QED BY <1>17, <1>25, <1>26, <1>27 DEF Inv

LEMMA AppendAbortInv ==
  ASSUME Inv, NEW p \in Procs, append_abort(p)
  PROVE  Inv'
<1>0. TypeInv /\ LocksOK /\ OpsOK /\ FilesOK /\ UidInv /\ QuotaInv BY DEF Inv, TypeInv
<1>1. /\ op[p].pc = "append" /\ Release(p)
      /\ cache' = [cache EXCEPT ![dir.cache] = SubSeq(@, 1, op[p].clen)]
      /\ UNCHANGED <<index, dir, xfile, used, mid, pub, torn>>
      /\ Fault \/ faults' = faults
  BY DEF append_abort, history
<1>2. OpOK(op[p]) /\ op[p].kind = "append" /\ op[p].n \in Nat /\ op[p].clen \in Nat /\ Work(op[p])
      /\ Header(op[p])
  BY <1>0, <1>1 DEF OpsOK, OpOK, Phase, TypeInv, WorkOK, Header, Lockless
<1>3. /\ Current.last_uid \in Nat /\ Current.exists \in Nat /\ dir.index \in Inodes
      /\ MaxMid \in Nat /\ dir.cache \in Inodes /\ used \in Nat
      /\ msgs \in [Uids -> 0..MaxMid] /\ cache \in [Inodes -> Seq(Nat)]
  <2>1. Current.last_uid \in 0..MaxMid /\ MaxMid \in Nat BY <1>0, CurrentType, MailboxAssumption
  <2>2. Current.last_uid \in Nat BY <2>1
  <2>3. Current.exists \in Nat /\ dir.index \in Inodes /\ dir.cache \in Inodes
    BY <1>0, CurrentType
  <2> QED BY <1>0, <2>1, <2>2, <2>3 DEF FilesOK
<1>4. PICK advanced \in BOOLEAN :
        LET first == Current.last_uid + (IF advanced THEN op[p].n ELSE 0) + 1
        IN msgs' = [u \in Uids |-> IF u \in first..first + op[p].n - 1 THEN NoFile ELSE msgs[u]]
  BY DEF append_abort
<1> DEFINE first == Current.last_uid + (IF advanced THEN op[p].n ELSE 0) + 1
<1>5. first \in Nat /\ Current.last_uid < first BY <1>2, <1>3
<1>6. \A u \in Uids : u <= Current.last_uid => msgs'[u] = msgs[u] BY <1>3, <1>4, <1>5 DEF Uids
<1>7. Current' = Current /\ dir'.index = dir.index BY <1>1 DEF Current
<1>8. Steps(p) /\ op'[p] = Idle BY <1>0, <1>1, ReleaseSteps
<1>9. faults' \in Nat /\ (faults' = 0 => faults = 0) BY <1>0, <1>1, FaultCounts DEF FilesOK
<1>10. TypeInv'
  <2>1. msgs' \in [Uids -> 0..MaxMid] BY <1>3, <1>4 DEF NoFile
  <2>2. cache' \in [Inodes -> Seq(Nat)]
    <3>1. cache[dir.cache] \in Seq(Nat) BY <1>3
    <3>2. SubSeq(cache[dir.cache], 1, op[p].clen) \in Seq(Nat)
      <4>1. op[p].clen <= Len(cache[dir.cache]) BY <1>1, <1>2 DEF Work, StagedAt
      <4> QED BY <1>2, <3>1, <4>1
    <3> QED BY <1>1, <1>3, <3>2
  <2>3. FilesOK' BY <1>0, <1>1, <1>9, <2>1, <2>2 DEF FilesOK
  <2>4. LocksOK' BY <1>0, <1>1, <1>3, <1>7, LocksReleased
  <2>5. Work(op[p])' BY <1>8, IdleOK DEF Work, RoomAt, StagedAt, CopiedAt, Expunges
  <2> QED BY <1>0, <1>2, <1>8, IdleOK, <2>3, <2>4, <2>5, HolderType
<1>11. \A v : InIndex(v)' = InIndex(v) /\ InExpunge(v)' = InExpunge(v) /\ Gone(v)' = Gone(v)
  BY <1>1, <1>7 DEF InIndex, InExpunge, Gone
<1>12. ~Moving(op[p]) /\ ~Owing(op[p]) /\ ~Owing(op'[p]) BY <1>1, <1>8, IdleOK DEF Moving, Owing
<1>13. UidInv'
  <2>1. /\ \A i \in 1..Current.exists : Bound(Current.recs[i])
        /\ \A i \in 1..xfile.exists : Bound(xfile.recs[i])
        /\ \A u \in Uids : pub[u] # NoFile => u <= Current.last_uid /\ msgs[u] \in {NoFile, pub[u]}
    BY <1>0 DEF UidInv, Bindings
  <2>2. \A i \in 1..Current'.exists : Bound(Current.recs[i])' BY <1>1, <1>7, <2>1 DEF Bound
  <2>3. \A i \in 1..xfile'.exists : Bound(xfile.recs[i])' BY <1>1, <1>7, <2>1 DEF Bound
  <2>4. \A u \in Uids : pub'[u] # NoFile => u <= Current'.last_uid /\ msgs'[u] \in {NoFile, pub'[u]}
    BY <1>1, <1>6, <1>7, <2>1
  <2>5. \A u \in op'[p].dels : u <= Current'.last_uid BY <1>8, IdleOK
  <2>6. Ascending' BY <1>0, <1>1, <1>7 DEF UidInv, Ascending
  <2>7. Distinct' BY <1>0, <1>1 DEF UidInv, Distinct
  <2>8. \A u \in Uids : InIndex(u)' /\ InExpunge(u)' => u \in torn'
    BY <1>1, <1>2, <1>11, <1>12, HolderApart
  <2>9. Current.last_uid <= Current'.last_uid /\ Current'.last_uid \in Int /\ Current.last_uid \in Int
    BY <1>3, <1>7
  <2> QED BY <1>2, <1>8, <2>2, <2>3, <2>4, <2>5, <2>6, <2>7, <2>8, <2>9, HolderUid
<1>14. FileInv'
  <2>1. DoomedAt(op[p])' BY <1>8, IdleOK DEF DoomedAt
  <2>2. ASSUME ~Forced PROVE MessageFiles'
    <3>1. MessageFiles BY <2>2 DEF Inv, FileInv
    <3>2. \A i \in 1..Current.exists : Current.recs[i].uid \in Uids /\ Current.recs[i].uid <= Current.last_uid
      BY <1>0, CurrentType DEF Records, UidInv, Bindings, Bound
    <3>3. \A i \in 1..xfile.exists : xfile.recs[i].uid \in Uids /\ xfile.recs[i].uid <= Current.last_uid
      BY <1>0, ExpungedType DEF Records, UidInv, Bindings, Bound
    <3> QED BY <1>1, <1>6, <1>7, <3>1, <3>2, <3>3 DEF MessageFiles
  <2> QED BY <1>2, <1>8, <1>11, <2>1, <2>2, HolderFiles
<1>15. QuotaInv' BY <1>1, <1>7, <1>8, <1>9, <1>12, QuotaStill
<1> QED BY <1>10, <1>13, <1>14, <1>15 DEF Inv

-----------------------------------------------------------------------------
(* Expunge                                                                 *)

\* A step that changes cyrus.expunge only behind the records it counts.
LEMMA TailInv ==
  ASSUME Inv, NEW p \in Procs, Header(op[p]), Steps(p), Current' = Current, UNCHANGED <<msgs, pub>>,
         torn \subseteq torn', xfile'.exists = xfile.exists,
         \A i \in 1..xfile.exists : xfile'.recs[i] = xfile.recs[i],
         \A u \in op'[p].dels : u <= Current.last_uid,
         Moving(op[p]) => op[p].dels \subseteq torn', ~Forced => DoomedAt(op[p])'
  PROVE  UidInv' /\ FileInv'
<1>0. TypeInv /\ FilesOK /\ UidInv BY DEF Inv, TypeInv
<1>1. \A u : InIndex(u)' = InIndex(u) /\ InExpunge(u)' = InExpunge(u) /\ (Gone(u) => Gone(u)')
  BY DEF InIndex, InExpunge, Gone
<1>2. UidInv'
  <2>1. /\ \A i \in 1..Current.exists : Bound(Current.recs[i])
        /\ \A i \in 1..xfile.exists : Bound(xfile.recs[i])
        /\ \A u \in Uids : pub[u] # NoFile => u <= Current.last_uid /\ msgs[u] \in {NoFile, pub[u]}
    BY <1>0 DEF UidInv, Bindings
  <2>2. \A i \in 1..Current'.exists : Bound(Current.recs[i])' BY <2>1 DEF Bound
  <2>3. \A i \in 1..xfile'.exists : Bound(xfile.recs[i])' BY <2>1 DEF Bound
  <2>4. \A u \in Uids : pub'[u] # NoFile => u <= Current'.last_uid /\ msgs'[u] \in {NoFile, pub'[u]}
    BY <2>1
  <2>5. \A u \in op'[p].dels : u <= Current'.last_uid OBVIOUS
  <2>6. Ascending' BY <1>0 DEF UidInv, Ascending
  <2>7. Distinct' BY <1>0 DEF UidInv, Distinct
  <2>8. \A u \in Uids : InIndex(u)' /\ InExpunge(u)' => u \in torn' BY <1>1, HolderApart
  <2>9. Current.last_uid <= Current'.last_uid /\ Current'.last_uid \in Int /\ Current.last_uid \in Int
    <3>1. Current.last_uid \in 0..MaxMid BY <1>0, CurrentType
    <3> QED BY <3>1
  <2> QED BY <2>2, <2>3, <2>4, <2>5, <2>6, <2>7, <2>8, <2>9, HolderUid
<1>3. ASSUME ~Forced PROVE MessageFiles'
  <2>1. MessageFiles BY <1>3 DEF Inv, FileInv
  <2> QED BY <2>1 DEF MessageFiles
<1>4. FileInv' BY <1>1, <1>3, HolderFiles
<1> QED BY <1>2, <1>4

LEMMA ProcessRecordsInv ==
  ASSUME Inv, NEW p \in Procs, process_records(p)
  PROVE  Inv'
<1>0. TypeInv /\ LocksOK /\ OpsOK /\ FilesOK /\ UidInv /\ QuotaInv BY DEF Inv, TypeInv
<1>1. /\ op[p].pc = "records"
      /\ UNCHANGED <<index, cache, dir, msgs, used, header_lock, index_lock, mid, faults, pub, torn>>
  BY DEF process_records, history
<1>2. PICK D \in IF op[p].kind = "cleanup" THEN SUBSET UidSet(Expunged) ELSE {Deleted(Live(Current))} :
        /\ op' = [op EXCEPT ![p].dels = D, ![p].pc = "quota"]
        /\ IF op[p].kind # "delayed" THEN UNCHANGED xfile
           ELSE xfile' = [xfile EXCEPT !.there = TRUE,
                  !.recs = WriteAt(@, xfile.exists + 1, Drop(Live(Current), D))]
  BY DEF process_records
<1>3. OpOK(op[p]) /\ op[p].kind \in Expunges /\ Work(op[p]) /\ Header(op[p])
  BY <1>0, <1>1 DEF OpsOK, OpOK, Phase, TypeInv, WorkOK, Header, Lockless, Expunges
<1>4. /\ Current.exists \in Nat /\ Live(Current) \in Seq(Records) /\ Len(Live(Current)) = Current.exists
      /\ \A i \in 1..Current.exists : Live(Current)[i] = Current.recs[i] /\ Current.recs[i] \in Records
      /\ xfile.recs \in Seq(Records) /\ xfile.exists \in Nat /\ xfile.exists <= Len(xfile.recs)
      /\ Expunged \in Seq(Records) /\ Len(Expunged) = xfile.exists
      /\ \A i \in 1..xfile.exists : Expunged[i] = xfile.recs[i] /\ xfile.recs[i] \in Records
  BY <1>0, CurrentType, ExpungedType
<1>5. op[p].kind = "cleanup" => \A u \in D : InExpunge(u)
  <2> SUFFICES ASSUME op[p].kind = "cleanup", NEW u \in D PROVE InExpunge(u) OBVIOUS
  <2>1. u \in UidSet(Expunged) BY <1>2
  <2>2. DOMAIN Expunged = 1..xfile.exists BY <1>4
  <2> QED BY <1>4, <2>1, <2>2 DEF UidSet, InExpunge
<1>6. op[p].kind # "cleanup" => \A u \in D : InIndex(u)
  <2> SUFFICES ASSUME op[p].kind # "cleanup", NEW u \in D PROVE InIndex(u) OBVIOUS
  <2>1. u \in Deleted(Live(Current)) BY <1>2
  <2>2. DOMAIN Live(Current) = 1..Current.exists BY <1>4
  <2> QED BY <1>4, <2>1, <2>2 DEF Deleted, InIndex
<1>7. \A u \in D : u \in Uids /\ u <= Current.last_uid
  <2>1. \A i \in 1..Current.exists : Current.recs[i].uid \in Uids /\ Current.recs[i].uid <= Current.last_uid
    BY <1>0, <1>4 DEF Records, UidInv, Bindings, Bound
  <2>2. \A i \in 1..xfile.exists : xfile.recs[i].uid \in Uids /\ xfile.recs[i].uid <= Current.last_uid
    BY <1>0, <1>4 DEF Records, UidInv, Bindings, Bound
  <2>3. \A u \in D : InExpunge(u) \/ InIndex(u) BY <1>5, <1>6
  <2> HIDE <1>2
  <2> QED BY <2>1, <2>2, <2>3 DEF InIndex, InExpunge
<1>8. /\ Steps(p) /\ DOMAIN op'[p] = Fields /\ op'[p].pc = "quota" /\ op'[p].kind = op[p].kind
      /\ op'[p].n = op[p].n /\ op'[p].clen = op[p].clen /\ op'[p].flag = op[p].flag
      /\ op'[p].dels = D
  <2>1. op' = [op EXCEPT ![p].dels = D, ![p].pc = "quota"] BY <1>2
  <2> HIDE <1>2
  <2> QED BY <1>0, <1>3, <2>1 DEF OpsOK, OpOK, Steps, Fields
<1>9. OpOK(op'[p]) BY <1>3, <1>7, <1>8 DEF OpOK, Phase, Expunges
<1>10. Current' = Current /\ dir'.index = dir.index BY <1>1 DEF Current
<1> DEFINE d == Drop(Live(Current), D)
           recs == WriteAt(xfile.recs, xfile.exists + 1, d)
<1>11. d \in Seq(Records) /\ Len(d) \in Nat
  <2>1. d \in Seq(Records) BY <1>4, DropPicks
  <2> QED BY <2>1
<1>12. /\ recs \in Seq(Records) /\ Len(recs) >= xfile.exists + Len(d) /\ Len(recs) >= Len(xfile.recs)
       /\ \A i \in 1..xfile.exists : recs[i] = xfile.recs[i]
       /\ \A i \in 1..Len(d) : recs[xfile.exists + i] = d[i]
  <2> HIDE DEF d
  <2> DEFINE at == xfile.exists + 1
  <2>1. at \in 1..Len(xfile.recs) + 1 /\ at - 1 = xfile.exists BY <1>4
  <2> HIDE DEF at
  <2>2. /\ WriteAt(xfile.recs, at, d) \in Seq(Records)
        /\ Len(WriteAt(xfile.recs, at, d)) >= at - 1 + Len(d)
        /\ Len(WriteAt(xfile.recs, at, d)) >= Len(xfile.recs)
        /\ \A i \in 1..at - 1 : WriteAt(xfile.recs, at, d)[i] = xfile.recs[i]
        /\ \A i \in 1..Len(d) : WriteAt(xfile.recs, at, d)[at - 1 + i] = d[i]
    BY <1>4, <1>11, <2>1, WriteAtFacts
  <2>3. recs = WriteAt(xfile.recs, at, d) BY DEF at
  <2> HIDE DEF recs
  <2> QED BY <2>1, <2>2, <2>3
<1>13. /\ op[p].kind # "delayed" => xfile' = xfile
       /\ op[p].kind = "delayed" =>
            xfile' \in ExpungeFiles /\ xfile'.there /\ xfile'.exists = xfile.exists /\ xfile'.recs = recs
  <2>1. xfile \in ExpungeFiles BY <1>0 DEF FilesOK
  <2>2. CASE op[p].kind # "delayed" BY <1>2, <2>2
  <2>3. CASE op[p].kind = "delayed"
    <3>1. xfile' = [xfile EXCEPT !.there = TRUE, !.recs = recs] BY <1>2, <2>3
    <3> HIDE DEF recs
    <3> QED BY <1>12, <2>1, <2>3, <3>1 DEF ExpungeFiles
  <2> QED BY <2>2, <2>3
<1> HIDE DEF recs, d
<1>14. /\ xfile'.exists = xfile.exists /\ \A i \in 1..xfile.exists : xfile'.recs[i] = xfile.recs[i]
       /\ xfile' \in ExpungeFiles /\ xfile'.exists <= Len(xfile'.recs)
       /\ ~xfile'.there => xfile'.exists = 0
  <2>1. CASE op[p].kind # "delayed" BY <1>0, <1>4, <1>13, <2>1 DEF FilesOK
  <2>2. CASE op[p].kind = "delayed"
    <3>1. Len(recs) \in Nat /\ Len(xfile.recs) \in Nat BY <1>4, <1>12
    <3> QED BY <1>4, <1>12, <1>13, <2>2, <3>1
  <2> QED BY <2>1, <2>2
<1>15. TypeInv'
  <2>1. FilesOK' BY <1>0, <1>1, <1>14 DEF FilesOK
  <2>2. LocksOK'
    <3>1. Header(op'[p]) => Header(op[p]) BY <1>3
    <3>2. op[p].pc \in IndexPcs /\ op'[p].pc \notin Lockless BY <1>1, <1>8 DEF IndexPcs, Lockless
    <3> QED BY <1>0, <1>1, <1>8, <1>10, <3>1, <3>2, LocksKept
  <2>3. Work(op[p])'
    <3>1. RoomAt(op[p])' BY <1>1, <1>3, <1>8 DEF Work, RoomAt
    <3>2. StagedAt(op[p])' BY <1>8 DEF StagedAt
    <3>3. CopiedAt(op[p])'
      <4>1. Drop(Live(Current), op[p].dels)' = d BY <1>8, <1>10 DEF d
      <4>2. op'[p].kind = "delayed" => xfile'.recs = recs /\ xfile'.exists = xfile.exists /\ xfile'.there
        BY <1>8, <1>13
      <4> QED BY <1>12, <4>1, <4>2 DEF CopiedAt
    <3> QED BY <3>1, <3>2, <3>3 DEF Work
  <2> QED BY <1>0, <1>3, <1>8, <1>9, <2>1, <2>2, <2>3, HolderType
<1>16. ~Moving(op[p]) /\ ~Owing(op[p]) /\ ~Owing(op'[p]) BY <1>1, <1>8 DEF Moving, Owing
<1>17. ~Forced => DoomedAt(op[p])'
  <2> SUFFICES ASSUME ~Forced PROVE DoomedAt(op[p])' OBVIOUS
  <2>1. DoomedAt(op[p]) BY DEF Inv, FileInv, Doomed
  <2>2. op[p].kind = "immediate" => ~xfile'.there BY <1>3, <1>13, <2>1 DEF DoomedAt
  <2>3. op[p].kind = "cleanup" => \A u \in D : InExpunge(u)' BY <1>5, <1>13 DEF InExpunge
  <2> QED BY <1>8, <2>2, <2>3 DEF DoomedAt
<1>18. UidInv' /\ FileInv'
  BY <1>1, <1>3, <1>7, <1>8, <1>10, <1>14, <1>16, <1>17, TailInv
<1>19. QuotaInv'
  <2>1. used \in Nat /\ used <= Current.exists /\ (faults = 0 => used = Current.exists)
    BY <1>3, <1>16, HolderOwes
  <2>2. used' \in Nat /\ Current'.exists \in Nat /\ used' <= Current'.exists
        /\ (faults' = 0 => used' + 0 = Current'.exists)
    BY <1>1, <1>4, <1>10, <2>1
  <2> QED BY <1>3, <1>8, <1>16, <2>2, HolderQuota
<1> QED BY <1>15, <1>18, <1>19 DEF Inv

LEMMA ExpungeFailsInv ==
  ASSUME Inv, NEW p \in Procs, expunge_fails(p)
  PROVE  Inv'
<1>0. TypeInv /\ LocksOK /\ OpsOK /\ FilesOK /\ UidInv /\ QuotaInv BY DEF Inv, TypeInv
<1>1. /\ op[p].pc \in {"quota", "xheader", "renindex"} /\ Release(p) /\ Fault
      /\ torn' = torn \cup CutOff(p)
      /\ UNCHANGED <<index, cache, dir, msgs, used, mid, pub>>
      /\ \/ xfile' = [xfile EXCEPT !.recs = SubSeq(@, 1, xfile.exists)] \/ xfile' = xfile
  BY DEF expunge_fails
<1>2. Header(op[p])
  BY <1>0, <1>1 DEF OpsOK, OpOK, Phase, Header, Lockless, Expunges
<1>3. Steps(p) /\ op'[p] = Idle BY <1>0, <1>1, ReleaseSteps
<1>4. Current' = Current /\ dir'.index = dir.index BY <1>1 DEF Current
<1>5. xfile \in ExpungeFiles /\ xfile.recs \in Seq(Records) /\ xfile.exists \in Nat
      /\ xfile.exists <= Len(xfile.recs)
  BY <1>0, ExpungedType DEF FilesOK
<1>6. /\ xfile'.exists = xfile.exists /\ \A i \in 1..xfile.exists : xfile'.recs[i] = xfile.recs[i]
      /\ xfile' \in ExpungeFiles /\ xfile'.exists <= Len(xfile'.recs)
      /\ xfile'.there = xfile.there
  <2>1. CASE xfile' = xfile BY <1>5, <2>1
  <2>2. CASE xfile' = [xfile EXCEPT !.recs = SubSeq(@, 1, xfile.exists)]
    <3> DEFINE e == xfile.exists
               r == xfile.recs
               s == SubSeq(r, 1, e)
    <3>1. r \in Seq(Records) /\ e \in Nat /\ e <= Len(r) BY <1>5
    <3> HIDE DEF e, r
    <3>2. s \in Seq(Records) /\ Len(s) = e /\ \A i \in 1..e : s[i] = r[i] BY <3>1
    <3>3. xfile' = [xfile EXCEPT !.recs = s] BY <2>2 DEF e, r
    <3> HIDE DEF s
    <3>4. /\ xfile' \in ExpungeFiles /\ xfile'.recs = s /\ xfile'.exists = xfile.exists
          /\ xfile'.there = xfile.there
      BY <1>5, <3>2, <3>3 DEF ExpungeFiles
    <3>5. e <= e BY <3>1
    <3> QED BY <3>2, <3>4, <3>5 DEF e, r
  <2> QED BY <1>1, <2>1, <2>2
<1>7. faults' \in Nat /\ faults' # 0 BY <1>0, <1>1, FaultCounts
<1>8. dir.index \in Inodes /\ Current.exists \in Nat BY <1>0, CurrentType
<1>9. TypeInv'
  <2>1. FilesOK' BY <1>0, <1>1, <1>6, <1>7 DEF FilesOK
  <2>2. LocksOK' BY <1>0, <1>1, <1>4, <1>8, LocksReleased
  <2>3. Work(op[p])' BY <1>3, IdleOK DEF Work, RoomAt, StagedAt, CopiedAt, Expunges
  <2> QED BY <1>0, <1>2, <1>3, IdleOK, <2>1, <2>2, <2>3, HolderType
<1>10. UidInv' /\ FileInv'
  <2>1. DoomedAt(op[p])' BY <1>3, IdleOK DEF DoomedAt
  <2>2. Moving(op[p]) => op[p].dels \subseteq torn' BY <1>1, CutOffMoving
  <2>3. \A u \in op'[p].dels : u <= Current.last_uid BY <1>3, IdleOK
  <2> QED BY <1>1, <1>2, <1>3, <1>4, <1>6, <2>1, <2>2, <2>3, TailInv
<1>11. QuotaInv'
  <2>1. used \in Nat /\ used <= Current.exists BY <1>2, HolderOwes
  <2>2. ~Owing(op'[p]) BY <1>3, IdleOK DEF Owing
  <2> QED BY <1>1, <1>2, <1>3, <1>4, <1>7, <1>8, <2>1, <2>2, HolderQuota
<1> QED BY <1>9, <1>10, <1>11 DEF Inv

\* A record of a message that one of the two files has.
Same(r, s) == r.uid = s.uid /\ r.mid = s.mid
FromMail(r) == \/ \E i \in 1..Current.exists : Same(r, Current.recs[i])
               \/ \E i \in 1..xfile.exists : Same(r, xfile.recs[i])

LEMMA FromMailFacts ==
  ASSUME Inv, NEW r, FromMail(r)
  PROVE  /\ r.uid \in Uids /\ r.mid = pub[r.uid] /\ r.uid <= Current.last_uid
         /\ InIndex(r.uid) \/ InExpunge(r.uid)
         /\ ~Forced => r.uid \in torn \/ msgs[r.uid] = r.mid
<1>0. FilesOK /\ UidInv BY DEF Inv, TypeInv
<1>1. CASE \E i \in 1..Current.exists : Same(r, Current.recs[i])
  <2>1. PICK i \in 1..Current.exists : Same(r, Current.recs[i]) BY <1>1
  <2>2. Current.recs[i] \in Records /\ Bound(Current.recs[i])
    BY <1>0, CurrentType DEF UidInv, Bindings
  <2>3. ~Forced => Current.recs[i].uid \in torn \/ msgs[Current.recs[i].uid] = Current.recs[i].mid
    BY DEF Inv, FileInv, MessageFiles
  <2> QED BY <2>1, <2>2, <2>3 DEF Same, Bound, Records, InIndex
<1>2. CASE \E i \in 1..xfile.exists : Same(r, xfile.recs[i])
  <2>1. PICK i \in 1..xfile.exists : Same(r, xfile.recs[i]) BY <1>2
  <2>2. xfile.recs[i] \in Records /\ Bound(xfile.recs[i])
    BY <1>0, ExpungedType DEF UidInv, Bindings
  <2>3. ~Forced => xfile.recs[i].uid \in torn \/ msgs[xfile.recs[i].uid] = xfile.recs[i].mid
    BY DEF Inv, FileInv, MessageFiles
  <2> QED BY <2>1, <2>2, <2>3 DEF Same, Bound, Records, InExpunge
<1> QED BY <1>1, <1>2 DEF FromMail

\* A step that moves records between the two files, or drops some.
LEMMA MovedInv ==
  ASSUME Inv, NEW p \in Procs, Header(op[p]), Steps(p), UNCHANGED <<msgs, pub, torn>>,
         Current'.last_uid = Current.last_uid,
         \A i \in 1..Current'.exists : FromMail(Current'.recs[i]),
         \A i \in 1..xfile'.exists : FromMail(xfile'.recs[i]),
         \A u \in op'[p].dels : u <= Current.last_uid,
         Ascending', Distinct',
         \A u \in Uids : InIndex(u)' /\ InExpunge(u)' =>
           u \in torn \/ (Moving(op'[p]) /\ u \in op'[p].dels),
         ~Forced => DoomedAt(op[p])'
  PROVE  UidInv' /\ FileInv'
<1>0. TypeInv /\ FilesOK /\ UidInv BY DEF Inv, TypeInv
<1>1. Current.last_uid \in Int /\ Current.last_uid <= Current'.last_uid
  <2>1. Current.last_uid \in 0..MaxMid BY <1>0, CurrentType
  <2> QED BY <2>1
<1>2. UidInv'
  <2>1. \A i \in 1..Current'.exists : Bound(Current.recs[i])' BY FromMailFacts DEF Bound
  <2>2. \A i \in 1..xfile'.exists : Bound(xfile.recs[i])' BY FromMailFacts DEF Bound
  <2>3. \A u \in Uids : pub'[u] # NoFile => u <= Current'.last_uid /\ msgs'[u] \in {NoFile, pub'[u]}
    BY <1>0 DEF UidInv, Bindings
  <2> QED BY <1>1, <2>1, <2>2, <2>3, HolderUid
<1>3. \A u \in Uids : Gone(u) => Gone(u)'
  <2> SUFFICES ASSUME NEW u \in Uids, u \notin torn, ~InIndex(u), ~InExpunge(u)
               PROVE  ~InIndex(u)' /\ ~InExpunge(u)'
    BY DEF Gone
  <2> QED BY FromMailFacts DEF InIndex, InExpunge
<1>4. ASSUME ~Forced PROVE MessageFiles' BY <1>4, FromMailFacts DEF MessageFiles
<1>5. FileInv' BY <1>3, <1>4, HolderFiles
<1> QED BY <1>2, <1>5

LEMMA ExpungeHeaderInv ==
  ASSUME Inv, NEW p \in Procs, expunge_header(p)
  PROVE  Inv'
<1>0. TypeInv /\ LocksOK /\ OpsOK /\ FilesOK /\ UidInv /\ QuotaInv BY DEF Inv, TypeInv
<1> DEFINE d == Drop(Live(Current), op[p].dels)
           e == xfile.exists
<1>1. /\ op[p].pc = "xheader" /\ Step(p, "renindex") /\ xfile' = [xfile EXCEPT !.exists = e + Len(d)]
      /\ UNCHANGED <<index, cache, dir, msgs, used, header_lock, index_lock, mid, faults, pub, torn>>
  BY DEF expunge_header, history
<1>2. OpOK(op[p]) /\ op[p].kind = "delayed" /\ Work(op[p]) /\ Header(op[p])
  BY <1>0, <1>1 DEF OpsOK, OpOK, Phase, TypeInv, WorkOK, Header, Lockless
<1>3. /\ Steps(p) /\ OpOK(op'[p]) /\ op'[p].pc = "renindex" /\ op'[p].kind = "delayed"
      /\ op'[p].dels = op[p].dels
  <2>1. GoesOn(p, "renindex") BY <1>0, <1>1, StepGoesOn
  <2> QED BY <1>2, <2>1 DEF GoesOn, OpOK, Phase, Expunges
<1>4. /\ Current.exists \in Nat /\ Live(Current) \in Seq(Records) /\ Len(Live(Current)) = Current.exists
      /\ \A i \in 1..Current.exists : Live(Current)[i] = Current.recs[i] /\ Current.recs[i] \in Records
      /\ xfile.recs \in Seq(Records) /\ e \in Nat /\ e <= Len(xfile.recs) /\ xfile \in ExpungeFiles
      /\ \A i \in 1..e : xfile.recs[i] \in Records
  BY <1>0, CurrentType, ExpungedType DEF FilesOK
<1>5. d \in Seq(Records) /\ \E f : Picks(f, Live(Current), d, op[p].dels) BY <1>4, DropPicks
<1>6. xfile.there /\ e + Len(d) <= Len(xfile.recs) /\ \A k \in 1..Len(d) : xfile.recs[e + k] = d[k]
  BY <1>1, <1>2 DEF Work, CopiedAt
<1> HIDE DEF d
<1>7. PICK f : Picks(f, Live(Current), d, op[p].dels) BY <1>5
<1>8. Len(d) \in Nat /\ e + Len(d) \in Nat BY <1>4, <1>5
<1>9. DOMAIN Live(Current) = 1..Current.exists BY <1>4
<1>10. /\ \A k \in 1..Len(d) : /\ f[k] \in 1..Current.exists /\ d[k] = Current.recs[f[k]]
                               /\ d[k].uid \in op[p].dels
       /\ \A k, m \in 1..Len(d) : k < m => f[k] < f[m]
  BY <1>4, <1>7, <1>9 DEF Picks
<1>11. Current' = Current /\ dir'.index = dir.index BY <1>1 DEF Current
<1>12. /\ xfile' \in ExpungeFiles /\ xfile'.exists = e + Len(d) /\ xfile'.recs = xfile.recs
       /\ xfile'.there
  BY <1>1, <1>4, <1>6, <1>8 DEF ExpungeFiles
<1> HIDE DEF e
<1>13. ASSUME NEW i \in 1..e + Len(d)
       PROVE  i \in 1..e \/ \E k \in 1..Len(d) : i = e + k
  <2>1. CASE i <= e BY <1>4, <2>1
  <2>2. CASE ~(i <= e)
    <3>1. i - e \in 1..Len(d) /\ i = e + (i - e) BY <1>4, <1>8, <2>2
    <3> QED BY <3>1
  <2> QED BY <2>1, <2>2
<1>14. TypeInv'
  <2>1. FilesOK' BY <1>0, <1>1, <1>6, <1>12 DEF FilesOK
  <2>2. LocksOK'
    <3>1. Header(op'[p]) => Header(op[p]) BY <1>2
    <3>2. op[p].pc \in IndexPcs /\ op'[p].pc \notin Lockless BY <1>1, <1>3 DEF IndexPcs, Lockless
    <3> QED BY <1>0, <1>1, <1>3, <1>11, <3>1, <3>2, LocksKept
  <2>3. Work(op[p])'
    BY <1>1, <1>2, <1>3 DEF Work, RoomAt, StagedAt, CopiedAt
  <2> QED BY <1>0, <1>2, <1>3, <2>1, <2>2, <2>3, HolderType
<1>15. ~Moving(op[p]) /\ Moving(op'[p]) /\ Owing(op[p]) /\ Owing(op'[p])
  BY <1>1, <1>2, <1>3 DEF Moving, Owing
<1>16. UidInv' /\ FileInv'
  <2>1. \A i \in 1..Current'.exists : FromMail(Current'.recs[i]) BY <1>11 DEF FromMail, Same
  <2>2. ASSUME NEW i \in 1..xfile'.exists PROVE FromMail(xfile'.recs[i])
    <3>1. i \in 1..e + Len(d) BY <1>12
    <3>2. CASE i \in 1..e BY <1>12, <3>2 DEF FromMail, Same, e
    <3>3. CASE \E k \in 1..Len(d) : i = e + k
      <4>1. PICK k \in 1..Len(d) : i = e + k BY <3>3
      <4>2. xfile'.recs[i] = Current.recs[f[k]] /\ f[k] \in 1..Current.exists
        BY <1>6, <1>10, <1>12, <4>1
      <4> QED BY <4>2 DEF FromMail, Same
    <3> QED BY <1>13, <3>1, <3>2, <3>3
  <2>3. \A u \in op'[p].dels : u <= Current.last_uid BY <1>0, <1>3 DEF UidInv, Bindings, LowAt
  <2>4. Ascending' BY <1>0, <1>1, <1>11 DEF UidInv, Ascending
  <2>5. \A u \in Uids : InIndex(u) /\ InExpunge(u) => u \in torn BY <1>2, <1>15, HolderApart
  <2>6. Distinct'
    <3> SUFFICES ASSUME NEW i \in 1..e + Len(d), NEW j \in 1..e + Len(d), i < j,
                        xfile.recs[i].uid = xfile.recs[j].uid
                 PROVE  xfile.recs[i].uid \in torn
      BY <1>1, <1>12 DEF Distinct
    <3>1. CASE j \in 1..e
      <4>1. i \in 1..e BY <1>4, <3>1
      <4> QED BY <1>0, <3>1, <4>1 DEF UidInv, Distinct, e
    <3>2. CASE \E k \in 1..Len(d) : j = e + k
      <4>1. PICK k \in 1..Len(d) : j = e + k BY <3>2
      <4>2. xfile.recs[j] = Current.recs[f[k]] /\ f[k] \in 1..Current.exists BY <1>6, <1>10, <4>1
      <4>3. CASE i \in 1..e
        <5> DEFINE u == xfile.recs[i].uid
        <5>1. u \in Uids /\ InExpunge(u) BY <1>4, <4>3 DEF Records, InExpunge, e
        <5>2. InIndex(u) BY <4>2 DEF InIndex
        <5> QED BY <2>5, <5>1, <5>2
      <4>4. CASE \E m \in 1..Len(d) : i = e + m
        <5>1. PICK m \in 1..Len(d) : i = e + m BY <4>4
        <5>2. xfile.recs[i] = Current.recs[f[m]] /\ f[m] \in 1..Current.exists
          BY <1>6, <1>10, <5>1
        <5>3. m < k BY <1>4, <1>8, <4>1, <5>1
        <5>4. f[m] < f[k] BY <1>10, <5>3
        <5>5. Current.recs[f[k]].uid \in Int
          <6>1. Current.recs[f[k]].uid \in Uids BY <1>4, <4>2 DEF Records
          <6> QED BY <6>1 DEF Uids
        <5> QED BY <1>0, <4>2, <5>2, <5>4, <5>5 DEF UidInv, Ascending
      <4> QED BY <1>13, <4>3, <4>4
    <3> QED BY <1>13, <3>1, <3>2
  <2>7. ASSUME NEW u \in Uids, InIndex(u)', InExpunge(u)' PROVE u \in torn \/ u \in op'[p].dels
    <3>1. InIndex(u) BY <1>11, <2>7 DEF InIndex
    <3>2. PICK i \in 1..e + Len(d) : xfile.recs[i].uid = u BY <1>12, <2>7 DEF InExpunge
    <3>3. CASE i \in 1..e
      <4>1. InExpunge(u) BY <3>2, <3>3 DEF InExpunge, e
      <4> QED BY <2>5, <3>1, <4>1
    <3>4. CASE \E k \in 1..Len(d) : i = e + k BY <1>3, <1>6, <1>10, <3>2, <3>4
    <3> QED BY <1>13, <3>3, <3>4
  <2>8. DoomedAt(op[p])' BY <1>3 DEF DoomedAt
  <2>9. Current'.last_uid = Current.last_uid BY <1>11
  <2> QED BY <1>1, <1>2, <1>3, <1>15, <2>1, <2>2, <2>3, <2>4, <2>6, <2>7, <2>8, <2>9, MovedInv
<1>17. QuotaInv'
  <2>1. /\ used \in Nat /\ used <= Current.exists
        /\ used + Owed(op[p]) <= Current.exists /\ (faults = 0 => used + Owed(op[p]) = Current.exists)
    BY <1>2, <1>15, HolderOwes
  <2>2. Owed(op[p]) = Len(d) /\ Owed(op[p])' = Len(d) BY <1>1, <1>3, <1>11 DEF Owed, d
  <2>3. /\ used' \in Nat /\ Current'.exists \in Nat /\ used' <= Current'.exists
        /\ used' + Owed(op[p])' <= Current'.exists
        /\ faults' = 0 => used' + Owed(op[p])' = Current'.exists
    BY <1>1, <1>4, <1>11, <2>1, <2>2
  <2> QED BY <1>2, <1>3, <1>15, <2>3, HolderQuota
<1> QED BY <1>14, <1>16, <1>17 DEF Inv

\* cyrus.expunge is replaced by a file without the records of the uids in D.
Replaces(D) ==
  LET keep == Keep(Expunged, D)
  IN xfile'.exists = Len(keep) /\ \A i \in 1..Len(keep) : Same(xfile'.recs[i], keep[i])

LEMMA ReplacesFrom ==
  ASSUME FilesOK, NEW D, Replaces(D)
  PROVE  \E f : /\ \A i \in 1..xfile'.exists :
                     /\ f[i] \in 1..xfile.exists /\ Same(xfile'.recs[i], xfile.recs[f[i]])
                     /\ xfile'.recs[i].uid \notin D
                /\ \A i, j \in 1..xfile'.exists : i < j => f[i] < f[j]
<1> DEFINE keep == Keep(Expunged, D)
<1>1. /\ Expunged \in Seq(Records) /\ Len(Expunged) = xfile.exists
      /\ \A i \in 1..xfile.exists : Expunged[i] = xfile.recs[i]
  BY ExpungedType
<1>2. keep \in Seq(Records) /\ \E f : Picks(f, Expunged, keep, Uids \ D) BY <1>1, KeepPicks
<1>3. xfile'.exists = Len(keep) /\ \A i \in 1..Len(keep) : Same(xfile'.recs[i], keep[i])
  BY DEF Replaces
<1> HIDE DEF keep
<1>4. PICK f : Picks(f, Expunged, keep, Uids \ D) BY <1>2
<1>5. DOMAIN Expunged = 1..xfile.exists BY <1>1
<1>6. /\ \A i \in 1..Len(keep) : /\ f[i] \in 1..xfile.exists /\ keep[i] = xfile.recs[f[i]]
                                 /\ keep[i].uid \notin D
      /\ \A i, j \in 1..Len(keep) : i < j => f[i] < f[j]
  BY <1>1, <1>4, <1>5 DEF Picks
<1> QED BY <1>3, <1>6 DEF Same

LEMMA ReplacesInv ==
  ASSUME Inv, NEW p \in Procs, Header(op[p]), Steps(p), Current' = Current,
         UNCHANGED <<msgs, pub, torn>>, op'[p].dels = op[p].dels, Replaces(op[p].dels),
         op'[p].kind = op[p].kind, op'[p].pc \in {"unlock", "addquota"}, op[p].pc = "renexpunge",
         op[p].kind \in {"cleanup", "unexpunge"}
  PROVE  UidInv' /\ FileInv'
<1>0. TypeInv /\ FilesOK /\ UidInv BY DEF Inv, TypeInv
<1>1. PICK f : /\ \A i \in 1..xfile'.exists :
                     /\ f[i] \in 1..xfile.exists /\ Same(xfile'.recs[i], xfile.recs[f[i]])
                     /\ xfile'.recs[i].uid \notin op[p].dels
               /\ \A i, j \in 1..xfile'.exists : i < j => f[i] < f[j]
  BY <1>0, ReplacesFrom
<1>2. \A i \in 1..Current'.exists : FromMail(Current'.recs[i]) BY DEF FromMail, Same
<1>3. \A i \in 1..xfile'.exists : FromMail(xfile'.recs[i]) BY <1>1 DEF FromMail
<1>4. \A u \in op'[p].dels : u <= Current.last_uid BY <1>0 DEF UidInv, Bindings, LowAt
<1>5. Ascending' BY <1>0 DEF UidInv, Ascending
<1>6. Distinct'
  <2> SUFFICES ASSUME NEW i \in 1..xfile'.exists, NEW j \in 1..xfile'.exists, i < j,
                      xfile'.recs[i].uid = xfile'.recs[j].uid
               PROVE  xfile'.recs[i].uid \in torn
    BY DEF Distinct
  <2>1. /\ f[i] \in 1..xfile.exists /\ f[j] \in 1..xfile.exists /\ f[i] < f[j]
        /\ xfile'.recs[i].uid = xfile.recs[f[i]].uid /\ xfile'.recs[j].uid = xfile.recs[f[j]].uid
    BY <1>1 DEF Same
  <2>2. xfile.recs[f[i]].uid = xfile.recs[f[j]].uid => xfile.recs[f[i]].uid \in torn
    BY <1>0, <2>1 DEF UidInv, Distinct
  <2> QED BY <2>1, <2>2
<1>7. \A u : InIndex(u)' = InIndex(u) BY DEF InIndex
<1>8. \A u : InExpunge(u)' => InExpunge(u) /\ u \notin op[p].dels BY <1>1 DEF InExpunge, Same
<1>9. \A u \in Uids : InIndex(u)' /\ InExpunge(u)' => u \in torn BY <1>7, <1>8, HolderApart
<1>10. ASSUME ~Forced PROVE DoomedAt(op[p])'
  <2>1. DoomedAt(op[p]) BY <1>10 DEF Inv, FileInv, Doomed
  <2>2. op[p].dels \subseteq Uids BY <1>0 DEF TypeInv, OpsOK, OpOK
  <2>3. op[p].kind = "cleanup" => \A u \in op[p].dels : Gone(u)'
    <3> SUFFICES ASSUME op[p].kind = "cleanup", NEW u \in op[p].dels, u \notin torn
                 PROVE  ~InIndex(u) /\ ~InExpunge(u)'
      BY <1>7 DEF Gone
    <3>1. InExpunge(u) BY <2>1 DEF DoomedAt
    <3>2. ~Moving(op[p]) BY DEF Moving
    <3>3. ~InIndex(u) BY <2>2, <3>1, <3>2, HolderApart
    <3> QED BY <1>8, <3>3
  <2> QED BY <2>3 DEF DoomedAt
<1>11. Current'.last_uid = Current.last_uid OBVIOUS
<1> QED BY <1>2, <1>3, <1>4, <1>5, <1>6, <1>9, <1>10, <1>11, MovedInv

\* The records of a file that was written again have the offsets that Recache
\* gives them.
LEMMA RecacheType ==
  ASSUME NEW recs \in Seq(Records), NEW n \in Nat
  PROVE  /\ Recache(recs, n) \in Seq(Records) /\ Len(Recache(recs, n)) = Len(recs)
         /\ \A i \in 1..Len(recs) : Same(Recache(recs, n)[i], recs[i])
<1> DEFINE f == [i \in 1..Len(recs) |-> [recs[i] EXCEPT !.off = n + i]]
<1>1. Recache(recs, n) = f /\ Len(recs) \in Nat BY DEF Recache
<1>2. ASSUME NEW i \in 1..Len(recs) PROVE f[i] \in Records /\ Same(f[i], recs[i])
  <2>1. recs[i] \in Records /\ n + i \in Nat OBVIOUS
  <2> QED BY <2>1 DEF Records, Same
<1>3. f \in [1..Len(recs) -> Records] BY <1>2
<1> HIDE DEF f
<1>4. f \in Seq(Records) /\ Len(f) = Len(recs) BY <1>1, <1>3
<1> QED BY <1>1, <1>2, <1>4

LEMMA RenameExpungeInv ==
  ASSUME Inv, NEW p \in Procs, rename_expunge(p)
  PROVE  Inv'
<1>0. TypeInv /\ LocksOK /\ OpsOK /\ FilesOK /\ UidInv /\ QuotaInv BY DEF Inv, TypeInv
<1> DEFINE keep == Keep(Expunged, op[p].dels)
<1>1. /\ op[p].pc = "renexpunge" /\ op[p].kind = "cleanup" /\ Step(p, "unlock")
      /\ xfile' = IF keep = <<>> THEN NoExpunge
                  ELSE [there |-> TRUE, exists |-> Len(keep), recs |-> Recache(keep, Current.exists)]
      /\ UNCHANGED <<index, cache, dir, msgs, used, header_lock, index_lock, mid, faults, pub, torn>>
  BY DEF rename_expunge, Has, history
<1>2. OpOK(op[p]) /\ Header(op[p])
  BY <1>0, <1>1 DEF OpsOK, OpOK, Phase, Header, Lockless
<1>3. /\ Steps(p) /\ OpOK(op'[p]) /\ op'[p].pc = "unlock" /\ op'[p].kind = op[p].kind
      /\ op'[p].dels = op[p].dels
  <2>1. GoesOn(p, "unlock") BY <1>0, <1>1, StepGoesOn
  <2> QED BY <1>1, <1>2, <2>1 DEF GoesOn, OpOK, Phase, Expunges
<1>4. keep \in Seq(Records) /\ Current.exists \in Nat
  BY <1>0, CurrentType, ExpungedType, KeepPicks
<1>5. Current' = Current /\ dir'.index = dir.index BY <1>1 DEF Current
<1>6. /\ xfile' \in ExpungeFiles /\ xfile'.exists <= Len(xfile'.recs)
      /\ ~xfile'.there => xfile'.exists = 0
      /\ xfile'.exists = Len(keep) /\ \A i \in 1..Len(keep) : Same(xfile'.recs[i], keep[i])
  <2> HIDE DEF keep
  <2>1. CASE keep = <<>>
    <3>1. xfile' = [there |-> FALSE, exists |-> 0, recs |-> <<>>] BY <1>1, <2>1 DEF NoExpunge
    <3>2. <<>> \in Seq(Records) /\ Len(<<>>) = 0 OBVIOUS
    <3> QED BY <2>1, <3>1, <3>2 DEF ExpungeFiles
  <2>2. CASE keep # <<>>
    <3> DEFINE new == Recache(keep, Current.exists)
    <3>1. xfile' = [there |-> TRUE, exists |-> Len(keep), recs |-> new] BY <1>1, <2>2
    <3>2. /\ new \in Seq(Records) /\ Len(new) = Len(keep) /\ Len(keep) \in Nat
          /\ \A i \in 1..Len(keep) : Same(new[i], keep[i])
      BY <1>4, RecacheType
    <3> HIDE DEF new
    <3> QED BY <3>1, <3>2 DEF ExpungeFiles
  <2> QED BY <2>1, <2>2
<1>7. TypeInv'
  <2>1. FilesOK' BY <1>0, <1>1, <1>6 DEF FilesOK
  <2>2. LocksOK'
    <3>1. Header(op'[p]) => Header(op[p]) BY <1>2
    <3>2. op'[p].pc \notin Lockless \cup IndexPcs BY <1>3 DEF IndexPcs, Lockless
    <3> QED BY <1>0, <1>1, <1>3, <1>5, <3>1, <3>2, LocksKept
  <2>3. Work(op[p])' BY <1>3 DEF Work, RoomAt, StagedAt, CopiedAt
  <2> QED BY <1>0, <1>2, <1>3, <2>1, <2>2, <2>3, HolderType
<1>8. UidInv' /\ FileInv'
  <2>1. Replaces(op[p].dels) BY <1>6 DEF Replaces
  <2> QED BY <1>1, <1>2, <1>3, <1>5, <2>1, ReplacesInv
<1>9. QuotaInv'
  <2>1. ~Owing(op[p]) /\ ~Owing(op'[p]) BY <1>1, <1>3 DEF Owing
  <2>2. used \in Nat /\ used <= Current.exists /\ (faults = 0 => used = Current.exists)
    BY <1>2, <2>1, HolderOwes
  <2>3. used' \in Nat /\ Current'.exists \in Nat /\ used' <= Current'.exists
        /\ (faults' = 0 => used' + 0 = Current'.exists)
    BY <1>1, <1>4, <1>5, <2>2
  <2> QED BY <1>2, <1>3, <2>1, <2>3, HolderQuota
<1> QED BY <1>7, <1>8, <1>9 DEF Inv

LEMMA RestoreExpungeInv ==
  ASSUME Inv, NEW p \in Procs, restore_expunge(p)
  PROVE  Inv'
<1>0. TypeInv /\ LocksOK /\ OpsOK /\ FilesOK /\ UidInv /\ QuotaInv BY DEF Inv, TypeInv
<1> DEFINE keep == Keep(Expunged, op[p].dels)
           d == Drop(Expunged, op[p].dels)
<1>1. /\ op[p].pc = "renexpunge" /\ op[p].kind = "unexpunge"
      /\ xfile' = [there |-> TRUE, exists |-> Len(keep), recs |-> keep]
      /\ op' = [op EXCEPT ![p].pc = "addquota", ![p].n = Len(d)]
      /\ UNCHANGED <<index, cache, dir, msgs, used, header_lock, index_lock, mid, faults, pub, torn>>
  BY DEF restore_expunge, Has, history
<1>2. OpOK(op[p]) /\ Header(op[p])
  BY <1>0, <1>1 DEF OpsOK, OpOK, Phase, Header, Lockless
<1>3. keep \in Seq(Records) /\ d \in Seq(Records) /\ Current.exists \in Nat
  BY <1>0, CurrentType, ExpungedType, KeepPicks, DropPicks
<1>4. Len(keep) \in Nat /\ Len(d) \in Nat BY <1>3
<1> HIDE DEF keep, d
<1>5. /\ Steps(p) /\ DOMAIN op'[p] = Fields /\ op'[p].pc = "addquota" /\ op'[p].kind = op[p].kind
      /\ op'[p].n = Len(d) /\ op'[p].clen = op[p].clen /\ op'[p].flag = op[p].flag
      /\ op'[p].dels = op[p].dels
  BY <1>0, <1>1, <1>2 DEF OpsOK, OpOK, Steps, Fields
<1>6. OpOK(op'[p]) BY <1>1, <1>2, <1>4, <1>5 DEF OpOK, Phase
<1>7. Current' = Current /\ dir'.index = dir.index BY <1>1 DEF Current
<1>8. /\ xfile' \in ExpungeFiles /\ xfile'.exists = Len(keep) /\ xfile'.recs = keep /\ xfile'.there
      /\ xfile'.exists <= Len(xfile'.recs)
  BY <1>1, <1>3, <1>4 DEF ExpungeFiles
<1>9. TypeInv'
  <2>1. FilesOK' BY <1>0, <1>1, <1>8 DEF FilesOK
  <2>2. LocksOK'
    <3>1. Header(op'[p]) => Header(op[p]) BY <1>2
    <3>2. op'[p].pc \notin Lockless \cup IndexPcs BY <1>5 DEF IndexPcs, Lockless
    <3> QED BY <1>0, <1>1, <1>5, <1>7, <3>1, <3>2, LocksKept
  <2>3. Work(op[p])' BY <1>5 DEF Work, RoomAt, StagedAt, CopiedAt
  <2> QED BY <1>0, <1>2, <1>5, <1>6, <2>1, <2>2, <2>3, HolderType
<1>10. UidInv' /\ FileInv'
  <2>1. Replaces(op[p].dels) BY <1>8 DEF Replaces, Same, keep
  <2> QED BY <1>1, <1>2, <1>5, <1>7, <2>1, ReplacesInv
<1>11. QuotaInv'
  <2>1. Owing(op[p]) /\ Owing(op'[p]) BY <1>1, <1>5 DEF Owing
  <2>2. /\ used \in Nat /\ used <= Current.exists
        /\ used + Owed(op[p]) <= Current.exists /\ (faults = 0 => used + Owed(op[p]) = Current.exists)
    BY <1>2, <2>1, HolderOwes
  <2>3. Owed(op[p]) = Len(d) /\ Owed(op[p])' = Len(d) BY <1>1, <1>5 DEF Owed, d
  <2>4. /\ used' \in Nat /\ Current'.exists \in Nat /\ used' <= Current'.exists
        /\ used' + Owed(op[p])' <= Current'.exists
        /\ faults' = 0 => used' + Owed(op[p])' = Current'.exists
    BY <1>1, <1>3, <1>7, <2>2, <2>3
  <2> QED BY <1>2, <1>5, <2>1, <2>4, HolderQuota
<1> QED BY <1>9, <1>10, <1>11 DEF Inv

\* What is written to the new cache.
LEMMA CacheOfType ==
  ASSUME FilesOK, NEW recs \in Seq(Records), NEW g \in Inodes
  PROVE  CacheOf(recs, g) \in Seq(Nat)
<1> DEFINE c == cache[g]
           f == [i \in 1..Len(recs) |-> IF recs[i].off \in DOMAIN c THEN c[recs[i].off] ELSE NoFile]
<1>1. c \in Seq(Nat) /\ Len(recs) \in Nat BY DEF FilesOK
<1>2. CacheOf(recs, g) = f BY DEF CacheOf
<1> HIDE DEF c
<1>3. \A x \in DOMAIN c : c[x] \in Nat BY <1>1
<1>4. f \in [1..Len(recs) -> Nat] BY <1>3 DEF NoFile
<1> HIDE DEF f
<1> QED BY <1>1, <1>2, <1>4

\* What goes from cyrus.index: nothing when cyr_expire cleans up.
Goes(o) == IF o.kind = "cleanup" THEN {} ELSE o.dels

LEMMA RenameIndexInv ==
  ASSUME Inv, NEW p \in Procs, rename_index(p)
  PROVE  Inv'
<1>0. TypeInv /\ LocksOK /\ OpsOK /\ FilesOK /\ UidInv /\ QuotaInv BY DEF Inv, TypeInv
<1> DEFINE gone == Goes(op[p])
           keep == Keep(Live(Current), gone)
           rest == IF op[p].kind = "cleanup" THEN Keep(Expunged, op[p].dels) ELSE <<>>
           new == newcache(op[p].kind)
           ix == NewIndex(op[p].kind, op[p].dels)
           pc == IF new THEN "rencache" ELSE "unlock"
<1>1. /\ op[p].pc = "renindex" /\ Step(p, pc) /\ index' = Append(index, ix)
      /\ dir' = [dir EXCEPT !.index = Len(index) + 1]
      /\ cache' = IF new THEN [cache EXCEPT ![dir.cache + 1] = CacheOf(keep \o rest, dir.cache)]
                  ELSE cache
      /\ UNCHANGED <<xfile, msgs, used, header_lock, index_lock, mid, faults, pub, torn>>
  BY DEF rename_index, history, Goes
<1>2. OpOK(op[p]) /\ op[p].kind \in Expunges /\ Work(op[p]) /\ Header(op[p])
  BY <1>0, <1>1 DEF OpsOK, OpOK, Phase, TypeInv, WorkOK, Header, Lockless, Expunges
<1>3. /\ Steps(p) /\ OpOK(op'[p]) /\ op'[p].pc = pc /\ op'[p].kind = op[p].kind
      /\ op'[p].dels = op[p].dels
  <2>1. GoesOn(p, pc) BY <1>0, <1>1, StepGoesOn
  <2> QED BY <1>2, <2>1 DEF GoesOn, OpOK, Phase, Expunges, newcache
<1>4. /\ Current \in IndexFiles /\ Live(Current) \in Seq(Records)
      /\ Len(Live(Current)) = Current.exists /\ Current.exists \in Nat
      /\ \A i \in 1..Current.exists : Live(Current)[i] = Current.recs[i] /\ Current.recs[i] \in Records
      /\ dir.index \in 1..Len(index) /\ Current.gen \in 1..dir.index /\ dir.cache \in Inodes
      /\ Expunged \in Seq(Records)
  BY <1>0, CurrentType, ExpungedType
<1>5. /\ keep \in Seq(Records) /\ rest \in Seq(Records)
      /\ \E f : Picks(f, Live(Current), keep, Uids \ gone)
  <2>1. keep \in Seq(Records) /\ \E f : Picks(f, Live(Current), keep, Uids \ gone)
    BY <1>4, KeepPicks
  <2>2. Keep(Expunged, op[p].dels) \in Seq(Records) BY <1>4, KeepPicks
  <2> QED BY <2>1, <2>2
<1>6. Len(index) < MaxInodes /\ Len(index) \in Nat
  BY <1>0, <1>1, <1>2 DEF Work, RoomAt, FilesOK
<1> DEFINE n == Cardinality({i \in DOMAIN Live(Current) : Current.recs[i].uid \in gone /\ Current.recs[i].del})
           gen == IF new THEN Current.gen + 1 ELSE Current.gen
           recs == IF new THEN Recache(keep, 0) ELSE keep
<1>7. ix = [Current EXCEPT !.gen = gen, !.exists = Len(keep), !.deleted = @ - n, !.recs = recs]
  BY DEF NewIndex, Goes
<1>8. n \in Nat
  <2> DEFINE S == {i \in DOMAIN Live(Current) : Current.recs[i].uid \in gone /\ Current.recs[i].del}
  <2>0. Current.exists \in Int /\ 1 \in Int BY <1>4
  <2>1. IsFiniteSet(1..Current.exists) BY <2>0, FS_Interval
  <2>2. DOMAIN Live(Current) = 1..Current.exists BY <1>4
  <2>3. S \in SUBSET (1..Current.exists) BY <2>2
  <2>4. IsFiniteSet(S) BY <2>1, <2>3, FS_Subset
  <2> QED BY <2>4, FS_CardinalityType
<1>9. recs \in Seq(Records) /\ Len(recs) = Len(keep) /\ \A i \in 1..Len(keep) : Same(recs[i], keep[i])
      /\ Len(keep) \in Nat
  <2>1. keep \in Seq(Records) BY <1>5
  <2> HIDE DEF keep, new
  <2> QED BY <2>1, RecacheType DEF Same
<1>10. gen \in Nat /\ gen \in 1..Len(index) + 1
  <2> HIDE DEF new
  <2>1. Current.gen \in 1..dir.index /\ dir.index \in 1..Len(index) BY <1>4
  <2> QED BY <1>6, <2>1
<1> HIDE DEF n, gen, recs, keep, ix
<1>11. /\ ix \in IndexFiles /\ ix.recs = recs /\ ix.exists = Len(keep) /\ ix.gen = gen
       /\ ix.last_uid = Current.last_uid
  <2>1. Current.deleted \in Int BY <1>4 DEF IndexFiles
  <2> DEFINE m == Current.deleted - n
  <2>2. m \in Int BY <1>8, <2>1
  <2>3. ix = [Current EXCEPT !.gen = gen, !.exists = Len(keep), !.deleted = m, !.recs = recs]
    BY <1>7
  <2> DEFINE x == Len(keep)
  <2>4. x \in Nat /\ recs \in Seq(Records) /\ gen \in Nat /\ Current \in IndexFiles
    BY <1>4, <1>9, <1>10
  <2>5. ix = [Current EXCEPT !.gen = gen, !.exists = x, !.deleted = m, !.recs = recs] BY <2>3
  <2> HIDE DEF m, x
  <2>6. ix \in IndexFiles BY <2>2, <2>4, <2>5 DEF IndexFiles
  <2>7. ix.recs = recs /\ ix.exists = x /\ ix.gen = gen /\ ix.last_uid = Current.last_uid
    BY <2>4, <2>5 DEF IndexFiles
  <2> QED BY <2>6, <2>7 DEF x
<1>12. ix.exists <= Len(ix.recs) BY <1>9, <1>11
<1>13. /\ Current' = ix /\ index' \in Seq(IndexFiles) /\ Len(index') <= MaxInodes
       /\ \A i \in 1..Len(index') : index'[i].exists <= Len(index'[i].recs) /\ index'[i].gen \in 1..i
       /\ dir' \in [index : 1..Len(index'), cache : 1..Len(index')]
  BY <1>0, <1>1, <1>6, <1>10, <1>11, <1>12, IndexReplaced
<1>14. PICK f : Picks(f, Live(Current), keep, Uids \ gone) BY <1>5
<1>15. /\ \A i \in 1..Current'.exists : /\ f[i] \in 1..Current.exists
                                        /\ Same(Current'.recs[i], Current.recs[f[i]])
                                        /\ Current'.recs[i].uid \notin gone
       /\ \A i, j \in 1..Current'.exists : i < j => f[i] < f[j]
  <2>1. DOMAIN Live(Current) = 1..Current.exists BY <1>4
  <2>2. /\ \A i \in 1..Len(keep) : /\ f[i] \in 1..Current.exists /\ keep[i] = Current.recs[f[i]]
                                   /\ keep[i].uid \notin gone
        /\ \A i, j \in 1..Len(keep) : i < j => f[i] < f[j]
    BY <1>4, <1>14, <2>1 DEF Picks
  <2>3. Current'.exists = Len(keep) /\ Current'.recs = recs BY <1>11, <1>13
  <2> QED BY <1>9, <2>2, <2>3 DEF Same
<1>16. TypeInv'
  <2>1. cache' \in [Inodes -> Seq(Nat)]
    <3>1. keep \o rest \in Seq(Records)
      <4> HIDE DEF rest
      <4> QED BY <1>5
    <3>2. CacheOf(keep \o rest, dir.cache) \in Seq(Nat) BY <1>0, <1>4, <3>1, CacheOfType
    <3>3. cache \in [Inodes -> Seq(Nat)] BY <1>0 DEF FilesOK
    <3> DEFINE c == CacheOf(keep \o rest, dir.cache)
    <3>4. cache' = [cache EXCEPT ![dir.cache + 1] = c] \/ cache' = cache BY <1>1
    <3> HIDE DEF c
    <3> QED BY <3>2, <3>3, <3>4 DEF c
  <2>2. FilesOK' BY <1>0, <1>1, <1>13, <2>1 DEF FilesOK
  <2>3. LocksOK'
    <3>1. Header(op'[p]) => Header(op[p]) BY <1>2
    <3>2. op[p].pc \in IndexPcs /\ op'[p].pc \notin IndexPcs \cup Lockless
      BY <1>1, <1>3 DEF IndexPcs, Lockless
    <3> QED BY <1>0, <1>1, <1>3, <3>1, <3>2, LocksMoved
  <2>4. Work(op[p])' BY <1>3 DEF Work, RoomAt, StagedAt, CopiedAt
  <2> QED BY <1>0, <1>2, <1>3, <2>2, <2>3, <2>4, HolderType
<1>17. UidInv' /\ FileInv'
  <2>1. \A i \in 1..Current'.exists : FromMail(Current'.recs[i]) BY <1>15 DEF FromMail
  <2>2. \A i \in 1..xfile'.exists : FromMail(xfile'.recs[i]) BY <1>1 DEF FromMail, Same
  <2>3. \A u \in op'[p].dels : u <= Current.last_uid BY <1>0, <1>3 DEF UidInv, Bindings, LowAt
  <2>4. Ascending'
    <3> SUFFICES ASSUME NEW i \in 1..Current'.exists, NEW j \in 1..Current'.exists, i < j
                 PROVE  \/ Current'.recs[i].uid < Current'.recs[j].uid
                        \/ Current'.recs[i].uid = Current'.recs[j].uid /\ Current'.recs[i].uid \in torn
      BY <1>1 DEF Ascending
    <3>1. /\ f[i] \in 1..Current.exists /\ f[j] \in 1..Current.exists /\ f[i] < f[j]
          /\ Current'.recs[i].uid = Current.recs[f[i]].uid
          /\ Current'.recs[j].uid = Current.recs[f[j]].uid
      BY <1>15 DEF Same
    <3> QED BY <1>0, <3>1 DEF UidInv, Ascending
  <2>5. Distinct' BY <1>0, <1>1 DEF UidInv, Distinct
  <2>6. \A u : InIndex(u)' => InIndex(u) /\ u \notin gone BY <1>15 DEF InIndex, Same
  <2>7. \A u : InExpunge(u)' = InExpunge(u) BY <1>1 DEF InExpunge
  <2>8. ASSUME NEW u \in Uids, InIndex(u)', InExpunge(u)' PROVE u \in torn
    <3>1. u \in torn \/ (Moving(op[p]) /\ u \in op[p].dels) BY <1>2, <2>6, <2>7, <2>8, HolderApart
    <3>2. Moving(op[p]) => u \notin op[p].dels
      <4>1. Moving(op[p]) => op[p].kind # "cleanup" BY <1>1 DEF Moving
      <4> QED BY <2>6, <2>8, <4>1 DEF Goes
    <3> QED BY <3>1, <3>2
  <2>9. ASSUME ~Forced PROVE DoomedAt(op[p])'
    <3>1. DoomedAt(op[p]) BY <2>9 DEF Inv, FileInv, Doomed
    <3>2. CASE op[p].kind = "delayed" BY <1>3, <3>2 DEF DoomedAt
    <3>3. CASE op[p].kind = "cleanup"
      <4>1. \A u \in op[p].dels : InExpunge(u) BY <1>1, <3>1, <3>3 DEF DoomedAt
      <4>2. op'[p].pc = "rencache" BY <1>3, <3>3 DEF newcache
      <4> QED BY <1>3, <2>7, <3>3, <4>1, <4>2 DEF DoomedAt
    <3>4. CASE op[p].kind = "immediate"
      <4>1. ~xfile.there BY <1>2, <3>1, <3>4 DEF DoomedAt
      <4>2. xfile.exists = 0 BY <1>0, <4>1 DEF FilesOK
      <4>3. \A u : ~InExpunge(u)
        <5>1. 1..xfile.exists = {} BY <4>2
        <5> QED BY <5>1 DEF InExpunge
      <4>4. \A u \in op[p].dels : Gone(u)' BY <2>6, <2>7, <3>4, <4>3 DEF Gone, Goes
      <4>5. op'[p].pc = "rencache" BY <1>3, <3>4 DEF newcache
      <4> QED BY <1>1, <1>3, <3>4, <4>1, <4>4, <4>5 DEF DoomedAt
    <3> QED BY <1>2, <3>2, <3>3, <3>4 DEF Expunges
  <2>10. Current'.last_uid = Current.last_uid BY <1>11, <1>13
  <2> QED BY <1>1, <1>2, <1>3, <2>1, <2>2, <2>3, <2>4, <2>5, <2>8, <2>9, <2>10, MovedInv
<1>18. QuotaInv'
  <2> DEFINE d == Drop(Live(Current), gone)
  <2>1. ~Owing(op'[p]) BY <1>3 DEF Owing
  <2>2. Len(keep) + Len(d) = Current.exists /\ Len(d) \in Nat
    <3>1. d \in Seq(Records) BY <1>4, DropPicks
    <3>2. Len(keep) + Len(d) = Len(Live(Current)) BY <1>4, KeepDropLen DEF keep
    <3> HIDE DEF d
    <3> QED BY <1>4, <3>1, <3>2
  <2>3. used \in Nat /\ used + Len(d) <= Current.exists /\ (faults = 0 => used + Len(d) = Current.exists)
    <3>1. CASE op[p].kind = "cleanup"
      <4>1. ~Owing(op[p]) BY <1>1, <3>1 DEF Owing
      <4>2. used \in Nat /\ used <= Current.exists /\ (faults = 0 => used = Current.exists)
        BY <1>2, <4>1, HolderOwes
      <4>3. Len(d) = 0
        <5>1. d \in Seq(Records) /\ \E g : Picks(g, Live(Current), d, gone) BY <1>4, DropPicks
        <5>2. gone = {} BY <3>1 DEF Goes
        <5> HIDE DEF d
        <5>3. PICK g : Picks(g, Live(Current), d, {}) BY <5>1, <5>2
        <5>4. \A k \in 1..Len(d) : FALSE BY <5>3 DEF Picks
        <5>5. Len(d) \in Nat BY <5>1
        <5>6. CASE Len(d) # 0
          <6>1. 1 \in 1..Len(d) BY <5>5, <5>6
          <6> QED BY <5>4, <6>1
        <5> QED BY <5>6
      <4> HIDE DEF d
      <4> QED BY <1>4, <4>2, <4>3
    <3>2. CASE op[p].kind # "cleanup"
      <4>1. Owing(op[p]) BY <1>1, <3>2 DEF Owing
      <4>2. Owed(op[p]) = Len(d) BY <1>1, <3>2 DEF Owed, Goes
      <4> QED BY <1>2, <4>1, <4>2, HolderOwes
    <3> QED BY <3>1, <3>2
  <2> HIDE DEF d
  <2>4. Current'.exists = Len(keep) /\ Len(keep) \in Nat BY <1>9, <1>11, <1>13
  <2>5. used' \in Nat /\ Current'.exists \in Nat /\ used' <= Current'.exists
        /\ (faults' = 0 => used' + 0 = Current'.exists)
    BY <1>1, <2>2, <2>3, <2>4
  <2> QED BY <1>2, <1>3, <2>1, <2>5, HolderQuota
<1> QED BY <1>16, <1>17, <1>18 DEF Inv

-----------------------------------------------------------------------------
(* unexpunge                                                               *)

LEMMA RestoreIndexInv ==
  ASSUME Inv, NEW p \in Procs, restore_index(p)
  PROVE  Inv'
<1>0. TypeInv /\ LocksOK /\ OpsOK /\ FilesOK /\ UidInv /\ QuotaInv BY DEF Inv, TypeInv
<1> DEFINE Back(D, unset) == [i \in DOMAIN Drop(Expunged, D) |->
                                [Drop(Expunged, D)[i] EXCEPT !.del = @ /\ ~unset]]
           New(D, unset) == [Current EXCEPT
                !.uidvalidity = @ + 1,
                !.exists = Len(Merged(Live(Current), Back(D, unset))),
                !.deleted = @ + Cardinality({i \in DOMAIN Back(D, unset) : Back(D, unset)[i].del}),
                !.recs = Merged(Live(Current), Back(D, unset))]
<1>1. /\ op[p].pc = "restore" /\ op[p].kind = "unexpunge"
      /\ dir' = [dir EXCEPT !.index = Len(index) + 1]
      /\ UNCHANGED <<cache, xfile, msgs, used, header_lock, index_lock, mid, faults, pub, torn>>
  BY DEF restore_index, Has, history
<1>2. PICK D \in SUBSET UidSet(Expunged) \ {{}}, unset \in BOOLEAN :
        /\ index' = Append(index, New(D, unset))
        /\ op' = [op EXCEPT ![p].dels = D, ![p].pc = "renexpunge"]
  BY DEF restore_index
<1> DEFINE d == Drop(Expunged, D)
           back == Back(D, unset)
           live == Live(Current)
           recs == Merged(live, back)
           ix == New(D, unset)
<1>3. OpOK(op[p]) /\ Work(op[p]) /\ Header(op[p])
  BY <1>0, <1>1 DEF OpsOK, OpOK, TypeInv, WorkOK, Header, Lockless
<1>4. /\ Current \in IndexFiles /\ live \in Seq(Records) /\ Len(live) = Current.exists
      /\ Current.exists \in Nat
      /\ \A i \in 1..Current.exists : live[i] = Current.recs[i] /\ Current.recs[i] \in Records
      /\ dir.index \in 1..Len(index) /\ Current.gen \in 1..dir.index
      /\ Expunged \in Seq(Records) /\ Len(Expunged) = xfile.exists
      /\ \A i \in 1..xfile.exists : Expunged[i] = xfile.recs[i] /\ xfile.recs[i] \in Records
  BY <1>0, CurrentType, ExpungedType
<1>5. \A u \in D : InExpunge(u) /\ u \in Uids /\ u <= Current.last_uid
  <2>1. DOMAIN Expunged = 1..xfile.exists BY <1>4
  <2>2. \A u \in D : u \in UidSet(Expunged) BY <1>2
  <2>3. \A i \in 1..xfile.exists : xfile.recs[i].uid \in Uids /\ xfile.recs[i].uid <= Current.last_uid
    BY <1>0, <1>4 DEF Records, UidInv, Bindings, Bound
  <2> HIDE <1>2
  <2> QED BY <1>4, <2>1, <2>2, <2>3 DEF UidSet, InExpunge
<1>6. /\ Steps(p) /\ DOMAIN op'[p] = Fields /\ op'[p].pc = "renexpunge" /\ op'[p].kind = "unexpunge"
      /\ op'[p].n = op[p].n /\ op'[p].clen = op[p].clen /\ op'[p].flag = op[p].flag
      /\ op'[p].dels = D
  <2>1. op' = [op EXCEPT ![p].dels = D, ![p].pc = "renexpunge"] BY <1>2
  <2> HIDE <1>2
  <2> QED BY <1>0, <1>1, <1>3, <2>1 DEF OpsOK, OpOK, Steps, Fields
<1>7. OpOK(op'[p])
  <2>1. D \in SUBSET Uids BY <1>5
  <2> QED BY <1>3, <1>6, <2>1 DEF OpOK, Phase
<1>8. d \in Seq(Records) /\ \E f : Picks(f, Expunged, d, D) BY <1>4, DropPicks
<1>9. back \in Seq(Records) /\ Len(back) = Len(d) /\ \A i \in 1..Len(d) : Same(back[i], d[i])
  <2> HIDE DEF d
  <2>1. back = [i \in DOMAIN d |-> [d[i] EXCEPT !.del = @ /\ ~unset]] BY DEF d
  <2> HIDE DEF Back
  <2>2. DOMAIN d = 1..Len(d) /\ Len(d) \in Nat /\ \A i \in 1..Len(d) : d[i] \in Records BY <1>8
  <2>3. ASSUME NEW i \in 1..Len(d) PROVE back[i] \in Records /\ Same(back[i], d[i])
    <3>1. d[i] \in Records /\ (d[i].del /\ ~unset) \in BOOLEAN BY <2>2
    <3>2. back[i] = [d[i] EXCEPT !.del = d[i].del /\ ~unset] BY <2>1, <2>2
    <3> QED BY <3>1, <3>2 DEF Records, Same
  <2>4. back \in [1..Len(d) -> Records] BY <2>1, <2>2, <2>3
  <2> HIDE DEF back
  <2>5. back \in Seq(Records) /\ Len(back) = Len(d) BY <2>2, <2>4
  <2> QED BY <2>3, <2>5
<1> DEFINE n == Cardinality({i \in DOMAIN back : back[i].del})
<1>10. n \in Nat
  <2> DEFINE S == {i \in DOMAIN back : back[i].del}
  <2> HIDE DEF back
  <2>1. DOMAIN back = 1..Len(back) /\ Len(back) \in Int /\ 1 \in Int BY <1>9
  <2>2. IsFiniteSet(1..Len(back)) BY <2>1, FS_Interval
  <2>3. S \in SUBSET (1..Len(back)) BY <2>1
  <2>4. IsFiniteSet(S) BY <2>2, <2>3, FS_Subset
  <2> QED BY <2>4, FS_CardinalityType
<1>11. ix = [Current EXCEPT !.uidvalidity = @ + 1, !.exists = Len(recs), !.deleted = @ + n, !.recs = recs]
  OBVIOUS
<1>12. index' = Append(index, ix) BY <1>2
<1> HIDE <1>2 DEF New, ix, Back, back, d, n
<1>13. recs \in Seq(Records) /\ \E f : Shuffles(f, live, back, recs) BY <1>4, <1>9, MergedShuffles
<1> HIDE DEF recs, live
<1>14. PICK f : Shuffles(f, live, back, recs) BY <1>13
<1>15. PICK g : Picks(g, Expunged, d, D) BY <1>8
<1>16. Len(recs) = Current.exists + Len(d) /\ Len(d) \in Nat /\ Len(recs) \in Nat
  BY <1>4, <1>8, <1>9, <1>13, <1>14 DEF Shuffles
<1>17. /\ ix \in IndexFiles /\ ix.recs = recs /\ ix.exists = Len(recs) /\ ix.gen = Current.gen
       /\ ix.last_uid = Current.last_uid
  <2>1. Current.deleted \in Int /\ Current.uidvalidity \in Nat BY <1>4 DEF IndexFiles
  <2> DEFINE m == Current.deleted + n
             v == Current.uidvalidity + 1
             x == Len(recs)
  <2>2. m \in Int /\ v \in Nat /\ x \in Nat BY <1>10, <1>16, <2>1
  <2>3. ix = [Current EXCEPT !.uidvalidity = v, !.exists = x, !.deleted = m, !.recs = recs]
    BY <1>11
  <2>4. recs \in Seq(Records) /\ Current \in IndexFiles BY <1>4, <1>13
  <2> HIDE DEF m, v, x
  <2>5. ix \in IndexFiles BY <2>2, <2>3, <2>4 DEF IndexFiles
  <2>6. ix.recs = recs /\ ix.exists = x /\ ix.gen = Current.gen /\ ix.last_uid = Current.last_uid
    BY <2>3, <2>4 DEF IndexFiles
  <2> QED BY <2>5, <2>6 DEF x
<1>18. Len(index) < MaxInodes /\ Len(index) \in Nat
  BY <1>0, <1>1, <1>3 DEF Work, RoomAt, FilesOK
<1>19. /\ Current' = ix /\ index' \in Seq(IndexFiles) /\ Len(index') <= MaxInodes
       /\ \A i \in 1..Len(index') : index'[i].exists <= Len(index'[i].recs) /\ index'[i].gen \in 1..i
       /\ dir' \in [index : 1..Len(index'), cache : 1..Len(index')]
  <2>1. ix.gen \in 1..Len(index) + 1
    <3>1. Current.gen \in 1..dir.index /\ dir.index \in 1..Len(index) BY <1>4
    <3> QED BY <1>17, <1>18, <3>1
  <2>2. ix.exists <= Len(ix.recs) BY <1>16, <1>17
  <2> QED BY <1>0, <1>1, <1>12, <1>17, <1>18, <2>1, <2>2, IndexReplaced
<1>20. Current'.exists = Len(recs) /\ Current'.recs = recs /\ Current'.last_uid = Current.last_uid
  BY <1>17, <1>19
\* Where a record of the new index comes from.
<1> DEFINE FromIndex(i) == f[i] \in 1..Current.exists /\ recs[i] = Current.recs[f[i]]
           FromExpunge(i) == LET k == f[i] - Current.exists
                             IN /\ k \in 1..Len(d) /\ g[k] \in 1..xfile.exists
                                /\ Same(recs[i], xfile.recs[g[k]]) /\ recs[i].uid \in D
<1>21. ASSUME NEW i \in 1..Len(recs) PROVE FromIndex(i) \/ FromExpunge(i)
  <2>1. f[i] \in 1..Len(recs) /\ recs[i] = (live \o back)[f[i]] BY <1>14 DEF Shuffles
  <2>2. CASE f[i] <= Current.exists
    <3>1. f[i] \in 1..Current.exists BY <1>4, <1>16, <2>1, <2>2
    <3>2. (live \o back)[f[i]] = live[f[i]] BY <1>4, <1>9, <3>1
    <3> QED BY <1>4, <2>1, <3>1, <3>2
  <2>3. CASE ~(f[i] <= Current.exists)
    <3> DEFINE k == f[i] - Current.exists
    <3>1. k \in 1..Len(d) BY <1>4, <1>16, <2>1, <2>3
    <3>2. (live \o back)[f[i]] = back[k] BY <1>4, <1>9, <1>16, <2>1, <2>3
    <3>3. Same(back[k], d[k]) BY <1>9, <3>1
    <3>4. DOMAIN Expunged = 1..xfile.exists BY <1>4
    <3>5. g[k] \in 1..xfile.exists /\ d[k] = Expunged[g[k]] /\ Expunged[g[k]].uid \in D
      BY <1>15, <3>1, <3>4 DEF Picks
    <3>6. d[k] = xfile.recs[g[k]] BY <1>4, <3>5
    <3> HIDE DEF k
    <3>7. k \in 1..Len(d) /\ g[k] \in 1..xfile.exists /\ Same(recs[i], xfile.recs[g[k]])
          /\ recs[i].uid \in D
      BY <2>1, <3>1, <3>2, <3>3, <3>5, <3>6 DEF Same
    <3> QED BY <3>7 DEF k
  <2> QED BY <2>2, <2>3
<1>22. TypeInv'
  <2>1. FilesOK' BY <1>0, <1>1, <1>19 DEF FilesOK
  <2>2. LocksOK'
    <3>1. Header(op'[p]) => Header(op[p]) BY <1>3
    <3>2. op[p].pc \in IndexPcs /\ op'[p].pc \notin IndexPcs \cup Lockless
      BY <1>1, <1>6 DEF IndexPcs, Lockless
    <3> QED BY <1>0, <1>1, <1>6, <3>1, <3>2, LocksMoved
  <2>3. Work(op[p])' BY <1>6 DEF Work, RoomAt, StagedAt, CopiedAt
  <2> QED BY <1>0, <1>3, <1>6, <1>7, <2>1, <2>2, <2>3, HolderType
<1>23. ~Moving(op[p]) /\ Moving(op'[p]) /\ ~Owing(op[p]) /\ Owing(op'[p])
  BY <1>1, <1>6 DEF Moving, Owing
<1>24. \A u \in Uids : InIndex(u) /\ InExpunge(u) => u \in torn BY <1>3, <1>23, HolderApart
<1>25. UidInv' /\ FileInv'
  <2>1. ASSUME NEW i \in 1..Current'.exists PROVE FromMail(Current'.recs[i])
    <3>1. i \in 1..Len(recs) /\ Current'.recs[i] = recs[i] BY <1>20
    <3>2. CASE FromIndex(i) BY <3>1, <3>2 DEF FromMail, Same
    <3>3. CASE FromExpunge(i) BY <3>1, <3>3 DEF FromMail
    <3> QED BY <1>21, <3>1, <3>2, <3>3
  <2>2. \A i \in 1..xfile'.exists : FromMail(xfile'.recs[i]) BY <1>1 DEF FromMail, Same
  <2>3. \A u \in op'[p].dels : u <= Current.last_uid BY <1>5, <1>6
  <2>4. Ascending'
    <3>0. ASSUME NEW i \in 1..Len(recs), NEW j \in 1..Len(recs), i < j
          PROVE  recs[i].uid < recs[j].uid \/ (recs[i].uid = recs[j].uid /\ f[i] < f[j])
      BY <1>14, <3>0 DEF Shuffles
    <3> SUFFICES ASSUME NEW i \in 1..Len(recs), NEW j \in 1..Len(recs), i < j,
                        recs[i].uid = recs[j].uid, f[i] < f[j]
                 PROVE  recs[i].uid \in torn
      BY <1>1, <1>20, <3>0 DEF Ascending
    <3> DEFINE u == recs[i].uid
    <3>1. f[i] \in Int /\ f[j] \in Int
      <4>1. f[i] \in 1..Len(recs) /\ f[j] \in 1..Len(recs) BY <1>14 DEF Shuffles
      <4> QED BY <1>16, <4>1
    <3>2. CASE FromIndex(i) /\ FromIndex(j)
      <4>1. /\ f[i] \in 1..Current.exists /\ f[j] \in 1..Current.exists
            /\ Current.recs[f[i]].uid = u /\ Current.recs[f[j]].uid = u
        BY <3>2
      <4>2. u \in Int
        <5>1. Current.recs[f[i]] \in Records BY <1>4, <4>1
        <5>2. u \in Uids BY <4>1, <5>1 DEF Records
        <5> QED BY <5>2 DEF Uids
      <4> HIDE DEF u, FromIndex, FromExpunge
      <4>3. u \in torn BY <1>0, <4>1, <4>2 DEF UidInv, Ascending
      <4> QED BY <4>3 DEF u
    <3>3. CASE FromIndex(i) /\ FromExpunge(j)
      <4>1. InIndex(u) /\ u \in D BY <3>3 DEF InIndex
      <4> QED BY <1>5, <1>24, <4>1
    <3>4. CASE FromExpunge(i) /\ FromIndex(j)
      <4>1. InIndex(u) /\ u \in D BY <3>4 DEF InIndex
      <4> QED BY <1>5, <1>24, <4>1
    <3>5. CASE FromExpunge(i) /\ FromExpunge(j)
      <4> DEFINE k == f[i] - Current.exists
                 m == f[j] - Current.exists
      <4>1. /\ k \in 1..Len(d) /\ m \in 1..Len(d) /\ g[k] \in 1..xfile.exists /\ g[m] \in 1..xfile.exists
            /\ xfile.recs[g[k]].uid = u /\ xfile.recs[g[m]].uid = u
        BY <3>5 DEF Same
      <4>2. k < m BY <1>4, <3>1
      <4> HIDE DEF k, m
      <4>3. g[k] < g[m] BY <1>15, <4>1, <4>2 DEF Picks
      <4> HIDE DEF u, FromIndex, FromExpunge
      <4>4. u \in torn BY <1>0, <4>1, <4>3 DEF UidInv, Distinct
      <4> QED BY <4>4 DEF u
    <3> HIDE DEF FromIndex, FromExpunge
    <3> QED BY <1>21, <3>2, <3>3, <3>4, <3>5
  <2>5. Distinct' BY <1>0, <1>1 DEF UidInv, Distinct
  <2>6. ASSUME NEW u \in Uids, InIndex(u)', InExpunge(u)' PROVE u \in torn \/ u \in op'[p].dels
    <3>1. PICK i \in 1..Len(recs) : recs[i].uid = u BY <1>20, <2>6 DEF InIndex
    <3>2. InExpunge(u) BY <1>1, <2>6 DEF InExpunge
    <3>3. CASE FromIndex(i)
      <4>1. InIndex(u) BY <3>1, <3>3 DEF InIndex
      <4> QED BY <1>24, <3>2, <4>1
    <3>4. CASE FromExpunge(i) BY <1>6, <3>1, <3>4
    <3> QED BY <1>21, <3>3, <3>4
  <2>7. DoomedAt(op[p])' BY <1>6 DEF DoomedAt
  <2> QED BY <1>1, <1>3, <1>6, <1>20, <1>23, <2>1, <2>2, <2>3, <2>4, <2>5, <2>6, <2>7, MovedInv
<1>26. QuotaInv'
  <2>1. used \in Nat /\ used <= Current.exists /\ (faults = 0 => used = Current.exists)
    BY <1>3, <1>23, HolderOwes
  <2>2. Owed(op[p])' = Len(d)
    <3>1. Expunged' = Expunged BY <1>1 DEF Expunged
    <3> QED BY <1>6, <3>1 DEF Owed, d
  <2>3. /\ used' \in Nat /\ Current'.exists \in Nat /\ used' <= Current'.exists
        /\ used' + Owed(op[p])' <= Current'.exists
        /\ faults' = 0 => used' + Owed(op[p])' = Current'.exists
    BY <1>1, <1>4, <1>16, <1>20, <2>1, <2>2
  <2> QED BY <1>3, <1>6, <1>23, <2>3, HolderQuota
<1> QED BY <1>22, <1>25, <1>26 DEF Inv

-----------------------------------------------------------------------------
(* The theorems                                                            *)

LEMMA InitInv == Init => Inv
<1> SUFFICES ASSUME Init PROVE Inv OBVIOUS
<1> DEFINE ix == [gen |-> 1, uidvalidity |-> 1, exists |-> 0, last_uid |-> 0, deleted |-> 0,
                  recs |-> <<>>]
<1>1. /\ index = <<ix>> /\ dir = [index |-> 1, cache |-> 1] /\ xfile = NoExpunge
      /\ op = [p \in Procs |-> Idle]
  BY DEF Init
<1>2. Uids \subseteq Nat /\ 0 \in 0..MaxMid /\ MaxInodes \in Nat /\ MaxInodes > 0
      /\ <<>> \in Seq(Records) /\ <<>> \in Seq(Nat) /\ Len(<<>>) = 0
  BY MailboxAssumption DEF Uids
<1>3. ix \in IndexFiles /\ ix.recs = <<>> /\ ix.exists = 0 /\ ix.gen = 1 BY <1>2 DEF IndexFiles
<1> HIDE DEF ix
<1>4. Current = ix /\ index \in Seq(IndexFiles) /\ Len(index) = 1 /\ index[1] = ix
  BY <1>1, <1>3 DEF Current
<1>5. xfile \in ExpungeFiles /\ xfile.exists = 0 /\ xfile.recs = <<>> /\ xfile.there = FALSE
  BY <1>1, <1>2 DEF NoExpunge, ExpungeFiles
<1>6. FilesOK
  <2>1. /\ Len(index) <= MaxInodes
        /\ \A i \in 1..Len(index) : index[i].exists <= Len(index[i].recs) /\ index[i].gen \in 1..i
    BY <1>2, <1>3, <1>4
  <2>2. dir \in [index : 1..Len(index), cache : 1..Len(index)] BY <1>1, <1>4
  <2>3. cache \in [Inodes -> Seq(Nat)] /\ mid \in 0..MaxMid /\ used \in Nat /\ faults \in Nat
        /\ msgs \in [Uids -> 0..MaxMid] /\ pub \in [Uids -> 0..MaxMid]
    BY <1>2 DEF Init, NoFile
  <2>4. xfile.exists <= Len(xfile.recs) BY <1>2, <1>5
  <2> QED BY <1>4, <1>5, <2>1, <2>2, <2>3, <2>4 DEF FilesOK
<1>7. \A p \in Procs : op[p] = Idle BY <1>1
<1>8. OpsOK BY <1>1, <1>7, IdleOK DEF OpsOK
<1>9. LocksOK
  <2>1. \A p \in Procs : p # NoProc BY MailboxAssumption DEF Procs
  <2>2. header_lock = NoProc /\ index_lock = [i \in Inodes |-> NoProc] BY DEF Init
  <2> QED BY <1>7, <2>1, <2>2, IdleOK DEF LocksOK, Header, Lockless, IndexPcs
<1>10. WorkOK
  BY <1>7, IdleOK DEF WorkOK, Work, RoomAt, StagedAt, CopiedAt, Expunges
<1>11. 1..Current.exists = {} /\ 1..xfile.exists = {} BY <1>3, <1>4, <1>5
<1>12. UidInv
  <2>1. \A u \in Uids : pub[u] = NoFile BY DEF Init
  <2>2. Bindings BY <1>7, <1>11, <2>1, IdleOK DEF Bindings, LowAt
  <2>3. Ascending /\ Distinct BY <1>11 DEF Ascending, Distinct
  <2>4. Apart BY <1>11 DEF Apart, InIndex
  <2> QED BY <2>2, <2>3, <2>4 DEF UidInv
<1>13. FileInv
  <2>1. Doomed BY <1>7, IdleOK DEF Doomed, DoomedAt
  <2>2. MessageFiles BY <1>11 DEF MessageFiles
  <2> QED BY <2>1, <2>2 DEF FileInv
<1>14. QuotaInv
  <2>1. used = 0 /\ Current.exists = 0 BY <1>3, <1>4 DEF Init
  <2>2. \A p \in Procs : ~Owing(op[p]) BY <1>7, IdleOK DEF Owing
  <2> QED BY <2>1, <2>2 DEF QuotaInv
<1> QED BY <1>6, <1>8, <1>9, <1>10, <1>12, <1>13, <1>14 DEF Inv, TypeInv

LEMMA NextInv ==
  ASSUME Inv, [Next]_vars
  PROVE  Inv'
<1>1. CASE UNCHANGED vars BY <1>1, StutterInv
<1>2. CASE \E p \in Procs : Locking(p) \/ Kill(p)
  BY <1>2, LockHeaderInv, LockIndexInv, KillInv DEF Locking
<1>3. CASE \E p \in Deliverers : Appending(p)
  <2>1. PICK p \in Deliverers : Appending(p) BY <1>3
  <2>2. p \in Procs BY DEF Procs
  <2> QED BY <2>1, <2>2, AppendMessageInv, AppendCommitInv, AppendQuotaInv, AppendAbortInv
          DEF Appending
<1>4. CASE \E p \in Users \cup Keepers : Expunging(p)
  <2>1. PICK p \in Users \cup Keepers : Expunging(p) BY <1>4
  <2>2. p \in Procs BY DEF Procs
  <2> QED BY <2>1, <2>2, ProcessRecordsInv, PoplockedInv, ReleaseQuotaInv, ExpungeHeaderInv,
             RenameIndexInv, RenameCacheInv, RenameExpungeInv, UnlockInv, UnlinkInv, ExpungeFailsInv
          DEF Expunging
<1>5. CASE \E p \in Keepers : Restoring(p)
  <2>1. PICK p \in Keepers : Restoring(p) BY <1>5
  <2>2. p \in Procs BY DEF Procs
  <2> QED BY <2>1, <2>2, RestoreIndexInv, RestoreExpungeInv, RestoreQuotaInv, RestoreFailsInv
          DEF Restoring
<1>6. CASE \E p \in Users : Session(p)
  <2>1. PICK p \in Users : Session(p) BY <1>6
  <2>2. p \in Procs BY DEF Procs
  <2>3. CASE index_storeflag(p) BY <2>2, <2>3, StoreFlagInv
  <2>4. CASE ~index_storeflag(p) BY <2>1, <2>4, SessionInv DEF Session
  <2> QED BY <2>3, <2>4
<1>7. CASE Rest BY <1>7, StutterInv DEF Rest
<1> QED BY <1>1, <1>2, <1>3, <1>4, <1>5, <1>6, <1>7 DEF Next

LEMMA InvHolds == Spec => []Inv
<1>1. Init => Inv BY InitInv
<1>2. Inv /\ [Next]_vars => Inv' BY NextInv
<1> QED BY <1>1, <1>2, PTL DEF Spec

\* The names point to files, no header counts more records than its file has,
\* and a process that is not in an operation holds no lock.
THEOREM TypeCorrect == Spec => []TypeOK
<1>1. Inv => TypeOK
  <2> SUFFICES ASSUME Inv PROVE TypeOK OBVIOUS
  <2>1. FilesOK /\ LocksOK BY DEF Inv, TypeInv
  <2>2. dir.index \in DOMAIN index /\ dir.cache \in Inodes BY <2>1, CurrentType DEF FilesOK
  <2>3. ASSUME NEW i \in DOMAIN index PROVE index[i].exists \in 0..Len(index[i].recs)
    <3>1. index \in Seq(IndexFiles) /\ i \in 1..Len(index) BY <2>1 DEF FilesOK
    <3>2. index[i] \in IndexFiles /\ index[i].exists <= Len(index[i].recs)
      BY <2>1, <3>1 DEF FilesOK
    <3>3. index[i].exists \in Nat /\ index[i].recs \in Seq(Records) BY <3>2 DEF IndexFiles
    <3>4. Len(index[i].recs) \in Nat BY <3>3
    <3> QED BY <3>2, <3>3, <3>4
  <2>4. xfile.exists \in 0..Len(xfile.recs)
    <3>1. xfile.recs \in Seq(Records) /\ xfile.exists \in Nat /\ xfile.exists <= Len(xfile.recs)
      BY <2>1, ExpungedType
    <3>2. Len(xfile.recs) \in Nat BY <3>1
    <3> QED BY <3>1, <3>2
  <2>5. \A p \in Procs : op[p] = Idle => header_lock # p /\ \A i \in Inodes : index_lock[i] # p
    BY <2>1, IdleOK DEF LocksOK, Lockless
  <2> QED BY <2>1, <2>2, <2>3, <2>4, <2>5 DEF TypeOK, FilesOK, LocksOK
<1> QED BY <1>1, InvHolds, PTL

\* A uid that was published keeps its message, whatever append is aborted or
\* killed and whatever expunge deletes its files late.
THEOREM UidsBound == Spec => []UidBinding
<1>1. Inv => UidBinding
  <2> SUFFICES ASSUME Inv PROVE UidBinding OBVIOUS
  <2>1. Bindings BY DEF Inv, UidInv
  <2> QED BY <2>1 DEF Bindings, Bound, UidBinding
<1> QED BY <1>1, InvHolds, PTL

\* The uids of cyrus.index ascend strictly, also after an unexpunge, but for
\* messages whose expunge or restore was cut between the two files.
THEOREM UidsInOrder == Spec => []UidsAscend
<1>1. Inv => UidsAscend
  <2> SUFFICES ASSUME Inv PROVE UidsAscend OBVIOUS
  <2>1. Ascending BY DEF Inv, UidInv
  <2> QED BY <2>1 DEF Ascending, UidsAscend
<1> QED BY <1>1, InvHolds, PTL

\* quota.used never exceeds the messages that are there, and is exact when
\* nobody is at work and nothing failed.
THEOREM QuotaNeverHigh == Spec => []QuotaOneSided
<1>1. Inv => QuotaOneSided
  <2> SUFFICES ASSUME Inv PROVE QuotaOneSided OBVIOUS
  <2>1. QuotaInv BY DEF Inv
  <2>2. (\A p \in Procs : op[p] = Idle) => \A p \in Procs : ~Owing(op[p]) BY IdleOK DEF Owing
  <2> QED BY <2>1, <2>2 DEF QuotaInv, QuotaOneSided
<1> QED BY <1>1, InvHolds, PTL

\* Unless EXPUNGE_FORCE is used while cyrus.expunge has records, every message
\* that cyrus.index or cyrus.expunge counts has its file, but for those whose
\* expunge or restore was cut between the two files.
THEOREM MessagesHaveFiles == ~Forced => (Spec => []MessageFiles)
<1> SUFFICES ASSUME ~Forced PROVE Spec => []MessageFiles OBVIOUS
<1>1. Inv => MessageFiles BY DEF Inv, FileInv
<1> QED BY <1>1, InvHolds, PTL

-----------------------------------------------------------------------------
(* What the client is told                                                 *)

LEMMA LeastIn ==
  ASSUME NEW S, S \subseteq Nat, S # {}
  PROVE  \E x \in S : \A y \in S : x <= y
<1>1. PICK x \in S : \A y \in S : ~(<<y, x>> \in OpToRel(<, Nat))
  BY NatLessThanWellFounded, WFMin
<1>2. \A y \in S : ~(y < x) BY <1>1 DEF OpToRel
<1>3. \A y \in S : x <= y BY <1>2
<1> QED BY <1>3

\* What holds of 0 and, with k < n, of k + 1 holds up to n.
LEMMA UpTo ==
  ASSUME NEW n \in Nat, NEW T, 0 \in T, \A k \in 0..n : k \in T /\ k < n => k + 1 \in T
  PROVE  \A k \in 0..n : k \in T
<1> DEFINE rest == (0..n) \ T
<1> SUFFICES ASSUME rest # {} PROVE FALSE
  OBVIOUS
<1>1. rest \subseteq Nat OBVIOUS
<1>2. PICK x \in rest : \A y \in rest : x <= y
  <2> HIDE DEF rest
  <2> QED BY <1>1, LeastIn
<1>4. x \in Nat /\ x # 0 /\ x - 1 \in 0..n /\ x - 1 < x /\ x - 1 < n
  OBVIOUS
<1>5. x - 1 \in T BY <1>2, <1>4
<1>6. (x - 1) + 1 \in T BY <1>4, <1>5
<1> QED BY <1>4, <1>6

\* The function that index_check's loop computes, over the first z messages.
KeptAfter(k, u, new, last) ==
  LET m   == Len(k) + 1
      uid == IF m <= Len(new) THEN new[m] ELSE last + 1
  IN IF u < uid THEN k ELSE Append(k, u)
KeptOver(f, old, new, last, z) ==
  f = [o \in 0..z |-> IF o = 0 THEN <<>> ELSE KeptAfter(f[o - 1], old[o], new, last)]

LEMMA KeptExists ==
  ASSUME NEW old, NEW new, NEW last, NEW z \in Nat
  PROVE  \E f : KeptOver(f, old, new, last, z)
<1> DEFINE T == {n \in 0..z : \E f : KeptOver(f, old, new, last, n)}
<1>1. 0 \in T
  <2> DEFINE g == [o \in 0..0 |-> <<>>]
  <2>1. KeptOver(g, old, new, last, 0) BY DEF KeptOver
  <2> QED BY <2>1
<1>2. ASSUME NEW n \in 0..z, n \in T, n < z PROVE n + 1 \in T
  <2>1. PICK f : KeptOver(f, old, new, last, n) BY <1>2
  <2> DEFINE g == [o \in 0..n + 1 |-> IF o = 0 THEN <<>> ELSE KeptAfter(f[o - 1], old[o], new, last)]
  <2>2. \A o \in 0..n : g[o] = f[o] BY <2>1 DEF KeptOver
  <2>3. \A o \in 0..n + 1 : o # 0 => o - 1 \in 0..n OBVIOUS
  <2>4. g = [o \in 0..n + 1 |-> IF o = 0 THEN <<>> ELSE KeptAfter(g[o - 1], old[o], new, last)]
    BY <2>2, <2>3
  <2>5. KeptOver(g, old, new, last, n + 1) BY <2>4 DEF KeptOver
  <2>6. n + 1 \in 0..z BY <1>2
  <2> HIDE DEF g
  <2> QED BY <2>5, <2>6
<1> HIDE DEF T
<1>3. \A n \in 0..z : n \in T /\ n < z => n + 1 \in T BY <1>2
<1>4. \A n \in 0..z : n \in T BY <1>1, <1>3, UpTo
<1>5. z \in T BY <1>4
<1> QED BY <1>5 DEF T

LEMMA NotifiedKept ==
  ASSUME NEW old \in Seq(Nat), NEW new, NEW last
  PROVE  \E f : KeptOver(f, old, new, last, Len(old)) /\ Notified(old, new, last) = f[Len(old)]
<1> DEFINE g == CHOOSE f : KeptOver(f, old, new, last, Len(old))
<1>1. Notified(old, new, last) = g[Len(old)] BY DEF Notified, KeptOver, KeptAfter
<1>2. Len(old) \in Nat OBVIOUS
<1>3. \E f : KeptOver(f, old, new, last, Len(old)) BY <1>2, KeptExists
<1>4. KeptOver(g, old, new, last, Len(old))
  <2> DEFINE P(f) == KeptOver(f, old, new, last, Len(old))
  <2> HIDE DEF P
  <2>1. \E f : P(f) BY <1>3 DEF P
  <2>2. P(CHOOSE f : P(f)) BY <2>1
  <2> QED BY <2>2 DEF P
<1> HIDE DEF g
<1> QED BY <1>1, <1>4

\* f says where each of the messages new was among the k messages that the list
\* old begins.
Places(f, old, new, last, k) ==
  /\ f \in [1..Len(new) -> 1..k + 1] /\ Len(old) <= k
  /\ \A o \in 1..Len(old) : old[o] <= last
  /\ \A m \in 1..Len(new), o \in 1..Len(old) :
       (f[m] = o => new[m] = old[o]) /\ (f[m] > o => old[o] <= new[m])
  /\ \A m, n \in 1..Len(new) : m < n /\ f[n] <= k => f[m] < f[n]
  /\ \A o \in 1..Len(old) :
       (\E m \in 1..Len(new) : f[m] = o) \/ (\A m \in 1..Len(new) : new[m] # old[o])

\* What is kept of the first o messages is the beginning of new.
Begins(kept, new) ==
  kept \in Seq(Nat) /\ Len(kept) <= Len(new) /\ \A i \in 1..Len(kept) : kept[i] = new[i]
KeptTo(kept, f, new, o) ==
  /\ Begins(kept, new)
  /\ \A m \in 1..Len(new) : IF m <= Len(kept) THEN f[m] <= o ELSE f[m] > o

LEMMA KeptStep ==
  ASSUME NEW old \in Seq(Nat), NEW new \in Seq(Nat), NEW last \in Nat, NEW k \in Nat, NEW f,
         Places(f, old, new, last, k), NEW o \in 0..Len(old), o < Len(old), NEW kept,
         KeptTo(kept, f, new, o)
  PROVE  KeptTo(KeptAfter(kept, old[o + 1], new, last), f, new, o + 1)
<1> DEFINE c == Len(kept)
           i == o + 1
           m == c + 1
           L == Len(new)
<1>1. /\ kept \in Seq(Nat) /\ c \in Nat /\ L \in Nat /\ c <= L
      /\ i \in 1..Len(old) /\ i \in Nat /\ old[i] \in Nat /\ Len(old) \in Nat /\ i <= k /\ o \in Nat
      /\ (\A n \in 1..L : new[n] \in Nat) /\ \A n \in 1..L : f[n] \in Nat /\ f[n] <= k + 1
  <2>1. kept \in Seq(Nat) /\ Len(kept) <= Len(new) BY DEF KeptTo, Begins
  <2>2. f \in [1..L -> 1..k + 1] /\ Len(old) <= k BY DEF Places
  <2>3. \A n \in 1..L : f[n] \in 1..k + 1
    <3> HIDE DEF L
    <3> QED BY <2>2
  <2>4. \A n \in 1..L : f[n] \in Nat /\ f[n] <= k + 1
    <3> HIDE DEF L
    <3> QED BY <2>3
  <2>5. \A n \in 1..L : new[n] \in Nat OBVIOUS
  <2>6. i \in 1..Len(old) /\ old[i] \in Nat /\ i <= k BY <2>2
  <2> QED BY <2>1, <2>4, <2>5, <2>6
<1>2. old[i] <= last BY <1>1 DEF Places
<1>3. \A n \in 1..L : (f[n] = i => new[n] = old[i]) /\ (f[n] > i => old[i] <= new[n])
  BY <1>1 DEF Places
<1>4. \A n, q \in 1..L : n < q /\ f[q] <= k => f[n] < f[q] BY DEF Places
<1>5. (\E n \in 1..L : f[n] = i) \/ (\A n \in 1..L : new[n] # old[i]) BY <1>1 DEF Places
<1>6. /\ \A n \in 1..c : kept[n] = new[n]
      /\ \A n \in 1..L : IF n <= c THEN f[n] <= o ELSE f[n] > o
  <2>1. \A n \in 1..Len(kept) : kept[n] = new[n] BY DEF KeptTo, Begins
  <2>2. \A n \in 1..Len(new) : IF n <= Len(kept) THEN f[n] <= o ELSE f[n] > o
    BY Zenon DEF KeptTo
  <2> QED BY <2>1, <2>2
<1>20. \A n \in 1..L : n \in Nat BY <1>1
<1> HIDE DEF c, L
<1>7. ASSUME NEW n \in 1..L PROVE f[n] <= k \/ f[n] = k + 1
  <2>1. f[n] \in Nat /\ f[n] <= k + 1 BY <1>1
  <2> QED BY <2>1
<1>8. CASE m <= L /\ f[m] = i
  <2>1. m \in 1..L BY <1>1, <1>8
  <2>2. KeptAfter(kept, old[i], new, last) = Append(kept, old[i]) 
    <3>1. new[m] = old[i] BY <1>3, <1>8, <2>1
    <3>2. ~(old[i] < new[m]) BY <1>1, <3>1
    <3> QED BY <1>8, <3>2 DEF KeptAfter, c, L
  <2> DEFINE new1 == Append(kept, old[i])
  <2>3. /\ new1 \in Seq(Nat) /\ Len(new1) = m /\ new1[m] = old[i]
        /\ \A n \in 1..c : new1[n] = kept[n]
    BY <1>1 DEF c
  <2> HIDE DEF new1
  <2>4. \A n \in 1..m : new1[n] = new[n] 
    <3>1. new[m] = old[i] BY <1>3, <1>8, <2>1
    <3>2. \A n \in 1..m : n \in 1..c \/ n = m BY <1>1
    <3> QED BY <1>6, <2>3, <3>1, <3>2
  <2>5. Begins(new1, new) BY <1>8, <2>3, <2>4 DEF Begins, L
  <2>6. ASSUME NEW n \in 1..L PROVE IF n <= m THEN f[n] <= i ELSE f[n] > i
    <3>1. CASE n <= c
      <4>1. f[n] <= o BY <1>6, <3>1
      <4> QED BY <1>1, <3>1, <4>1
    <3>2. CASE n = m BY <1>1, <1>8, <3>2
    <3>3. CASE n > m
      <4>1. f[n] <= k => f[n] > i BY <1>1, <1>4, <1>8, <2>1, <3>3
      <4> QED BY <1>1, <1>7, <3>3, <4>1
    <3> QED BY <1>1, <3>1, <3>2, <3>3
  <2>7. KeptTo(new1, f, new, i) BY <2>3, <2>5, <2>6 DEF KeptTo, L, c
  <2> QED BY <2>2, <2>7 DEF new1
<1>9. CASE m <= L /\ f[m] # i
  <2>1. m \in 1..L /\ f[m] > i
    <3>1. m \in 1..L BY <1>1, <1>9
    <3>2. f[m] > o BY <1>1, <1>6, <3>1
    <3> QED BY <1>1, <1>9, <3>1, <3>2
  <2>2. \A n \in 1..L : f[n] # i
    <3> SUFFICES ASSUME NEW n \in 1..L, f[n] = i PROVE FALSE OBVIOUS
    <3>1. n > c BY <1>1, <1>6
    <3>2. n # m BY <1>9
    <3>3. n > m BY <1>1, <3>1, <3>2
    <3>4. f[m] < f[n] BY <1>1, <1>4, <2>1, <3>3
    <3> QED BY <1>1, <2>1, <3>4
  <2>3. new[m] # old[i] BY <1>5, <2>1, <2>2
  <2>4. old[i] < new[m] BY <1>1, <1>3, <2>1, <2>3
  <2>5. KeptAfter(kept, old[i], new, last) = kept BY <1>9, <2>4 DEF KeptAfter, c, L
  <2>6. ASSUME NEW n \in 1..L PROVE IF n <= c THEN f[n] <= i ELSE f[n] > i
    <3>1. CASE n <= c
      <4>1. f[n] <= o BY <1>6, <3>1
      <4> QED BY <1>1, <3>1, <4>1
    <3>2. CASE n = m BY <1>1, <2>1, <3>2
    <3>3. CASE n > m
      <4>1. f[n] <= k => f[m] < f[n] BY <1>1, <1>4, <2>1, <3>3
      <4> QED BY <1>1, <1>7, <2>1, <3>3, <4>1
    <3> QED BY <1>1, <3>1, <3>2, <3>3
  <2>7. KeptTo(kept, f, new, i) BY <2>6 DEF KeptTo, L, c
  <2> QED BY <2>5, <2>7
<1>10. CASE m > L
  <2>1. old[i] < last + 1 BY <1>1, <1>2
  <2>2. KeptAfter(kept, old[i], new, last) = kept BY <1>1, <1>10, <2>1 DEF KeptAfter, c, L
  <2>3. ASSUME NEW n \in 1..L PROVE IF n <= c THEN f[n] <= i ELSE f[n] > i
    BY <1>1, <1>6, <1>10
  <2>4. KeptTo(kept, f, new, i) BY <2>3 DEF KeptTo, L, c
  <2> QED BY <2>2, <2>4
<1> QED BY <1>1, <1>8, <1>9, <1>10

\* index_check's loop leaves the client with a beginning of the new list.
LEMMA NotifiedBegins ==
  ASSUME NEW old \in Seq(Nat), NEW new \in Seq(Nat), NEW last \in Nat, NEW k \in Nat, NEW f,
         Places(f, old, new, last, k)
  PROVE  Begins(Notified(old, new, last), new)
<1>1. PICK g : KeptOver(g, old, new, last, Len(old)) /\ Notified(old, new, last) = g[Len(old)]
  BY NotifiedKept
<1> DEFINE z == Len(old)
           T == {o \in 0..z : KeptTo(g[o], f, new, o)}
<1>2. z \in Nat OBVIOUS
<1>3. g[0] = <<>> /\ \A o \in 0..z : o < z => g[o + 1] = KeptAfter(g[o], old[o + 1], new, last)
  <2>1. \A o \in 0..z : o < z => o + 1 \in 0..z /\ o + 1 # 0 /\ o + 1 - 1 = o BY <1>2
  <2>2. 0 \in 0..z BY <1>2
  <2> HIDE DEF z
  <2> QED BY <1>1, <2>1, <2>2 DEF KeptOver, z
<1>4. 0 \in T
  <2>1. f \in [1..Len(new) -> 1..k + 1] BY DEF Places
  <2>2. \A m \in 1..Len(new) : f[m] > 0 /\ ~(m <= 0)
    <3> DEFINE S == 1..Len(new)
    <3>1. \A m \in S : f[m] \in 1..k + 1
      <4> HIDE DEF S
      <4> QED BY <2>1 DEF S
    <3>2. \A m \in S : m > 0 OBVIOUS
    <3> QED BY <3>1, <3>2
  <2>3. <<>> \in Seq(Nat) /\ Len(<<>>) = 0 /\ 0 <= Len(new) OBVIOUS
  <2>4. Begins(<<>>, new) BY <2>3 DEF Begins
  <2>5. KeptTo(g[0], f, new, 0) BY <1>3, <2>2, <2>3, <2>4 DEF KeptTo
  <2> QED BY <1>2, <2>5
<1>5. ASSUME NEW o \in 0..z, o \in T, o < z PROVE o + 1 \in T
  <2>1. KeptTo(KeptAfter(g[o], old[o + 1], new, last), f, new, o + 1) BY <1>5, KeptStep
  <2>2. o + 1 \in 0..z BY <1>2, <1>5
  <2> QED BY <1>3, <1>5, <2>1, <2>2
<1> HIDE DEF T
<1>6. \A o \in 0..z : o \in T BY <1>2, <1>4, <1>5, UpTo
<1>7. z \in T BY <1>2, <1>6
<1> QED BY <1>1, <1>7 DEF T, KeptTo

-----------------------------------------------------------------------------
(* The history of cyrus.index                                              *)

\* The uids a file counts ascend, up to its last_uid.
Sorted(a) ==
  /\ \A i, j \in 1..a.exists : i < j => a.recs[i].uid <= a.recs[j].uid
  /\ \A i \in 1..a.exists : a.recs[i].uid <= a.last_uid

\* The file b is what became of the file a: f[m] is where message m of b was in
\* a, or behind its end; a message of a that is gone left no other with its uid.
From(f, a, b) ==
  /\ f \in [1..b.exists -> 1..a.exists + 1]
  /\ \A m \in 1..b.exists : f[m] <= a.exists => b.recs[m].uid = a.recs[f[m]].uid
  /\ \A m \in 1..b.exists : f[m] > a.exists => b.recs[m].uid > a.last_uid
  /\ \A m, n \in 1..b.exists : m < n /\ f[n] <= a.exists => f[m] < f[n]
  /\ \A i \in 1..a.exists :
       \/ \E m \in 1..b.exists : f[m] = i
       \/ \A m \in 1..b.exists : b.recs[m].uid # a.recs[i].uid
Follows(a, b) == \E f \in [1..b.exists -> 1..a.exists + 1] : From(f, a, b)

\* A file was replaced by one with the same UIDVALIDITY or a greater one.
Later(a, b) ==
  /\ a.uidvalidity <= b.uidvalidity /\ a.last_uid <= b.last_uid
  /\ a.uidvalidity = b.uidvalidity => Follows(a, b)
FileHistory ==
  /\ dir.index = Len(index)
  /\ \A x \in 1..Len(index) : Sorted(index[x])
  /\ \A x, y \in 1..Len(index) : x <= y => Later(index[x], index[y])

\* A file that only grew: what it counted it still counts.
Grown(a, b) ==
  /\ b.gen = a.gen /\ b.uidvalidity = a.uidvalidity /\ a.last_uid <= b.last_uid
  /\ a.exists <= b.exists
  /\ \A i \in 1..a.exists : /\ b.recs[i].uid = a.recs[i].uid /\ b.recs[i].mid = a.recs[i].mid
                            /\ b.recs[i].off = a.recs[i].off
  /\ \A i \in 1..b.exists : i > a.exists => b.recs[i].uid > a.last_uid

\* What a step can do to cyrus.index.
Grows ==
  /\ dir'.index = dir.index /\ Len(index') = Len(index)
  /\ \A x \in 1..Len(index) : x # dir.index => index'[x] = index[x]
  /\ Grown(Current, Current')
Renames ==
  /\ dir'.index = Len(index) + 1 /\ Len(index') = Len(index) + 1
  /\ \A x \in 1..Len(index) : index'[x] = index[x]
  /\ Later(Current, Current')

File(a) == a \in IndexFiles /\ a.exists <= Len(a.recs)

LEMMA FileType ==
  ASSUME NEW a, File(a)
  PROVE  /\ a.exists \in Nat /\ a.last_uid \in Nat /\ a.uidvalidity \in Nat /\ a.gen \in Nat
         /\ \A i \in 1..a.exists : /\ a.recs[i] \in Records /\ a.recs[i].uid \in Nat
                                   /\ a.recs[i].uid \in Uids
<1>1. /\ a.exists \in Nat /\ a.last_uid \in 0..MaxMid /\ a.uidvalidity \in Nat /\ a.gen \in Nat
      /\ a.recs \in Seq(Records) /\ a.exists <= Len(a.recs) /\ MaxMid \in Nat
  BY MailboxAssumption DEF File, IndexFiles
<1>2. ASSUME NEW i \in 1..a.exists PROVE a.recs[i] \in Records
  <2> DEFINE r == a.recs
  <2>1. r \in Seq(Records) /\ i \in 1..Len(r) BY <1>1
  <2> HIDE DEF r
  <2>2. r[i] \in Records BY <2>1
  <2> QED BY <2>2 DEF r
<1>3. Uids \subseteq Nat BY DEF Uids
<1>4. a.last_uid \in Nat BY <1>1
<1> QED BY <1>1, <1>2, <1>3, <1>4 DEF Records

LEMMA AllFiles ==
  ASSUME FilesOK
  PROVE  (\A x \in 1..Len(index) : File(index[x])) /\ File(Current) /\ Len(index) \in Nat
         /\ dir.index \in 1..Len(index)
<1>1. index \in Seq(IndexFiles) /\ dir.index \in 1..Len(index) BY DEF FilesOK
<1>2. \A x \in 1..Len(index) : index[x] \in IndexFiles /\ index[x].exists <= Len(index[x].recs)
  BY <1>1 DEF FilesOK
<1> QED BY <1>1, <1>2 DEF File, Current

LEMMA GrownFollows ==
  ASSUME NEW a, NEW b, File(a), File(b), Sorted(a), Grown(a, b)
  PROVE  Follows(a, b)
<1> DEFINE x == a.exists
           y == b.exists
           f == [m \in 1..y |-> IF m <= x THEN m ELSE x + 1]
<1>1. x \in Nat /\ y \in Nat /\ x <= y BY FileType DEF Grown
<1>2. /\ \A i \in 1..x : b.recs[i].uid = a.recs[i].uid
      /\ \A i \in 1..y : i > x => b.recs[i].uid > a.last_uid
  BY DEF Grown
<1> HIDE DEF x, y
<1>3. f \in [1..y -> 1..x + 1] BY <1>1
<1>4. \A m \in 1..y : IF m <= x THEN f[m] = m /\ m \in 1..x ELSE f[m] = x + 1 BY <1>1
<1> HIDE DEF f
<1>5. \A m \in 1..y : f[m] <= x => b.recs[m].uid = a.recs[f[m]].uid BY <1>1, <1>2, <1>4
<1>6. \A m \in 1..y : f[m] > x => b.recs[m].uid > a.last_uid BY <1>1, <1>2, <1>4
<1>7. \A m, n \in 1..y : m < n /\ f[n] <= x => f[m] < f[n] BY <1>1, <1>4
<1>8. \A i \in 1..x : \E m \in 1..y : f[m] = i BY <1>1, <1>4
<1>9. From(f, a, b) BY <1>3, <1>5, <1>6, <1>7, <1>8 DEF From, x, y
<1> QED BY <1>3, <1>9 DEF Follows, x, y

LEMMA FollowsThrough ==
  ASSUME NEW a, NEW b, NEW c, File(a), File(b), File(c), Sorted(a), a.last_uid <= b.last_uid,
         Follows(a, b), Follows(b, c)
  PROVE  Follows(a, c)
<1> DEFINE x == a.exists
           y == b.exists
           z == c.exists
<1>1. x \in Nat /\ y \in Nat /\ z \in Nat /\ a.last_uid \in Nat /\ b.last_uid \in Nat
      /\ (\A i \in 1..x : a.recs[i].uid \in Nat) /\ (\A i \in 1..y : b.recs[i].uid \in Nat)
      /\ (\A i \in 1..z : c.recs[i].uid \in Nat)
  BY FileType
<1>2. PICK f \in [1..y -> 1..x + 1] : From(f, a, b) BY DEF Follows
<1>3. PICK g \in [1..z -> 1..y + 1] : From(g, b, c) BY DEF Follows
<1>4. /\ \A m \in 1..y : f[m] <= x => b.recs[m].uid = a.recs[f[m]].uid
      /\ \A m \in 1..y : f[m] > x => b.recs[m].uid > a.last_uid
      /\ \A m, n \in 1..y : m < n /\ f[n] <= x => f[m] < f[n]
      /\ \A i \in 1..x : \/ \E m \in 1..y : f[m] = i
                         \/ \A m \in 1..y : b.recs[m].uid # a.recs[i].uid
  BY <1>2 DEF From
<1>5. /\ \A m \in 1..z : g[m] <= y => c.recs[m].uid = b.recs[g[m]].uid
      /\ \A m \in 1..z : g[m] > y => c.recs[m].uid > b.last_uid
      /\ \A m, n \in 1..z : m < n /\ g[n] <= y => g[m] < g[n]
      /\ \A i \in 1..y : \/ \E m \in 1..z : g[m] = i
                         \/ \A m \in 1..z : c.recs[m].uid # b.recs[i].uid
  BY <1>3 DEF From
<1>6. \A i \in 1..x : a.recs[i].uid <= a.last_uid BY DEF Sorted
<1> HIDE DEF x, y, z
<1> DEFINE h == [m \in 1..z |-> IF g[m] <= y THEN f[g[m]] ELSE x + 1]
<1>7. \A m \in 1..y : f[m] \in 1..x + 1 BY <1>2
<1>8. \A m \in 1..z : g[m] \in 1..y + 1 /\ g[m] \in Nat /\ (g[m] <= y => g[m] \in 1..y)
  BY <1>1, <1>3
<1>9. h \in [1..z -> 1..x + 1] BY <1>1, <1>7, <1>8
<1>10. \A m \in 1..z : h[m] = IF g[m] <= y THEN f[g[m]] ELSE x + 1 OBVIOUS
<1> HIDE DEF h
<1>11. ASSUME NEW m \in 1..z, h[m] <= x PROVE g[m] \in 1..y /\ h[m] = f[g[m]]
  <2>1. g[m] <= y BY <1>1, <1>10, <1>11
  <2> QED BY <1>8, <1>10, <2>1
<1>12. \A m \in 1..z : h[m] <= x => c.recs[m].uid = a.recs[h[m]].uid
  <2> SUFFICES ASSUME NEW m \in 1..z, h[m] <= x PROVE c.recs[m].uid = a.recs[h[m]].uid OBVIOUS
  <2>1. g[m] \in 1..y /\ h[m] = f[g[m]] /\ g[m] <= y BY <1>1, <1>11
  <2> QED BY <1>4, <1>5, <2>1
<1>13. \A m \in 1..z : h[m] > x => c.recs[m].uid > a.last_uid
  <2> SUFFICES ASSUME NEW m \in 1..z, h[m] > x PROVE c.recs[m].uid > a.last_uid OBVIOUS
  <2>1. CASE g[m] <= y
    <3>1. g[m] \in 1..y /\ h[m] = f[g[m]] BY <1>8, <1>10, <2>1
    <3>2. b.recs[g[m]].uid > a.last_uid BY <1>4, <3>1
    <3> QED BY <1>5, <2>1, <3>2
  <2>2. CASE ~(g[m] <= y)
    <3>1. c.recs[m].uid > b.last_uid BY <1>1, <1>5, <1>8, <2>2
    <3> QED BY <1>1, <3>1
  <2> QED BY <2>1, <2>2
<1>14. \A m, n \in 1..z : m < n /\ h[n] <= x => h[m] < h[n]
  <2> SUFFICES ASSUME NEW m \in 1..z, NEW n \in 1..z, m < n, h[n] <= x PROVE h[m] < h[n] OBVIOUS
  <2>1. g[n] \in 1..y /\ h[n] = f[g[n]] /\ g[n] <= y BY <1>1, <1>11
  <2>2. g[m] < g[n] BY <1>5, <2>1
  <2>3. g[m] <= y /\ g[m] \in 1..y BY <1>1, <1>8, <2>1, <2>2
  <2>4. h[m] = f[g[m]] BY <1>10, <2>3
  <2>5. f[g[m]] < f[g[n]] BY <1>4, <2>1, <2>2, <2>3
  <2> QED BY <2>1, <2>4, <2>5
<1>15. ASSUME NEW i \in 1..x
       PROVE  (\E m \in 1..z : h[m] = i) \/ (\A m \in 1..z : c.recs[m].uid # a.recs[i].uid)
  <2>1. CASE \E k \in 1..y : f[k] = i
    <3>1. PICK k \in 1..y : f[k] = i BY <2>1
    <3>2. b.recs[k].uid = a.recs[i].uid BY <1>1, <1>4, <3>1
    <3>3. CASE \E m \in 1..z : g[m] = k
      <4>1. PICK m \in 1..z : g[m] = k BY <3>3
      <4>2. g[m] <= y BY <1>1, <4>1
      <4>3. h[m] = i BY <1>10, <3>1, <4>1, <4>2
      <4> QED BY <4>3
    <3>4. CASE \A m \in 1..z : c.recs[m].uid # b.recs[k].uid BY <3>2, <3>4
    <3> QED BY <1>5, <3>3, <3>4
  <2>2. CASE \A k \in 1..y : b.recs[k].uid # a.recs[i].uid
    <3>1. ASSUME NEW m \in 1..z PROVE c.recs[m].uid # a.recs[i].uid
      <4>1. CASE g[m] <= y
        <5>1. g[m] \in 1..y BY <1>8, <4>1
        <5> QED BY <1>5, <2>2, <4>1, <5>1
      <4>2. CASE ~(g[m] <= y)
        <5>1. c.recs[m].uid > b.last_uid BY <1>1, <1>5, <1>8, <4>2
        <5>2. a.recs[i].uid <= a.last_uid BY <1>6
        <5> QED BY <1>1, <5>1, <5>2
      <4> QED BY <4>1, <4>2
    <3> QED BY <3>1
  <2> QED BY <1>4, <2>1, <2>2
<1>16. From(h, a, c) BY <1>9, <1>12, <1>13, <1>14, <1>15 DEF From, x, z
<1> QED BY <1>9, <1>16 DEF Follows, x, z

\* A file that has the messages with the uids in K is what became of a.
LEMMA PickedFollows ==
  ASSUME NEW a, NEW b, File(a), File(b), NEW K, NEW list, NEW f, Picks(f, Live(a), list, K),
         Len(Live(a)) = a.exists, DOMAIN Live(a) = 1..a.exists,
         \A i \in 1..a.exists : Live(a)[i] = a.recs[i],
         b.exists = Len(list), \A i \in 1..Len(list) : b.recs[i].uid = list[i].uid
  PROVE  Follows(a, b)
<1> DEFINE x == a.exists
           y == b.exists
<1>1. x \in Nat /\ y \in Nat BY FileType
<1>2. /\ f \in [1..y -> {i \in 1..x : Live(a)[i].uid \in K}]
      /\ \A n \in 1..y : list[n] = Live(a)[f[n]]
      /\ \A i \in 1..x : Live(a)[i].uid \in K => \E n \in 1..y : f[n] = i
      /\ \A n, m \in 1..y : n < m => f[n] < f[m]
  BY DEF Picks
<1>3. /\ \A i \in 1..x : Live(a)[i] = a.recs[i]
      /\ \A i \in 1..y : b.recs[i].uid = list[i].uid
  OBVIOUS
<1> HIDE DEF x, y
<1>4. \A n \in 1..y : f[n] \in 1..x /\ Live(a)[f[n]].uid \in K BY <1>2
<1>5. f \in [1..y -> 1..x + 1]
  <2>1. \A n \in 1..y : f[n] \in 1..x + 1 BY <1>1, <1>4
  <2>2. f = [n \in 1..y |-> f[n]] BY <1>2
  <2> QED BY <2>1, <2>2
<1>6. \A n \in 1..y : b.recs[n].uid = a.recs[f[n]].uid /\ b.recs[n].uid \in K
  BY <1>2, <1>3, <1>4
<1>7. \A n \in 1..y : f[n] > x => b.recs[n].uid > a.last_uid BY <1>1, <1>4
<1>8. ASSUME NEW i \in 1..x
      PROVE  (\E m \in 1..y : f[m] = i) \/ (\A m \in 1..y : b.recs[m].uid # a.recs[i].uid)
  <2>1. CASE a.recs[i].uid \in K BY <1>2, <1>3, <2>1
  <2>2. CASE a.recs[i].uid \notin K BY <1>6, <2>2
  <2> QED BY <2>1, <2>2
<1>9. From(f, a, b) BY <1>2, <1>5, <1>6, <1>7, <1>8 DEF From, x, y
<1> QED BY <1>5, <1>9 DEF Follows, x, y

LEMMA LaterThrough ==
  ASSUME NEW a, NEW b, NEW c, File(a), File(b), File(c), Sorted(a), Later(a, b), Later(b, c)
  PROVE  Later(a, c)
<1>1. /\ a.uidvalidity <= b.uidvalidity /\ a.last_uid <= b.last_uid
      /\ b.uidvalidity <= c.uidvalidity /\ b.last_uid <= c.last_uid
  BY DEF Later
<1>2. /\ a.uidvalidity \in Nat /\ b.uidvalidity \in Nat /\ c.uidvalidity \in Nat
      /\ a.last_uid \in Nat /\ b.last_uid \in Nat /\ c.last_uid \in Nat
  BY FileType
<1>3. a.uidvalidity <= c.uidvalidity /\ a.last_uid <= c.last_uid BY <1>1, <1>2
<1>4. ASSUME a.uidvalidity = c.uidvalidity PROVE Follows(a, c)
  <2>1. a.uidvalidity = b.uidvalidity /\ b.uidvalidity = c.uidvalidity BY <1>1, <1>2, <1>4
  <2>2. Follows(a, b) /\ Follows(b, c) BY <2>1 DEF Later
  <2> QED BY <1>1, <2>2, FollowsThrough
<1> QED BY <1>3, <1>4 DEF Later

LEMMA GrownLater ==
  ASSUME NEW a, NEW b, File(a), File(b), Sorted(a), Grown(a, b)
  PROVE  Later(a, b)
<1>1. Follows(a, b) BY GrownFollows
<1>2. a.uidvalidity \in Nat /\ b.uidvalidity = a.uidvalidity /\ a.last_uid <= b.last_uid
  BY FileType DEF Grown
<1>3. a.uidvalidity <= b.uidvalidity BY <1>2
<1> QED BY <1>1, <1>2, <1>3 DEF Later

LEMMA GrownSelf ==
  ASSUME NEW a, File(a)
  PROVE  Grown(a, a)
BY FileType DEF Grown

LEMMA LaterSelf ==
  ASSUME NEW a, File(a), Sorted(a)
  PROVE  Later(a, a)
BY GrownLater, GrownSelf

LEMMA HistoryNext ==
  ASSUME FilesOK, FilesOK', FileHistory, Sorted(Current)', Grows \/ Renames
  PROVE  FileHistory'
<1> DEFINE L == Len(index)
           M == Len(index')
           c == index'[M]
<1>1. /\ \A x \in 1..L : File(index[x]) 
      /\ L \in Nat /\ dir.index = L /\ Current = index[L] /\ L \in 1..L
  BY AllFiles DEF FileHistory, Current
<1>2. (\A x \in 1..M : File(index'[x])) /\ M \in Nat
  <2>1. \A i \in 1..M : index'[i] \in IndexFiles /\ index'[i].exists <= Len(index'[i].recs)
    <3>1. index' \in Seq(IndexFiles) BY DEF FilesOK
    <3> QED BY <3>1 DEF FilesOK
  <2>2. M \in Nat
    <3>1. index' \in Seq(IndexFiles) BY DEF FilesOK
    <3> QED BY <3>1
  <2> QED BY <2>1, <2>2 DEF File
<1>3. (\A x \in 1..L : Sorted(index[x])) /\ \A x, y \in 1..L : x <= y => Later(index[x], index[y])
  BY DEF FileHistory
<1>4. /\ M \in 1..M /\ dir'.index = M /\ Current' = c /\ M - 1 <= L /\ L <= M
      /\ \A x \in 1..M : x # M => x \in 1..L /\ index'[x] = index[x]
      /\ Later(Current, c)
  <2>1. CASE Grows
    <3>1. /\ dir'.index = L /\ M = L /\ Grown(Current, Current')
          /\ \A x \in 1..L : x # L => index'[x] = index[x]
      BY <1>1, <2>1 DEF Grows
    <3>2. Current' = c BY <3>1 DEF Current
    <3>3. File(c) /\ File(Current) /\ Sorted(Current) BY <1>1, <1>2, <1>3, <3>1
    <3>4. Later(Current, c) BY <3>1, <3>2, <3>3, GrownLater
    <3> HIDE DEF c, L, M
    <3> QED BY <1>1, <3>1, <3>2, <3>4
  <2>2. CASE Renames
    <3>1. /\ dir'.index = M /\ M = L + 1 /\ Later(Current, Current')
          /\ \A x \in 1..L : index'[x] = index[x]
      BY <1>1, <2>2 DEF Renames
    <3>2. Current' = c BY <3>1 DEF Current
    <3> HIDE DEF c, L, M
    <3> QED BY <1>1, <3>1, <3>2
  <2> QED BY <2>1, <2>2
<1>5. Sorted(c) BY <1>4
<1> HIDE DEF L, M, c
<1>6. File(c) BY <1>2, <1>4 DEF c
<1>7. ASSUME NEW x \in 1..M PROVE Sorted(index'[x]) /\ Later(index'[x], c)
  <2>1. CASE x = M BY <1>5, <1>6, <2>1, LaterSelf DEF c
  <2>2. CASE x # M
    <3>1. x \in 1..L /\ index'[x] = index[x] BY <1>4, <2>2
    <3>2. x <= L /\ File(index[x]) /\ Sorted(index[x]) BY <1>1, <1>3, <3>1
    <3>3. Later(index[x], Current) BY <1>1, <1>3, <3>1, <3>2
    <3>4. File(Current) BY <1>1
    <3>5. Later(index[x], c) BY <1>4, <1>6, <3>2, <3>3, <3>4, LaterThrough
    <3> QED BY <3>1, <3>2, <3>5
  <2> QED BY <2>1, <2>2
<1>8. ASSUME NEW x \in 1..M, NEW y \in 1..M, x <= y PROVE Later(index'[x], index'[y])
  <2>1. CASE y = M BY <1>7, <2>1 DEF c
  <2>2. CASE y # M
    <3>1. x # M BY <1>2, <1>8, <2>2
    <3>2. x \in 1..L /\ y \in 1..L /\ index'[x] = index[x] /\ index'[y] = index[y]
      BY <1>4, <2>2, <3>1
    <3> QED BY <1>3, <1>8, <3>2
  <2> QED BY <2>1, <2>2
<1>9. dir'.index = Len(index') BY <1>4 DEF M
<1>10. \A x \in 1..M : Sorted(index'[x]) BY <1>7
<1>11. \A x, y \in 1..M : x <= y => Later(index'[x], index'[y]) BY <1>8
<1> QED BY <1>9, <1>10, <1>11 DEF FileHistory, M, Sorted, Later, Follows, From

LEMMA SortedFile ==
  ASSUME NEW a, File(a),
         \A i, j \in 1..a.exists : i < j =>
           a.recs[i].uid < a.recs[j].uid \/ a.recs[i].uid = a.recs[j].uid,
         \A i \in 1..a.exists : a.recs[i].uid <= a.last_uid
  PROVE  Sorted(a)
<1>1. \A i \in 1..a.exists : a.recs[i].uid \in Nat BY FileType
<1>2. \A i, j \in 1..a.exists : i < j => a.recs[i].uid <= a.recs[j].uid BY <1>1
<1> QED BY <1>2 DEF Sorted

LEMMA SortedNext ==
  ASSUME FilesOK', UidInv'
  PROVE  Sorted(Current)' /\ File(Current)'
<1>1. File(Current')
  <2>1. index' \in Seq(IndexFiles) /\ dir'.index \in 1..Len(index') BY DEF FilesOK
  <2>2. index'[dir'.index] \in IndexFiles /\ index'[dir'.index].exists <= Len(index'[dir'.index].recs)
    BY <2>1 DEF FilesOK
  <2> QED BY <2>2 DEF Current, File
<1>2. /\ \A i, j \in 1..Current'.exists : i < j =>
           Current'.recs[i].uid < Current'.recs[j].uid \/ Current'.recs[i].uid = Current'.recs[j].uid
      /\ \A i \in 1..Current'.exists : Current'.recs[i].uid <= Current'.last_uid
  BY DEF UidInv, Ascending, Bindings, Bound
<1>3. Sorted(Current') BY <1>1, <1>2, SortedFile
<1> QED BY <1>1, <1>3 DEF Sorted, File

\* The steps that leave cyrus.index alone.
LEMMA StillGrows ==
  ASSUME FilesOK, index' = index, dir'.index = dir.index
  PROVE  Grows
<1>1. Current' = Current BY DEF Current
<1>2. Grown(Current, Current) BY AllFiles, GrownSelf
<1> QED BY <1>1, <1>2 DEF Grows

LEMMA WrittenGrows ==
  ASSUME FilesOK, NEW ix, index' = [index EXCEPT ![dir.index] = ix], dir' = dir, Grown(Current, ix)
  PROVE  Grows /\ Current' = ix
<1>1. index \in Seq(IndexFiles) /\ dir.index \in 1..Len(index) BY DEF FilesOK
<1>2. /\ Len(index') = Len(index) /\ index'[dir.index] = ix
      /\ \A x \in 1..Len(index) : x # dir.index => index'[x] = index[x]
  BY <1>1
<1>3. Current' = ix BY <1>2 DEF Current
<1> QED BY <1>2, <1>3 DEF Grows

LEMMA AppendMessageGrows ==
  ASSUME Inv, NEW p \in Procs, append_message(p)
  PROVE  /\ Grows /\ Current'.exists = Current.exists
         /\ \A i \in 1..Current.exists + op[p].n : Current'.recs[i] = Current.recs[i]
         /\ Current'.recs[Current.exists + op[p].n + 1] =
              Record(Current.last_uid + op[p].n + 1, mid + 1, Len(cache[dir.cache]) + 1)
<1>0. TypeInv /\ LocksOK /\ OpsOK /\ FilesOK BY DEF Inv, TypeInv
<1> DEFINE n == op[p].n
           uid == Current.last_uid + n + 1
           off == Len(cache[dir.cache]) + 1
           r == Record(uid, mid + 1, off)
           at == Current.exists + n + 1
           recs == WriteAt(Current.recs, at, <<r>>)
           ix == [Current EXCEPT !.recs = recs]
<1>1. dir.index \in DOMAIN index /\ Current = index[dir.index]
  BY <1>0, CurrentType DEF FilesOK, Current
<1>2. op[p].pc = "append" /\ mid < MaxMid /\ uid \in Uids /\ UNCHANGED dir
  BY DEF append_message, history
<1>3. index' = [index EXCEPT ![dir.index] = ix] BY <1>1 DEF append_message
<1>4. OpOK(op[p]) /\ n \in Nat /\ Work(op[p])
  BY <1>0, <1>2 DEF OpsOK, OpOK, TypeInv, WorkOK
<1>5. Current.exists + n <= Len(Current.recs) BY <1>2, <1>4 DEF Work, StagedAt
<1>6. /\ Current \in IndexFiles /\ Current.recs \in Seq(Records) /\ Current.exists \in Nat
      /\ Current.last_uid \in 0..MaxMid /\ dir.cache \in Inodes /\ Len(Current.recs) \in Nat
      /\ File(Current)
  BY <1>0, CurrentType, MailboxAssumption, AllFiles
<1>7. cache[dir.cache] \in Seq(Nat) /\ mid \in 0..MaxMid /\ MaxMid \in Nat
  BY <1>0, <1>6, MailboxAssumption DEF FilesOK
<1>8. mid + 1 \in 1..MaxMid /\ off \in Nat BY <1>2, <1>7
<1>9. r \in Records BY <1>2, <1>8 DEF Records, Record
<1> HIDE DEF r
<1>10. <<r>> \in Seq(Records) /\ Len(<<r>>) = 1 BY <1>9
<1>11. at \in 1..Len(Current.recs) + 1 BY <1>4, <1>5, <1>6
<1>12. (\A i \in 1..Current.exists + n : recs[i] = Current.recs[i]) /\ recs[at] = r
  <2> HIDE DEF at
  <2>1. /\ \A i \in 1..at - 1 : recs[i] = Current.recs[i]
        /\ \A i \in 1..Len(<<r>>) : recs[at - 1 + i] = <<r>>[i]
    BY <1>6, <1>10, <1>11, WriteAtFacts
  <2>2. at - 1 = Current.exists + n /\ at \in Int BY <1>4, <1>6 DEF at
  <2>3. recs[at - 1 + 1] = r BY <1>10, <2>1
  <2>4. at - 1 + 1 = at BY <2>2
  <2> QED BY <2>1, <2>2, <2>3, <2>4
<1> HIDE DEF recs
<1>13. /\ ix.recs = recs /\ ix.exists = Current.exists /\ ix.uidvalidity = Current.uidvalidity
       /\ ix.last_uid = Current.last_uid /\ ix.gen = Current.gen
  BY <1>6 DEF IndexFiles
<1> HIDE DEF ix
<1>14. Grown(Current, ix)
  <2>1. Current.last_uid \in Nat /\ Current.exists \in Nat BY <1>6, FileType
  <2>2. \A i \in 1..Current.exists : i \in 1..Current.exists + n BY <1>4, <2>1
  <2> QED BY <1>12, <1>13, <2>1, <2>2 DEF Grown
<1>15. Grows /\ Current' = ix BY <1>0, <1>2, <1>3, <1>14, WrittenGrows
<1> QED BY <1>12, <1>13, <1>15 DEF r

LEMMA AppendCommitGrows ==
  ASSUME Inv, NEW p \in Procs, append_commit(p)
  PROVE  Grows /\ Current'.exists = Current.exists + op[p].n /\ Current'.recs = Current.recs
<1>0. TypeInv /\ LocksOK /\ OpsOK /\ FilesOK BY DEF Inv, TypeInv
<1> DEFINE n == op[p].n
           e == Current.exists
           l == Current.last_uid
           ix == [Current EXCEPT !.exists = e + n, !.last_uid = l + n]
<1>1. dir.index \in DOMAIN index /\ Current = index[dir.index]
  BY <1>0, CurrentType DEF FilesOK, Current
<1>2. op[p].pc = "append" /\ UNCHANGED dir BY DEF append_commit
<1>3. index' = [index EXCEPT ![dir.index] = ix] BY <1>1 DEF append_commit
<1>4. OpOK(op[p]) /\ n \in Nat /\ Work(op[p])
  BY <1>0, <1>2 DEF OpsOK, OpOK, TypeInv, WorkOK
<1>5. \A k \in 1..n : Current.recs[e + k].uid = l + k BY <1>2, <1>4 DEF Work, StagedAt
<1>6. Current \in IndexFiles /\ File(Current) /\ e \in Nat /\ l \in Nat
  BY <1>0, CurrentType, AllFiles, FileType
<1> HIDE DEF e, l, n
<1>7. /\ ix.recs = Current.recs /\ ix.exists = e + n /\ ix.last_uid = l + n
      /\ ix.gen = Current.gen /\ ix.uidvalidity = Current.uidvalidity
  BY <1>6 DEF IndexFiles
<1> HIDE DEF ix
<1>8. ASSUME NEW i \in 1..e + n, i > e PROVE ix.recs[i].uid > l
  <2>1. i - e \in 1..n /\ i = e + (i - e) BY <1>4, <1>6, <1>8 DEF n
  <2>2. ix.recs[i].uid = l + (i - e) BY <1>5, <1>7, <2>1
  <2> QED BY <1>6, <2>1, <2>2
<1>9. n \in Nat BY <1>4 DEF n
<1>10. e <= e + n /\ l <= l + n BY <1>6, <1>9
<1>11. Grown(Current, ix) BY <1>7, <1>8, <1>10 DEF Grown, e, l
<1> QED BY <1>0, <1>2, <1>3, <1>7, <1>11, WrittenGrows DEF e, n

LEMMA StoreFlagGrows ==
  ASSUME Inv, NEW p \in Procs, index_storeflag(p)
  PROVE  Grows /\ Current'.exists = Current.exists
<1>0. TypeInv /\ LocksOK /\ OpsOK /\ FilesOK BY DEF Inv, TypeInv
<1>1. dir' = dir BY DEF index_storeflag
<1> DEFINE Flagged(at, flag) == [i \in DOMAIN Current.recs |->
             IF i \in at THEN [Current.recs[i] EXCEPT !.del = flag] ELSE Current.recs[i]]
           ix(at, flag, n) == [Current EXCEPT !.deleted = @ + n, !.recs = Flagged(at, flag)]
<1>2. index' = index \/ \E at, flag, n : index' = [index EXCEPT ![dir.index] = ix(at, flag, n)]
  <2> DEFINE uid == view[p].uids[op[p].msgno]
             at == {i \in 1..Current.exists : Current.recs[i].uid = uid}
             was == IF at # {} THEN Current.recs[CHOOSE i \in at : TRUE].del
                    ELSE index[view[p].ino].recs[op[p].msgno].del
             n == CASE op[p].flag /\ ~was -> 1 [] ~op[p].flag /\ was -> -1 [] OTHER -> 0
  <2>2. index' = IF at = {} /\ op[p].usinguid THEN index
                 ELSE [index EXCEPT
                   ![dir.index].deleted = @ + n,
                   ![dir.index].recs =
                      [i \in DOMAIN @ |-> IF i \in at THEN [@[i] EXCEPT !.del = op[p].flag]
                                          ELSE @[i]]]
    BY DEF index_storeflag
  <2> HIDE DEF n, at
  <2>4. dir.index \in DOMAIN index /\ Current = index[dir.index]
    BY <1>0, CurrentType DEF FilesOK, Current
  <2>5. \/ index' = index \/ index' = [index EXCEPT ![dir.index] = ix(at, op[p].flag, n)]
    BY <2>2, <2>4 DEF Current
  <2> HIDE DEF ix
  <2> QED BY <2>5
<1>3. CASE index' = index
  <2>1. Current' = Current BY <1>1, <1>3 DEF Current
  <2> QED BY <1>0, <1>1, <1>3, <2>1, StillGrows
<1>4. CASE \E at, flag, n : index' = [index EXCEPT ![dir.index] = ix(at, flag, n)]
  <2>1. PICK at, flag, n : index' = [index EXCEPT ![dir.index] = ix(at, flag, n)] BY <1>4
  <2> DEFINE new == ix(at, flag, n)
  <2>2. Current \in IndexFiles /\ Current.recs \in Seq(Records) /\ File(Current)
        /\ Current.exists <= Len(Current.recs) /\ Current.exists \in Nat /\ Current.last_uid \in Nat
    BY <1>0, CurrentType, AllFiles, FileType
  <2>3. /\ new.recs = Flagged(at, flag) /\ new.exists = Current.exists
        /\ new.uidvalidity = Current.uidvalidity /\ new.last_uid = Current.last_uid
        /\ new.gen = Current.gen
    BY <2>2 DEF IndexFiles
  <2> HIDE DEF ix
  <2>4. ASSUME NEW i \in 1..Current.exists
        PROVE  /\ Flagged(at, flag)[i].uid = Current.recs[i].uid
               /\ Flagged(at, flag)[i].mid = Current.recs[i].mid
               /\ Flagged(at, flag)[i].off = Current.recs[i].off
    <3> DEFINE r == Current.recs
    <3>1. r \in Seq(Records) /\ i \in 1..Len(r) BY <2>2
    <3>2. Flagged(at, flag)[i] = IF i \in at THEN [r[i] EXCEPT !.del = flag] ELSE r[i] BY <3>1
    <3> HIDE DEF Flagged, r
    <3>3. r[i] \in Records BY <3>1
    <3>4. /\ Flagged(at, flag)[i].uid = r[i].uid /\ Flagged(at, flag)[i].mid = r[i].mid
          /\ Flagged(at, flag)[i].off = r[i].off
      BY <3>2, <3>3 DEF Records
    <3> QED BY <3>4 DEF r
  <2> HIDE DEF Flagged, new
  <2>5. Grown(Current, new) BY <2>2, <2>3, <2>4 DEF Grown
  <2>6. index' = [index EXCEPT ![dir.index] = new] BY <2>1 DEF new
  <2> QED BY <1>0, <1>1, <2>3, <2>5, <2>6, WrittenGrows
<1> QED BY <1>2, <1>3, <1>4

LEMMA AddedRenames ==
  ASSUME FilesOK, NEW ix, index' = Append(index, ix), dir'.index = Len(index) + 1, Later(Current, ix)
  PROVE  Renames /\ Current' = ix
<1>1. index \in Seq(IndexFiles) BY DEF FilesOK
<1>2. /\ Len(index') = Len(index) + 1 /\ index'[Len(index) + 1] = ix
      /\ \A x \in 1..Len(index) : index'[x] = index[x]
  BY <1>1
<1>3. Current' = ix BY <1>2 DEF Current
<1> QED BY <1>2, <1>3 DEF Renames

LEMMA RenameIndexRenames ==
  ASSUME Inv, Inv', NEW p \in Procs, rename_index(p)
  PROVE  Renames
<1>0. FilesOK BY DEF Inv, TypeInv
<1> DEFINE gone == Goes(op[p])
           keep == Keep(Live(Current), gone)
           new == newcache(op[p].kind)
           ix == NewIndex(op[p].kind, op[p].dels)
           n == Cardinality({i \in DOMAIN Live(Current) : Current.recs[i].uid \in gone /\ Current.recs[i].del})
           gen == IF new THEN Current.gen + 1 ELSE Current.gen
           recs == IF new THEN Recache(keep, 0) ELSE keep
<1>1. index' = Append(index, ix) /\ dir' = [dir EXCEPT !.index = Len(index) + 1]
  BY DEF rename_index
<1>2. dir'.index = Len(index) + 1 BY <1>0, <1>1 DEF FilesOK
<1>3. /\ Current \in IndexFiles /\ Live(Current) \in Seq(Records) /\ File(Current)
      /\ Len(Live(Current)) = Current.exists /\ Current.exists \in Nat /\ Current.last_uid \in Nat
      /\ Current.uidvalidity \in Nat /\ DOMAIN Live(Current) = 1..Current.exists
      /\ \A i \in 1..Current.exists : Live(Current)[i] = Current.recs[i]
  BY <1>0, CurrentType, AllFiles, FileType
<1>4. keep \in Seq(Records) /\ \E f : Picks(f, Live(Current), keep, Uids \ gone)
  BY <1>3, KeepPicks
<1>5. ix = [Current EXCEPT !.gen = gen, !.exists = Len(keep), !.deleted = @ - n, !.recs = recs]
  BY DEF NewIndex, Goes
<1>6. \A i \in 1..Len(keep) : recs[i].uid = keep[i].uid
  <2> HIDE DEF keep, new
  <2>1. keep \in Seq(Records) BY <1>4
  <2> QED BY <2>1, RecacheType DEF Same
<1> HIDE DEF n, gen, recs, keep, ix
<1>7. /\ ix.recs = recs /\ ix.exists = Len(keep) /\ ix.last_uid = Current.last_uid
      /\ ix.uidvalidity = Current.uidvalidity
  BY <1>3, <1>5 DEF IndexFiles
<1>8. File(ix)
  <2>1. Current' = ix
    <3>1. index \in Seq(IndexFiles) BY <1>0 DEF FilesOK
    <3>2. index'[Len(index) + 1] = ix BY <1>1, <3>1
    <3> QED BY <1>2, <3>2 DEF Current
  <2>2. FilesOK' /\ UidInv' BY DEF Inv, TypeInv
  <2>3. File(Current)' BY <2>2, SortedNext
  <2> QED BY <2>1, <2>3 DEF File
<1>9. PICK f : Picks(f, Live(Current), keep, Uids \ gone) BY <1>4
<1>10. Follows(Current, ix)
  <2>1. \A i \in 1..Len(keep) : ix.recs[i].uid = keep[i].uid BY <1>6, <1>7
  <2> HIDE DEF gone
  <2> QED BY <1>3, <1>7, <1>8, <1>9, <2>1, PickedFollows
<1>11. Later(Current, ix) BY <1>3, <1>7, <1>10 DEF Later
<1> QED BY <1>0, <1>1, <1>2, <1>11, AddedRenames

\* A restore raises UIDVALIDITY, so no client compares the two files.
LEMMA RestoreIndexRenames ==
  ASSUME Inv, NEW p \in Procs, restore_index(p)
  PROVE  Renames
<1>0. FilesOK BY DEF Inv, TypeInv
<1>1. dir' = [dir EXCEPT !.index = Len(index) + 1] BY DEF restore_index
<1>2. dir'.index = Len(index) + 1 BY <1>0, <1>1 DEF FilesOK
<1>3. \E e, d, r : index' = Append(index, [Current EXCEPT
        !.uidvalidity = @ + 1, !.exists = e, !.deleted = @ + d, !.recs = r])
  BY DEF restore_index
<1>4. PICK e, d, r : index' = Append(index, [Current EXCEPT
        !.uidvalidity = @ + 1, !.exists = e, !.deleted = @ + d, !.recs = r])
  BY <1>3
<1> DEFINE ix == [Current EXCEPT
        !.uidvalidity = @ + 1, !.exists = e, !.deleted = @ + d, !.recs = r]
<1>5. Current \in IndexFiles /\ Current.uidvalidity \in Nat /\ Current.last_uid \in Nat
  BY <1>0, CurrentType, AllFiles, FileType
<1>6. ix.uidvalidity = Current.uidvalidity + 1 /\ ix.last_uid = Current.last_uid
  BY <1>5 DEF IndexFiles
<1>7. index' = Append(index, ix) BY <1>4
<1> HIDE DEF ix
<1>8. Later(Current, ix) BY <1>5, <1>6 DEF Later
<1> QED BY <1>0, <1>2, <1>7, <1>8, AddedRenames

LEMMA NextMoves ==
  ASSUME Inv, Inv', [Next]_vars
  PROVE  Grows \/ Renames
<1>0. FilesOK BY DEF Inv, TypeInv
<1>1. CASE index' = index /\ dir'.index = dir.index BY <1>0, <1>1, StillGrows
<1> SUFFICES ASSUME ~(index' = index /\ dir'.index = dir.index) PROVE Grows \/ Renames
  BY <1>1
<1>2. CASE UNCHANGED vars BY <1>2 DEF vars, mail
<1>3. CASE \E p \in Procs : Locking(p) \/ Kill(p)
  BY <1>3 DEF Locking, mailbox_lock_header, mailbox_lock_index, Kill, mail
<1>4. CASE \E p \in Deliverers : Appending(p)
  <2>1. PICK p \in Deliverers : Appending(p) BY <1>4
  <2>2. p \in Procs BY DEF Procs
  <2> QED BY <2>1, <2>2, AppendMessageGrows, AppendCommitGrows
          DEF Appending, append_quota, append_abort, mail
<1>5. CASE \E p \in Users \cup Keepers : Expunging(p)
  <2>1. PICK p \in Users \cup Keepers : Expunging(p) BY <1>5
  <2>2. p \in Procs BY DEF Procs
  <2>3. rename_cache(p) => index' = index /\ dir'.index = dir.index
    BY <1>0 DEF rename_cache, FilesOK
  <2> QED BY <2>1, <2>2, <2>3, RenameIndexRenames
          DEF Expunging, process_records, poplocked, release_quota, expunge_header,
              rename_expunge, unlock, unlink_messages, expunge_fails, mail
<1>6. CASE \E p \in Keepers : Restoring(p)
  <2>1. PICK p \in Keepers : Restoring(p) BY <1>6
  <2>2. p \in Procs BY DEF Procs
  <2> QED BY <2>1, <2>2, RestoreIndexRenames
          DEF Restoring, restore_expunge, restore_quota, restore_fails, mail
<1>7. CASE \E p \in Users : Session(p)
  <2>1. PICK p \in Users : Session(p) BY <1>7
  <2>2. p \in Procs BY DEF Procs
  <2> QED BY <2>1, <2>2, StoreFlagGrows
          DEF Session, index_newmailbox, index_check_replaced, index_opened, index_check,
              index_store, index_closemailbox, mail
<1>8. CASE Rest BY <1>8 DEF Rest, vars, mail
<1> QED BY <1>2, <1>3, <1>4, <1>5, <1>6, <1>7, <1>8 DEF Next

LEMMA HistoryStep ==
  ASSUME Inv, Inv', FileHistory, [Next]_vars
  PROVE  FileHistory'
<1>1. FilesOK /\ FilesOK' /\ UidInv' BY DEF Inv, TypeInv
<1>2. Sorted(Current)' BY <1>1, SortedNext
<1>3. Grows \/ Renames BY NextMoves
<1> QED BY <1>1, <1>2, <1>3, HistoryNext

-----------------------------------------------------------------------------
(* Sessions                                                                *)

Views == [mfd : Nat, ino : Nat, gen : Nat, uids : Seq(Nat), uidvalidity : Nat, size : Nat]

\* A session has read a beginning of the file it has mapped.
HasRead(v) ==
  /\ v.ino \in 1..Len(index)
  /\ v.gen = index[v.ino].gen
  /\ v.uidvalidity = index[v.ino].uidvalidity
  /\ Len(v.uids) <= index[v.ino].exists
  /\ \A i \in 1..Len(v.uids) : v.uids[i] = index[v.ino].recs[i].uid
SessionOK(p) ==
  /\ view[p] # Closed => HasRead(view[p])
  /\ op[p].pc = "open" => /\ op[p].fd \in 1..Len(index)
                          /\ view[p] # Closed => view[p].ino <= op[p].fd
  /\ op[p].pc = "lockindex" => view[p] # Closed
Sessions == view \in [Users -> Views] /\ \A p \in Users : SessionOK(p)

LEMMA ClosedType == Closed \in Views /\ Closed.ino = 0
<1>1. <<>> \in Seq(Nat) OBVIOUS
<1> QED BY <1>1 DEF Closed, Views

LEMMA ReadOn ==
  ASSUME FilesOK, FilesOK', FileHistory, NEW v, v \in Views, HasRead(v), Grows \/ Renames
  PROVE  HasRead(v)' /\ Len(index') \in Nat /\ Len(index) <= Len(index')
         /\ dir'.index = Len(index') /\ Len(index') >= 1
<1>1. Len(index) \in Nat /\ dir.index = Len(index) /\ dir.index \in 1..Len(index)
      /\ \A x \in 1..Len(index) : File(index[x])
  BY AllFiles DEF FileHistory
<1>2. /\ v.ino \in 1..Len(index) /\ v.gen = index[v.ino].gen
      /\ v.uidvalidity = index[v.ino].uidvalidity /\ Len(v.uids) <= index[v.ino].exists
      /\ \A i \in 1..Len(v.uids) : v.uids[i] = index[v.ino].recs[i].uid
      /\ v.uids \in Seq(Nat)
  BY DEF HasRead, Views
<1>3. Len(v.uids) \in Nat /\ index[v.ino].exists \in Nat BY <1>1, <1>2, FileType
<1>4. CASE index'[v.ino] = index[v.ino] /\ Len(index) <= Len(index') /\ Len(index') \in Nat
           /\ dir'.index = Len(index')
  <2>1. v.ino \in 1..Len(index') BY <1>1, <1>2, <1>4
  <2> QED BY <1>1, <1>2, <1>4, <2>1 DEF HasRead
<1>5. CASE Grows /\ v.ino = dir.index
  <2>1. /\ Len(index') = Len(index) /\ dir'.index = dir.index /\ Grown(Current, Current')
        /\ index'[v.ino] = Current' /\ index[v.ino] = Current
    BY <1>5 DEF Grows, Current
  <2>2. /\ Current'.gen = Current.gen /\ Current'.uidvalidity = Current.uidvalidity
        /\ Current.exists <= Current'.exists
        /\ \A i \in 1..Current.exists : Current'.recs[i].uid = Current.recs[i].uid
    BY <2>1 DEF Grown
  <2> DEFINE n == Len(v.uids)
             e == Current.exists
             d == Current'.exists
  <2>3. n \in Nat /\ e \in Nat /\ n <= e BY <1>2, <1>3, <2>1
  <2>4. \A i \in 1..n : i \in 1..e BY <2>3
  <2>5. n <= d
    <3>1. e <= d BY <2>2
    <3>2. d \in Nat
      <4>1. index' \in Seq(IndexFiles) /\ dir'.index \in 1..Len(index') BY DEF FilesOK
      <4>2. index'[dir'.index] \in IndexFiles BY <4>1
      <4> QED BY <4>2 DEF Current, IndexFiles
    <3> HIDE DEF n, e, d
    <3> QED BY <2>3, <3>1, <3>2
  <2>6. \A i \in 1..n : v.uids[i] = Current'.recs[i].uid BY <1>2, <2>1, <2>2, <2>4
  <2> QED BY <1>1, <1>2, <2>1, <2>2, <2>5, <2>6 DEF HasRead
<1>6. CASE Grows /\ v.ino # dir.index
  <2>1. index'[v.ino] = index[v.ino] /\ Len(index') = Len(index) /\ dir'.index = dir.index
    BY <1>2, <1>6 DEF Grows
  <2> QED BY <1>1, <1>4, <2>1
<1>7. CASE Renames
  <2>1. index'[v.ino] = index[v.ino] /\ Len(index') = Len(index) + 1 /\ dir'.index = Len(index) + 1
    BY <1>2, <1>7 DEF Renames
  <2> QED BY <1>1, <1>4, <2>1
<1> QED BY <1>5, <1>6, <1>7

\* What a step of somebody else does to q's session, and most of q's own.
Quiet(q) ==
  /\ view'[q] = view[q] \/ view'[q] = Closed
  /\ op'[q].pc = "open" => (op[q].pc = "open" /\ op'[q].fd = op[q].fd) \/ op'[q].fd = dir'.index
  /\ op'[q].pc = "lockindex" => /\ op[q].pc = "lockindex" \/ view[q] # Closed
                                /\ view'[q] = view[q]

LEMMA QuietOK ==
  ASSUME FilesOK, FilesOK', FileHistory, NEW q \in Users, view[q] \in Views, SessionOK(q), Grows \/ Renames,
         Quiet(q)
  PROVE  SessionOK(q)' /\ view'[q] \in Views
<1>1. view'[q] \in Views BY ClosedType DEF Quiet
<1>2. /\ Len(index) \in Nat /\ Len(index') \in Nat /\ Len(index) <= Len(index')
      /\ dir'.index = Len(index') /\ Len(index') >= 1
  <2>1. Len(index) \in Nat /\ dir.index = Len(index) /\ dir.index \in 1..Len(index)
    BY AllFiles DEF FileHistory
  <2> QED BY <2>1 DEF Grows, Renames
<1>3. view'[q] # Closed => view'[q] = view[q] /\ HasRead(view[q]) BY DEF Quiet, SessionOK
<1>4. view'[q] # Closed => HasRead(view[q])'
  <2> SUFFICES ASSUME view'[q] # Closed PROVE HasRead(view[q])' OBVIOUS
  <2>1. view'[q] = view[q] /\ HasRead(view[q]) BY <1>3
  <2> DEFINE v == view[q]
  <2>2. PICK w : w = view[q] OBVIOUS
  <2>3. w \in Views /\ HasRead(w) BY <2>1, <2>2
  <2>4. HasRead(w)' BY <2>3, ReadOn
  <2>5. w = view'[q] BY <2>1, <2>2
  <2> QED BY <2>4, <2>5 DEF HasRead
<1>5. view'[q] # Closed => view'[q].ino \in 1..Len(index) /\ view'[q].ino \in Nat
  BY <1>1, <1>3 DEF HasRead, Views
<1>6. op'[q].pc = "open" => /\ op'[q].fd \in 1..Len(index')
                            /\ view'[q] # Closed => view'[q].ino <= op'[q].fd
  <2> SUFFICES ASSUME op'[q].pc = "open"
               PROVE  op'[q].fd \in 1..Len(index') /\ (view'[q] # Closed => view'[q].ino <= op'[q].fd)
    OBVIOUS
  <2>1. CASE op[q].pc = "open" /\ op'[q].fd = op[q].fd
    <3>1. op[q].fd \in 1..Len(index) /\ (view[q] # Closed => view[q].ino <= op[q].fd)
      BY <2>1 DEF SessionOK
    <3> QED BY <1>2, <1>3, <2>1, <3>1
  <2>2. CASE op'[q].fd = dir'.index BY <1>2, <1>5, <2>2
  <2> QED BY <2>1, <2>2 DEF Quiet
<1>7. op'[q].pc = "lockindex" => view'[q] # Closed BY DEF Quiet, SessionOK
<1> QED BY <1>1, <1>4, <1>6, <1>7 DEF SessionOK

LEMMA UidsOfLive ==
  ASSUME NEW a, File(a)
  PROVE  /\ UidsOf(Live(a)) \in Seq(Nat) /\ Len(UidsOf(Live(a))) = a.exists
         /\ \A i \in 1..a.exists : UidsOf(Live(a))[i] = a.recs[i].uid
         /\ Len(Live(a)) = a.exists /\ DOMAIN Live(a) = 1..a.exists
         /\ \A i \in 1..a.exists : Live(a)[i] = a.recs[i]
<1> DEFINE r == a.recs
           e == a.exists
           l == SubSeq(r, 1, e)
           u == [i \in DOMAIN l |-> l[i].uid]
<1>1. r \in Seq(Records) /\ e \in Nat /\ e <= Len(r) BY DEF File, IndexFiles
<1>2. Live(a) = l /\ UidsOf(Live(a)) = u BY DEF Live, UidsOf
<1>3. \A i \in 1..e : r[i].uid \in Nat BY FileType
<1> HIDE DEF r, e
<1>4. l \in Seq(Records) /\ Len(l) = e /\ DOMAIN l = 1..e /\ \A i \in 1..e : l[i] = r[i] BY <1>1
<1> HIDE DEF l
<1>5. u \in [1..e -> Nat] /\ \A i \in 1..e : u[i] = r[i].uid BY <1>3, <1>4
<1> HIDE DEF u
<1>6. u \in Seq(Nat) /\ Len(u) = e BY <1>1, <1>5
<1> QED BY <1>2, <1>4, <1>5, <1>6 DEF r, e

\* With the EXISTS response the client has the whole list.
LEMMA ToldAll ==
  ASSUME NEW kept, NEW new \in Seq(Nat), Begins(kept, new)
  PROVE  /\ Told(kept, new) \in Seq(Nat) /\ Len(Told(kept, new)) = Len(new)
         /\ \A i \in 1..Len(new) : Told(kept, new)[i] = new[i]
<1> DEFINE c == Len(kept)
           L == Len(new)
           s == SubSeq(new, c + 1, L)
<1>1. /\ kept \in Seq(Nat) /\ c \in Nat /\ L \in Nat /\ c <= L
      /\ \A i \in 1..c : kept[i] = new[i]
  BY DEF Begins
<1>2. s \in Seq(Nat) /\ Len(s) = L - c /\ \A i \in 1..L - c : s[i] = new[c + i]
  BY <1>1
<1>3. Told(kept, new) = kept \o s BY DEF Told
<1> HIDE DEF s
<1>4. kept \o s \in Seq(Nat) /\ Len(kept \o s) = L
  BY <1>1, <1>2
<1>5. ASSUME NEW i \in 1..L PROVE (kept \o s)[i] = new[i]
  <2>1. CASE i <= c
    <3>1. i \in 1..Len(kept) BY <1>1, <2>1
    <3>2. (kept \o s)[i] = kept[i] BY <1>1, <1>2, <3>1
    <3> QED BY <1>1, <3>1, <3>2
  <2>2. CASE ~(i <= c)
    <3>1. i - c \in 1..L - c /\ c + (i - c) = i BY <1>1, <2>2
    <3>2. (kept \o s)[i] = s[i - c] BY <1>1, <1>2, <2>2
    <3>3. s[i - c] = new[c + (i - c)] BY <1>2, <3>1
    <3> QED BY <3>1, <3>2, <3>3
  <2> QED BY <2>1, <2>2
<1> QED BY <1>3, <1>4, <1>5

\* A session that opens a later file with the same UIDVALIDITY.
LEMMA SameBegins ==
  ASSUME FilesOK, FileHistory, NEW v, v \in Views, HasRead(v), NEW x \in 1..Len(index),
         v.ino <= x, v.uidvalidity = index[x].uidvalidity
  PROVE  Begins(Notified(v.uids, UidsOf(Live(index[x])), index[x].last_uid),
                UidsOf(Live(index[x])))
<1> DEFINE a == index[v.ino]
           b == index[x]
           new == UidsOf(Live(b))
           k == a.exists
<1>1. v.ino \in 1..Len(index) /\ v.uidvalidity = a.uidvalidity /\ Len(v.uids) <= k
      /\ v.uids \in Seq(Nat) /\ \A i \in 1..Len(v.uids) : v.uids[i] = a.recs[i].uid
  BY DEF HasRead, Views
<1>2. File(a) /\ File(b) /\ Sorted(a) /\ Later(a, b) BY <1>1, AllFiles DEF FileHistory
<1> HIDE DEF a, b
<1>3. Follows(a, b) /\ a.last_uid <= b.last_uid
  <2>1. a.uidvalidity = b.uidvalidity BY <1>1 DEF b
  <2> QED BY <1>2, <2>1 DEF Later
<1>4. new \in Seq(Nat) /\ Len(new) = b.exists /\ \A i \in 1..b.exists : new[i] = b.recs[i].uid
  BY <1>2, UidsOfLive
<1>5. /\ k \in Nat /\ b.exists \in Nat /\ a.last_uid \in Nat /\ b.last_uid \in Nat
      /\ (\A i \in 1..k : a.recs[i].uid \in Nat) /\ (\A i \in 1..b.exists : b.recs[i].uid \in Nat)
  BY <1>2, FileType
<1>6. PICK f \in [1..b.exists -> 1..k + 1] : From(f, a, b) BY <1>3 DEF Follows
<1> DEFINE y == b.exists
           old == v.uids
           n == Len(old)
<1>7. /\ \A m \in 1..y : f[m] <= k => b.recs[m].uid = a.recs[f[m]].uid
      /\ \A m \in 1..y : f[m] > k => b.recs[m].uid > a.last_uid
      /\ \A m, i \in 1..y : m < i /\ f[i] <= k => f[m] < f[i]
      /\ \A i \in 1..k : \/ \E m \in 1..y : f[m] = i
                         \/ \A m \in 1..y : b.recs[m].uid # a.recs[i].uid
  BY <1>6 DEF From
<1>8. /\ \A i, j \in 1..k : i < j => a.recs[i].uid <= a.recs[j].uid
      /\ \A i \in 1..k : a.recs[i].uid <= a.last_uid
  BY <1>2 DEF Sorted
<1>9. n \in Nat /\ n <= k /\ \A i \in 1..n : old[i] = a.recs[i].uid /\ i \in 1..k
  <2>1. n \in Nat BY <1>1
  <2>2. n <= k /\ \A i \in 1..n : old[i] = a.recs[i].uid BY <1>1
  <2> HIDE DEF n, k
  <2> QED BY <1>5, <2>1, <2>2
<1> HIDE DEF n, k, y, new, old
<1>10. \A o \in 1..n : old[o] <= b.last_uid
  <2> SUFFICES ASSUME NEW o \in 1..n PROVE old[o] <= b.last_uid OBVIOUS
  <2>1. old[o] <= a.last_uid /\ old[o] \in Nat BY <1>5, <1>8, <1>9
  <2> QED BY <1>3, <1>5, <2>1
<1>11. ASSUME NEW m \in 1..y, NEW o \in 1..n
       PROVE  (f[m] = o => new[m] = old[o]) /\ (f[m] > o => old[o] <= new[m])
  <2>1. f[m] \in 1..k + 1 /\ f[m] \in Nat /\ o \in Nat /\ o \in 1..k /\ o <= k
    BY <1>5, <1>6, <1>9 DEF y
  <2>2. new[m] = b.recs[m].uid /\ old[o] = a.recs[o].uid /\ b.recs[m].uid \in Nat
        /\ a.recs[o].uid \in Nat
    BY <1>4, <1>5, <1>9 DEF y
  <2>3. f[m] <= k => f[m] \in 1..k BY <2>1
  <2>4. f[m] = o => new[m] = old[o] BY <1>7, <2>1, <2>2
  <2>5. ASSUME f[m] > o, f[m] <= k PROVE old[o] <= new[m]
    <3>1. a.recs[o].uid <= a.recs[f[m]].uid BY <1>8, <2>1, <2>3, <2>5
    <3>2. b.recs[m].uid = a.recs[f[m]].uid BY <1>7, <2>5
    <3> QED BY <2>2, <3>1, <3>2
  <2>6. ASSUME f[m] > o, f[m] > k PROVE old[o] <= new[m]
    <3>1. b.recs[m].uid > a.last_uid BY <1>7, <2>6
    <3>2. a.recs[o].uid <= a.last_uid BY <1>8, <2>1
    <3> QED BY <1>5, <2>2, <3>1, <3>2
  <2>7. f[m] <= k \/ f[m] > k BY <1>5, <2>1
  <2> QED BY <2>4, <2>5, <2>6, <2>7
<1>12. ASSUME NEW o \in 1..n
       PROVE  (\E m \in 1..y : f[m] = o) \/ (\A m \in 1..y : new[m] # old[o])
  <2>1. o \in 1..k /\ old[o] = a.recs[o].uid BY <1>9
  <2>2. \A m \in 1..y : new[m] = b.recs[m].uid BY <1>4 DEF y
  <2> QED BY <1>7, <2>1, <2>2
<1>13. Len(new) = y /\ Len(old) = n BY <1>4 DEF y, n
<1>14. f \in [1..Len(new) -> 1..k + 1] /\ Len(old) <= k BY <1>6, <1>9, <1>13 DEF y
<1>15. Places(f, old, new, b.last_uid, k)
  BY <1>7, <1>10, <1>11, <1>12, <1>13, <1>14 DEF Places
<1>16. old \in Seq(Nat) BY <1>1 DEF old
<1>17. Begins(Notified(old, new, b.last_uid), new)
  BY <1>4, <1>5, <1>15, <1>16, NotifiedBegins DEF new, k
<1> QED BY <1>17 DEF old, new, b

\* The file has been opened and both files belong together.
LEMMA OpenedOK ==
  ASSUME Inv, FileHistory, Sessions, NEW p \in Users, index_opened(p)
  PROVE  SessionOK(p)' /\ view'[p] \in Views /\ \A q \in Users : q # p => Quiet(q)
<1>0. FilesOK /\ OpsOK /\ p \in Procs /\ Users \subseteq Procs BY DEF Inv, TypeInv, Procs
<1>1. /\ op[p].pc = "open" /\ index' = index /\ dir' = dir
      /\ view \in [Users -> Views] /\ SessionOK(p) /\ op = [q \in Procs |-> op[q]]
      /\ DOMAIN op[p] = Fields
  BY <1>0 DEF index_opened, mail, Sessions, OpsOK, OpOK
<1> DEFINE x == op[p].fd
           ix == index[x]
           uids == UidsOf(Live(ix))
           same == view[p] # Closed /\ view[p].uidvalidity = ix.uidvalidity
           list == IF same THEN Told(Notified(view[p].uids, uids, ix.last_uid), uids) ELSE uids
           v == [mfd |-> x, ino |-> x, gen |-> ix.gen, uids |-> list,
                 uidvalidity |-> ix.uidvalidity, size |-> Len(ix.recs)]
<1>2. x \in 1..Len(index) /\ (view[p] # Closed => view[p].ino <= x /\ HasRead(view[p]))
  BY <1>1 DEF SessionOK
<1>3. \/ view' = [view EXCEPT ![p] = v] /\ op' = [op EXCEPT ![p] = Idle]
      \/ view' = view /\ op' = [op EXCEPT ![p].fd = dir.index]
      \/ view' = [view EXCEPT ![p] = Closed] /\ op' = [op EXCEPT ![p] = Idle]
  BY DEF index_opened
<1>4. dir.index \in 1..Len(index) /\ Len(index) \in Nat /\ dir.index = Len(index) /\ File(ix)
  BY <1>0, <1>2, AllFiles DEF FileHistory
<1>5. uids \in Seq(Nat) /\ Len(uids) = ix.exists /\ \A i \in 1..ix.exists : uids[i] = ix.recs[i].uid
  BY <1>4, UidsOfLive
<1>6. list \in Seq(Nat) /\ Len(list) = Len(uids) /\ \A i \in 1..Len(uids) : list[i] = uids[i]
  <2>1. CASE same
    <3> DEFINE w == view[p]
               kept == Notified(w.uids, uids, ix.last_uid)
    <3>1. w \in Views /\ HasRead(w) /\ w.ino <= x /\ w.uidvalidity = ix.uidvalidity
      BY <1>1, <1>2, <2>1
    <3> HIDE DEF w, x
    <3>2. Begins(kept, uids) BY <1>0, <1>2, <3>1, SameBegins
    <3> HIDE DEF kept, uids
    <3>3. Told(kept, uids) \in Seq(Nat) /\ Len(Told(kept, uids)) = Len(uids)
          /\ \A i \in 1..Len(uids) : Told(kept, uids)[i] = uids[i]
      BY <1>5, <3>2, ToldAll
    <3> QED BY <2>1, <3>3 DEF kept, w
  <2>2. CASE ~same
    <3> HIDE DEF same, uids
    <3> QED BY <1>5, <2>2
  <2> QED BY <2>1, <2>2
<1> HIDE DEF list, uids
<1>7. v \in Views /\ v # Closed /\ HasRead(v)
  <2>1. ix.gen \in Nat /\ ix.uidvalidity \in Nat /\ ix.exists \in Nat /\ Len(ix.recs) \in Nat
        /\ x \in Nat /\ x # 0
    BY <1>2, <1>4, FileType DEF File, IndexFiles
  <2>2. v \in Views BY <1>6, <2>1 DEF Views
  <2>3. v # Closed BY <2>1 DEF Closed
  <2>4. Len(list) <= ix.exists /\ \A i \in 1..Len(list) : list[i] = ix.recs[i].uid
    <3> DEFINE e == ix.exists
    <3>1. e \in Nat /\ Len(list) = e BY <1>5, <1>6, <2>1
    <3>2. \A i \in 1..e : list[i] = ix.recs[i].uid BY <1>5, <1>6
    <3> HIDE DEF e, ix
    <3>3. Len(list) <= e /\ \A i \in 1..Len(list) : list[i] = ix.recs[i].uid BY <3>1, <3>2
    <3> QED BY <3>3 DEF e
  <2>5. HasRead(v) BY <1>2, <2>4 DEF HasRead
  <2> QED BY <2>2, <2>3, <2>5
<1> HIDE DEF v
<1>8. SessionOK(p)' /\ view'[p] \in Views
  <2>1. CASE view' = [view EXCEPT ![p] = v] /\ op' = [op EXCEPT ![p] = Idle]
    <3>1. view'[p] = v /\ op'[p] = Idle BY <1>1, <1>0, <2>1
    <3> QED BY <1>1, <1>7, <3>1, IdleOK DEF SessionOK, HasRead
  <2>2. CASE view' = view /\ op' = [op EXCEPT ![p].fd = dir.index]
    <3>1. view'[p] = view[p] /\ op'[p].fd = dir.index /\ op'[p].pc = "open"
      BY <1>0, <1>1, <2>2 DEF Fields
    <3>2. view[p] # Closed => view[p].ino <= dir.index
      <4> SUFFICES ASSUME view[p] # Closed PROVE view[p].ino <= dir.index OBVIOUS
      <4>1. view[p].ino \in 1..Len(index) BY <1>2 DEF HasRead
      <4> QED BY <1>4, <4>1
    <3> QED BY <1>1, <1>2, <1>4, <3>1, <3>2 DEF SessionOK, HasRead
  <2>3. CASE view' = [view EXCEPT ![p] = Closed] /\ op' = [op EXCEPT ![p] = Idle]
    <3>1. view'[p] = Closed /\ op'[p] = Idle BY <1>1, <1>0, <2>3
    <3> QED BY <3>1, IdleOK, ClosedType DEF SessionOK
  <2> QED BY <1>3, <2>1, <2>2, <2>3
<1>9. ASSUME NEW q \in Users, q # p PROVE Quiet(q)
  <2>1. view'[q] = view[q] /\ op'[q] = op[q] BY <1>0, <1>1, <1>3, <1>9
  <2> QED BY <2>1 DEF Quiet
<1> QED BY <1>8, <1>9

\* index_check reads the header of the same inode again.
LEMMA CheckedOK ==
  ASSUME Inv, FileHistory, Sessions, NEW p \in Users, index_check(p)
  PROVE  SessionOK(p)' /\ view'[p] \in Views /\ \A q \in Users : q # p => Quiet(q)
<1>0. FilesOK /\ OpsOK /\ p \in Procs /\ Users \subseteq Procs BY DEF Inv, TypeInv, Procs
<1>1. /\ op[p] = Idle /\ op' = op /\ view[p] # Closed /\ index' = index /\ dir' = dir
      /\ view \in [Users -> Views] /\ HasRead(view[p]) /\ view[p].ino = dir.index
  BY DEF index_check, mail, Sessions, SessionOK, Replaced
<1> DEFINE w == view[p]
           uids == UidsOf(Live(Current))
           list == Told(w.uids, uids)
           v == [w EXCEPT !.uids = list, !.size = Len(Current.recs)]
<1>2. view' = view \/ view' = [view EXCEPT ![p] = v]
  BY <1>0, <1>1 DEF index_check
<1>3. File(Current) /\ index[dir.index] = Current /\ dir.index \in 1..Len(index)
      /\ Len(Current.recs) \in Nat /\ Current.exists \in Nat
  BY <1>0, AllFiles, FileType DEF Current, File, IndexFiles
<1>4. uids \in Seq(Nat) /\ Len(uids) = Current.exists
      /\ \A i \in 1..Current.exists : uids[i] = Current.recs[i].uid
  BY <1>3, UidsOfLive
<1>5. w \in Views /\ HasRead(w) /\ w # Closed /\ w.ino = dir.index BY <1>1
<1> HIDE DEF uids, w
<1>6. Begins(w.uids, uids)
  <2>1. w.uids \in Seq(Nat) /\ Len(w.uids) <= Current.exists
        /\ \A i \in 1..Len(w.uids) : w.uids[i] = Current.recs[i].uid
    BY <1>3, <1>5 DEF HasRead, Views
  <2>2. \A i \in 1..Len(w.uids) : i \in 1..Current.exists
    <3>1. Len(w.uids) \in Nat BY <2>1
    <3> QED BY <1>3, <2>1, <3>1
  <2> QED BY <1>4, <2>1, <2>2 DEF Begins
<1>7. list \in Seq(Nat) /\ Len(list) = Len(uids) /\ \A i \in 1..Len(uids) : list[i] = uids[i]
  BY <1>4, <1>6, ToldAll
<1> HIDE DEF list
<1>8. /\ v \in Views /\ v.ino = w.ino /\ v.gen = w.gen /\ v.uidvalidity = w.uidvalidity
      /\ v.uids = list
  BY <1>3, <1>5, <1>7 DEF Views
<1> HIDE DEF v
<1>9. HasRead(v) /\ v # Closed
  <2>1. Len(list) <= Current.exists /\ \A i \in 1..Len(list) : list[i] = Current.recs[i].uid
    BY <1>3, <1>4, <1>7
  <2>2. HasRead(v) BY <1>3, <1>5, <1>8, <2>1 DEF HasRead
  <2>3. v.ino # 0 BY <1>3, <1>5, <1>8
  <2> QED BY <2>2, <2>3, ClosedType
<1>10. SessionOK(p)' /\ view'[p] \in Views
  <2>1. CASE view' = view
    BY <1>1, <2>1, IdleOK DEF SessionOK, HasRead
  <2>2. CASE view' = [view EXCEPT ![p] = v]
    <3>1. view'[p] = v BY <1>1, <2>2
    <3> QED BY <1>1, <1>8, <1>9, <3>1, IdleOK DEF SessionOK, HasRead
  <2> QED BY <1>2, <2>1, <2>2
<1>11. ASSUME NEW q \in Users, q # p PROVE Quiet(q)
  <2>1. view'[q] = view[q] /\ op'[q] = op[q] BY <1>1, <1>2, <1>11
  <2> QED BY <2>1 DEF Quiet
<1> QED BY <1>10, <1>11

\* The name has moved: the process opens the other inode and waits again.
LEMMA LockedOK ==
  ASSUME Inv, FileHistory, Sessions, NEW p \in Procs, mailbox_lock_index(p)
  PROVE  \A q \in Users : Quiet(q) \/ (SessionOK(q)' /\ view'[q] \in Views)
<1>0. FilesOK /\ OpsOK /\ Users \subseteq Procs /\ op = [q \in Procs |-> op[q]]
      /\ view \in [Users -> Views] /\ DOMAIN op[p] = Fields
  BY DEF Inv, TypeInv, Procs, Sessions, OpsOK, OpOK
<1>1. op[p].pc = "lockindex" /\ index' = index /\ dir' = dir
  BY DEF mailbox_lock_index, mail
<1>2. CASE view' = view /\ op' = [op EXCEPT ![p].pc = FirstStep(op[p].kind),
                            ![p].clen = Len(cache[dir.cache])]
  <2>1. \A q \in Procs : q # p => op'[q] = op[q] BY <1>0, <1>2
  <2>2. op'[p].pc = FirstStep(op[p].kind) BY <1>0, <1>2 DEF Fields
  <2>3. op'[p].pc # "open" /\ op'[p].pc # "lockindex" BY <2>2 DEF FirstStep
  <2> QED BY <1>0, <1>2, <2>1, <2>3 DEF Quiet
<1>3. CASE view' = view /\ Release(p)
  <2>1. Steps(p) /\ op'[p] = Idle BY <1>0, <1>3, ReleaseSteps
  <2> QED BY <1>0, <1>3, <2>1, IdleOK DEF Quiet, Steps
<1>4. CASE /\ op' = [op EXCEPT ![p].fd = dir.index]
           /\ view' = IF p \in Users THEN [view EXCEPT ![p].mfd = dir.index] ELSE view
  <2> SUFFICES ASSUME NEW q \in Users PROVE Quiet(q) \/ (SessionOK(q)' /\ view'[q] \in Views)
    OBVIOUS
  <2>1. CASE q # p
    <3>1. op'[q] = op[q] /\ view'[q] = view[q] BY <1>0, <1>4, <2>1
    <3> QED BY <3>1 DEF Quiet
  <2>2. CASE q = p
    <3> DEFINE w == view[p]
               v == [w EXCEPT !.mfd = dir.index]
    <3>1. view'[p] = v /\ op'[p].pc = "lockindex" BY <1>0, <1>1, <1>4, <2>2 DEF Fields
    <3>2. w \in Views /\ HasRead(w) BY <1>0, <1>1, <2>2 DEF Sessions, SessionOK
    <3> HIDE DEF w
    <3>3. dir.index \in Nat /\ Len(index) \in Nat
      <4>1. dir.index \in 1..Len(index) BY <1>0, AllFiles
      <4> QED BY <1>0, <4>1, AllFiles
    <3>4. /\ v \in Views /\ v.ino = w.ino /\ v.gen = w.gen /\ v.uidvalidity = w.uidvalidity
          /\ v.uids = w.uids
      BY <3>2, <3>3 DEF Views
    <3> HIDE DEF v
    <3>5. HasRead(v) BY <3>2, <3>4 DEF HasRead
    <3>6. v.ino # 0 BY <3>2, <3>3, <3>4 DEF HasRead
    <3>7. v # Closed BY <3>6, ClosedType
    <3>8. SessionOK(p)' BY <1>1, <3>1, <3>5, <3>7 DEF SessionOK, HasRead
    <3> QED BY <2>2, <3>1, <3>4, <3>8
  <2> QED BY <2>1, <2>2
<1> QED BY <1>2, <1>3, <1>4 DEF mailbox_lock_index

\* A step of p after which it neither opens files nor waits for a lock, or opens
\* the file that has the name.
LEMMA QuietStep ==
  ASSUME OpsOK, NEW p \in Procs, Steps(p), Users \subseteq Procs,
         view' = view \/ (p \in Users /\ view' = [view EXCEPT ![p] = Closed]),
         view \in [Users -> Views],
         op'[p].pc # "lockindex" \/ p \notin Users \/ (view[p] # Closed /\ view' = view),
         op'[p].pc = "open" => op'[p].fd = dir'.index
  PROVE  \A q \in Users : Quiet(q)
<1> SUFFICES ASSUME NEW q \in Users PROVE Quiet(q) OBVIOUS
<1>1. view'[q] = view[q] \/ (q = p /\ view'[q] = Closed) OBVIOUS
<1>2. q # p => op'[q] = op[q] BY DEF Steps
<1>3. CASE q = p BY <1>1, <1>3 DEF Quiet
<1>4. CASE q # p BY <1>1, <1>2, <1>4 DEF Quiet
<1> QED BY <1>3, <1>4

\* The steps that write what p does next.
LEMMA SetStep ==
  ASSUME OpsOK, NEW p \in Procs, NEW o, op' = [op EXCEPT ![p] = o]
  PROVE  Steps(p) /\ op'[p] = o
BY DEF OpsOK, Steps

LEMMA NextQuiet ==
  ASSUME Inv, Inv', FileHistory, Sessions, [Next]_vars
  PROVE  \A q \in Users : Quiet(q) \/ (SessionOK(q)' /\ view'[q] \in Views)
<1>0. /\ FilesOK /\ OpsOK /\ Users \subseteq Procs /\ view \in [Users -> Views]
      /\ \A p \in Procs : DOMAIN op[p] = Fields
  BY DEF Inv, TypeInv, Procs, Sessions, OpsOK, OpOK
<1> DEFINE Done == \A q \in Users : Quiet(q) \/ (SessionOK(q)' /\ view'[q] \in Views)
           Past(p) == op'[p].pc \notin {"open", "lockindex"}
<1>1. ASSUME NEW p \in Procs, Steps(p), view' = view, Past(p) PROVE Done
  BY <1>0, <1>1, QuietStep
<1>2. ASSUME NEW p \in Procs, Release(p), view' = view PROVE Done
  <2>1. Steps(p) /\ op'[p] = Idle BY <1>0, <1>2, ReleaseSteps
  <2> QED BY <1>1, <1>2, <2>1, IdleOK
<1>3. ASSUME NEW p \in Procs, NEW pc, Step(p, pc), pc \notin {"open", "lockindex"}, view' = view
      PROVE  Done
  <2>1. Steps(p) /\ op'[p].pc = pc BY <1>0, <1>3, StepGoesOn DEF GoesOn
  <2> QED BY <1>1, <1>3, <2>1
<1>4. CASE UNCHANGED vars BY <1>4 DEF vars, Quiet
<1>5. CASE \E p \in Procs : \E kind \in DOMAIN Writers : mailbox_lock_header(p, kind)
  <2>1. PICK p \in Procs, kind \in DOMAIN Writers : mailbox_lock_header(p, kind) BY <1>5
  <2>2. PICK fd : op' = [op EXCEPT ![p] = [Idle EXCEPT !.pc = "lockindex", !.kind = kind, !.fd = fd]]
    BY <2>1 DEF mailbox_lock_header
  <2>3. view' = view /\ (p \in Users => view[p] # Closed) BY <2>1 DEF mailbox_lock_header
  <2>4. Steps(p) /\ op'[p] = [Idle EXCEPT !.pc = "lockindex", !.kind = kind, !.fd = fd]
    BY <1>0, <2>2, SetStep
  <2>5. op'[p].pc = "lockindex" BY <2>4 DEF Idle
  <2> QED BY <1>0, <2>3, <2>4, <2>5, QuietStep
<1>6. CASE \E p \in Procs : mailbox_lock_index(p) BY <1>6, LockedOK
<1>7. CASE \E p \in Procs : Kill(p)
  <2>1. PICK p \in Procs : Kill(p) BY <1>7
  <2>2. Steps(p) /\ op'[p] = Idle BY <1>0, <2>1, ReleaseSteps DEF Kill
  <2>3. view' = view \/ (p \in Users /\ view' = [view EXCEPT ![p] = Closed]) BY <2>1 DEF Kill
  <2> QED BY <1>0, <2>2, <2>3, IdleOK, QuietStep
<1>8. CASE \E p \in Deliverers : Appending(p)
  <2>1. PICK p \in Deliverers : Appending(p) BY <1>8
  <2>2. p \in Procs BY DEF Procs
  <2>3. CASE append_message(p)
    <3>1. op' = [op EXCEPT ![p].n = @ + 1] /\ view' = view /\ op[p].pc = "append"
      BY <2>3 DEF append_message
    <3>2. Steps(p) /\ op'[p].pc = "append" BY <1>0, <2>2, <3>1 DEF OpsOK, Steps, Fields
    <3> QED BY <1>1, <2>2, <3>1, <3>2
  <2>4. CASE append_commit(p) BY <1>3, <2>2, <2>4 DEF append_commit
  <2>5. CASE append_quota(p) \/ append_abort(p) BY <1>2, <2>2, <2>5 DEF append_quota, append_abort
  <2> QED BY <2>1, <2>3, <2>4, <2>5 DEF Appending
<1>9. CASE \E p \in Users \cup Keepers : Expunging(p)
  <2>1. PICK p \in Users \cup Keepers : Expunging(p) BY <1>9
  <2>2. p \in Procs BY DEF Procs
  <2>3. CASE process_records(p)
    <3>1. view' = view /\ \E D : op' = [op EXCEPT ![p].dels = D, ![p].pc = "quota"]
      BY <2>3 DEF process_records
    <3>2. Steps(p) /\ op'[p].pc = "quota" BY <1>0, <2>2, <3>1 DEF OpsOK, Steps, Fields
    <3> QED BY <1>1, <2>2, <3>1, <3>2
  <2>4. CASE poplocked(p) \/ expunge_fails(p) BY <1>2, <2>2, <2>4 DEF poplocked, expunge_fails
  <2>5. CASE \/ release_quota(p) \/ expunge_header(p) \/ rename_index(p) \/ rename_cache(p)
             \/ rename_expunge(p)
    <3>1. view' = view /\ \E pc : pc \notin {"open", "lockindex"} /\ Step(p, pc)
      BY <2>5
         DEF release_quota, expunge_header, rename_index, rename_cache, rename_expunge
    <3> QED BY <1>3, <2>2, <3>1
  <2>6. CASE unlock(p)
    <3>1. /\ op' = [op EXCEPT ![p] = IF newcache(@.kind) THEN [@ EXCEPT !.pc = "unlink"] ELSE AfterExpunge(p)]
          /\ view' = view /\ dir' = dir
      BY <2>6 DEF unlock, mail
    <3>2. Steps(p) /\ op'[p] = IF newcache(op[p].kind) THEN [op[p] EXCEPT !.pc = "unlink"]
                               ELSE AfterExpunge(p)
      BY <1>0, <2>2, <3>1 DEF OpsOK, Steps
    <3>3. op'[p].pc = "unlink" \/ (op'[p] = AfterExpunge(p)) BY <1>0, <2>2, <3>2 DEF Fields
    <3>4. AfterExpunge(p) = Idle \/ (AfterExpunge(p).pc = "open" /\ AfterExpunge(p).fd = dir.index)
      BY DEF AfterExpunge, Check, Idle
    <3>5. op'[p].pc = "open" => op'[p].fd = dir'.index BY <3>1, <3>3, <3>4, IdleOK
    <3>6. op'[p].pc # "lockindex" BY <3>3, <3>4, IdleOK
    <3> QED BY <1>0, <2>2, <3>1, <3>2, <3>5, <3>6, QuietStep
  <2>7. CASE unlink_messages(p)
    <3>1. /\ \/ op' = [op EXCEPT ![p] = AfterExpunge(p)]
             \/ \E u : op' = [op EXCEPT ![p].dels = @ \ {u}]
          /\ view' = view /\ dir' = dir /\ op[p].pc = "unlink"
      BY <2>7 DEF unlink_messages
    <3>2. Steps(p) /\ (op'[p] = AfterExpunge(p) \/ op'[p].pc = "unlink")
      BY <1>0, <2>2, <3>1 DEF OpsOK, Steps, Fields
    <3>4. AfterExpunge(p) = Idle \/ (AfterExpunge(p).pc = "open" /\ AfterExpunge(p).fd = dir.index)
      BY DEF AfterExpunge, Check, Idle
    <3>5. op'[p].pc = "open" => op'[p].fd = dir'.index BY <3>1, <3>2, <3>4, IdleOK
    <3>6. op'[p].pc # "lockindex" BY <3>2, <3>4, IdleOK
    <3> QED BY <1>0, <2>2, <3>1, <3>2, <3>5, <3>6, QuietStep
  <2> QED BY <2>1, <2>3, <2>4, <2>5, <2>6, <2>7 DEF Expunging
<1>10. CASE \E p \in Keepers : Restoring(p)
  <2>1. PICK p \in Keepers : Restoring(p) BY <1>10
  <2>2. p \in Procs BY DEF Procs
  <2>3. CASE restore_index(p)
    <3>1. view' = view /\ \E D : op' = [op EXCEPT ![p].dels = D, ![p].pc = "renexpunge"]
      BY <2>3 DEF restore_index
    <3>2. Steps(p) /\ op'[p].pc = "renexpunge" BY <1>0, <2>2, <3>1 DEF OpsOK, Steps, Fields
    <3> QED BY <1>1, <2>2, <3>1, <3>2
  <2>4. CASE restore_expunge(p)
    <3>1. view' = view /\ \E n : op' = [op EXCEPT ![p].pc = "addquota", ![p].n = n]
      BY <2>4 DEF restore_expunge
    <3>2. Steps(p) /\ op'[p].pc = "addquota" BY <1>0, <2>2, <3>1 DEF OpsOK, Steps, Fields
    <3> QED BY <1>1, <2>2, <3>1, <3>2
  <2>5. CASE restore_quota(p) \/ restore_fails(p)
    BY <1>2, <2>2, <2>5 DEF restore_quota, restore_fails
  <2> QED BY <2>1, <2>3, <2>4, <2>5 DEF Restoring
<1>11. CASE \E p \in Users : Session(p)
  <2>1. PICK p \in Users : Session(p) BY <1>11
  <2>2. p \in Procs BY DEF Procs
  <2>3. CASE index_newmailbox(p)
    <3>1. /\ op' = [op EXCEPT ![p] = [Idle EXCEPT !.pc = "open", !.kind = "select", !.fd = dir.index]]
          /\ view' = view /\ dir' = dir
      BY <2>3 DEF index_newmailbox, mail
    <3>2. Steps(p) /\ op'[p] = [Idle EXCEPT !.pc = "open", !.kind = "select", !.fd = dir.index]
      BY <1>0, <2>2, <3>1, SetStep
    <3>3. op'[p].fd = dir.index BY <3>2 DEF Idle
    <3>4. dir'.index = dir.index BY <3>1
    <3>5. op'[p].pc # "lockindex" BY <3>2 DEF Idle
    <3> QED BY <1>0, <2>2, <3>1, <3>2, <3>3, <3>4, <3>5, QuietStep
  <2>4. CASE index_check_replaced(p)
    <3>1. op' = [op EXCEPT ![p] = Check] /\ view' = view /\ dir' = dir
      BY <2>4 DEF index_check_replaced, mail
    <3>2. Steps(p) /\ op'[p] = Check BY <1>0, <2>2, <3>1, SetStep
    <3>3. op'[p].fd = dir.index BY <3>2 DEF Check, Idle
    <3>4. dir'.index = dir.index BY <3>1
    <3>5. op'[p].pc # "lockindex" BY <3>2 DEF Check, Idle
    <3> QED BY <1>0, <2>2, <3>1, <3>2, <3>3, <3>4, <3>5, QuietStep
  <2>5. CASE index_opened(p) BY <2>1, <2>5, OpenedOK
  <2>6. CASE index_check(p) BY <2>1, <2>6, CheckedOK
  <2>7. CASE index_store(p)
    <3>1. view' = view /\ view[p] # Closed BY <2>7 DEF index_store
    <3>2. PICK n \in DOMAIN view[p].uids, flag \in BOOLEAN, usinguid \in BOOLEAN :
          op' = [op EXCEPT ![p] = [Idle EXCEPT !.pc = "lockindex", !.kind = "store", !.fd = view[p].mfd,
                                     !.msgno = n, !.flag = flag, !.usinguid = usinguid]]
      BY <2>7 DEF index_store
    <3>3. Steps(p) /\ op'[p] = [Idle EXCEPT !.pc = "lockindex", !.kind = "store", !.fd = view[p].mfd,
                                     !.msgno = n, !.flag = flag, !.usinguid = usinguid]
      BY <1>0, <2>2, <3>2, SetStep
    <3>4. op'[p].pc = "lockindex" BY <3>3 DEF Idle
    <3> QED BY <1>0, <2>2, <3>1, <3>3, <3>4, QuietStep
  <2>8. CASE index_storeflag(p) BY <1>2, <2>2, <2>8 DEF index_storeflag
  <2>9. CASE index_closemailbox(p)
    <3>1. op' = op /\ op[p] = Idle /\ view' = [view EXCEPT ![p] = Closed]
      BY <2>9 DEF index_closemailbox
    <3>2. Steps(p) /\ op'[p] = Idle BY <1>0, <2>2, <3>1 DEF OpsOK, Steps
    <3> QED BY <1>0, <2>1, <2>2, <3>1, <3>2, IdleOK, QuietStep
  <2> QED BY <2>1, <2>3, <2>4, <2>5, <2>6, <2>7, <2>8, <2>9 DEF Session
<1>12. CASE Rest BY <1>12 DEF Rest, vars, Quiet
<1> QED BY <1>4, <1>5, <1>6, <1>7, <1>8, <1>9, <1>10, <1>11, <1>12 DEF Next, Locking

\* view stays a function of the users.
LEMMA ViewShape ==
  ASSUME view \in [Users -> Views], [Next]_vars
  PROVE  view' = [q \in Users |-> view'[q]]
<1>0. view = [q \in Users |-> view[q]] OBVIOUS
<1>1. CASE view' = view BY <1>0, <1>1
<1>2. ASSUME NEW p, NEW v, view' = [view EXCEPT ![p] = v] PROVE view' = [q \in Users |-> view'[q]]
  BY <1>0, <1>2
<1>3. CASE \E p \in Procs : Locking(p) \/ Kill(p)
  <2>1. PICK p \in Procs : Locking(p) \/ Kill(p) BY <1>3
  <2>2. CASE \E kind \in DOMAIN Writers : mailbox_lock_header(p, kind)
    BY <1>1, <2>2 DEF mailbox_lock_header
  <2>3. CASE mailbox_lock_index(p)
    <3>1. view' = view \/ view' = [view EXCEPT ![p].mfd = dir.index]
      BY <2>3 DEF mailbox_lock_index
    <3> QED BY <1>0, <1>1, <3>1
  <2>4. CASE Kill(p)
    <3>1. view' = view \/ view' = [view EXCEPT ![p] = Closed] BY <2>4 DEF Kill
    <3> QED BY <1>1, <1>2, <3>1
  <2> QED BY <2>1, <2>2, <2>3, <2>4 DEF Locking
<1>4. CASE \E p \in Deliverers : Appending(p)
  BY <1>1, <1>4 DEF Appending, append_message, append_commit, append_quota, append_abort
<1>5. CASE \E p \in Users \cup Keepers : Expunging(p)
  BY <1>1, <1>5
     DEF Expunging, process_records, poplocked, release_quota, expunge_header, rename_index,
         rename_cache, rename_expunge, unlock, unlink_messages, expunge_fails
<1>6. CASE \E p \in Keepers : Restoring(p)
  BY <1>1, <1>6 DEF Restoring, restore_index, restore_expunge, restore_quota, restore_fails
<1>7. CASE \E p \in Users : Session(p)
  <2>1. PICK p \in Users : Session(p) BY <1>7
  <2>2. CASE index_opened(p)
    <3>1. view' = view \/ \E v : view' = [view EXCEPT ![p] = v] BY <2>2 DEF index_opened
    <3> QED BY <1>1, <1>2, <3>1
  <2>3. CASE index_check(p)
    <3>1. \/ view' = view
          \/ \E l, n : view' = [view EXCEPT ![p].uids = l, ![p].size = n]
      BY <2>3 DEF index_check
    <3> QED BY <1>0, <1>1, <3>1
  <2>4. CASE index_closemailbox(p) BY <1>2, <2>4 DEF index_closemailbox
  <2> QED BY <1>1, <2>1, <2>2, <2>3, <2>4
          DEF Session, index_newmailbox, index_check_replaced, index_store, index_storeflag
<1>8. CASE Rest \/ UNCHANGED vars BY <1>1, <1>8 DEF Rest, vars
<1> QED BY <1>3, <1>4, <1>5, <1>6, <1>7, <1>8 DEF Next

LEMMA SessionsStep ==
  ASSUME Inv, Inv', FileHistory, Sessions, [Next]_vars
  PROVE  Sessions'
<1>0. FilesOK /\ FilesOK' /\ view \in [Users -> Views] BY DEF Inv, TypeInv, Sessions
<1>1. Grows \/ Renames BY NextMoves
<1>2. ASSUME NEW q \in Users PROVE SessionOK(q)' /\ view'[q] \in Views
  <2>1. Quiet(q) \/ (SessionOK(q)' /\ view'[q] \in Views) BY NextQuiet
  <2>2. view[q] \in Views /\ SessionOK(q) BY DEF Sessions
  <2>3. Quiet(q) => SessionOK(q)' /\ view'[q] \in Views BY <1>0, <1>1, <2>2, QuietOK
  <2> QED BY <2>1, <2>3
<1>3. view' = [q \in Users |-> view'[q]] BY <1>0, ViewShape
<1>4. view' \in [Users -> Views] BY <1>2, <1>3
<1> QED BY <1>2, <1>4 DEF Sessions

LEMMA ViewInit == Init => FileHistory /\ Sessions
<1> SUFFICES ASSUME Init PROVE FileHistory /\ Sessions OBVIOUS
<1> DEFINE ix == [gen |-> 1, uidvalidity |-> 1, exists |-> 0, last_uid |-> 0, deleted |-> 0,
                  recs |-> <<>>]
<1>1. /\ index = <<ix>> /\ dir.index = 1 /\ \A p \in Procs : op[p] = Idle
      /\ view = [p \in Users |-> Closed]
  BY DEF Init
<1>2. FilesOK BY InitInv DEF Inv, TypeInv
<1>3. ix.exists = 0 /\ 1..ix.exists = {} OBVIOUS
<1>4. Sorted(ix) BY <1>3 DEF Sorted
<1>5. Len(index) = 1 /\ index[1] = ix BY <1>1
<1>6. File(ix) BY <1>2, <1>5, AllFiles
<1>7. Later(ix, ix) BY <1>4, <1>6, LaterSelf
<1> HIDE DEF ix
<1>8. FileHistory
  <2>1. 1..Len(index) = {1} BY <1>5
  <2> QED BY <1>1, <1>4, <1>5, <1>7, <2>1 DEF FileHistory
<1>9. \A p \in Users : view[p] = Closed /\ op[p] = Idle BY <1>1 DEF Procs
<1>10. Sessions BY <1>1, <1>9, ClosedType, IdleOK DEF Sessions, SessionOK
<1> QED BY <1>8, <1>10

LEMMA ViewHolds == Spec => [](FileHistory /\ Sessions)
<1>1. Init => FileHistory /\ Sessions BY ViewInit
<1>2. Inv /\ Inv' /\ (FileHistory /\ Sessions) /\ [Next]_vars => (FileHistory /\ Sessions)'
  BY HistoryStep, SessionsStep
<1> QED BY <1>1, <1>2, InvHolds, PTL DEF Spec

\* The uids a client was told of, one by one in EXISTS and EXPUNGE responses,
\* are those of the file its session has mapped, whatever was appended, expunged
\* or restored under it: a message number means the same message to both.
THEOREM ClientsAgree == Spec => []ClientView
<1>1. Inv /\ Sessions => ClientView
  <2> SUFFICES ASSUME Inv, Sessions, NEW p \in Users, view[p] # Closed, NEW i \in DOMAIN view[p].uids
               PROVE  /\ i <= Len(index[view[p].ino].recs)
                      /\ index[view[p].ino].recs[i].uid = view[p].uids[i]
    BY DEF ClientView
  <2>1. FilesOK BY DEF Inv, TypeInv
  <2>2. HasRead(view[p]) /\ view[p] \in Views BY DEF Sessions, SessionOK
  <2> DEFINE uids == view[p].uids
             a == index[view[p].ino]
  <2>3. uids \in Seq(Nat) BY <2>2 DEF Views
  <2>4. File(a) BY <2>1, <2>2, AllFiles DEF HasRead
  <2>5. Len(uids) <= a.exists /\ \A n \in 1..Len(uids) : uids[n] = a.recs[n].uid
    BY <2>2 DEF HasRead
  <2>6. a.exists \in Nat /\ a.exists <= Len(a.recs) /\ a.recs \in Seq(Records)
    BY <2>4, FileType DEF File, IndexFiles
  <2>7. DOMAIN uids = 1..Len(uids) /\ Len(uids) \in Nat BY <2>3
  <2>8. i \in 1..Len(uids) BY <2>7
  <2>9. a.recs[i].uid = uids[i] BY <2>5, <2>8
  <2> DEFINE l == Len(a.recs)
             e == a.exists
             n == Len(uids)
  <2>10. l \in Nat /\ e \in Nat /\ n \in Nat /\ n <= e /\ e <= l /\ i \in 1..n
    BY <2>5, <2>6, <2>7, <2>8
  <2> HIDE DEF l, e, n
  <2>11. i <= l BY <2>10
  <2> QED BY <2>9, <2>11 DEF l
<1>2. Inv /\ FileHistory /\ Sessions => ClientView BY <1>1
<1> QED BY <1>2, InvHolds, ViewHolds, PTL

-----------------------------------------------------------------------------
(* The cache                                                               *)

\* The offset of r leads to its message in the cache c, or its uid is one of t.
Good(r, c, t) == r.uid \in t \/ (r.off \in DOMAIN c /\ c[r.off] = r.mid)
Below(r, n) == r.uid \in torn \/ r.off <= n

\* The generations only rise, and the records of every inode of cyrus.index are
\* good in the cache of its generation, also when its name is taken.
GensRise == \A x \in 1..Len(index) : index[x].gen <= Current.gen
IndexGood ==
  \A x \in 1..Len(index) : \A i \in 1..index[x].exists :
    Good(index[x].recs[i], cache[index[x].gen], torn)

\* cyrus.expunge lags behind while a cleanup has renamed cyrus.cache only.
Late(o) == o.kind = "cleanup" /\ o.pc = "renexpunge"
ExpungeGood ==
  Gens /\ (\A p \in Procs : ~Late(op[p])) =>
    \A i \in 1..xfile.exists : Good(xfile.recs[i], cache[dir.cache], torn)

OpenPcs == {"append", "commitquota", "records", "quota", "xheader", "renindex", "restore"}
OpenAt(o) == o.pc \in OpenPcs \/ (o.kind = "unexpunge" /\ o.pc = "renexpunge") => Gens

\* What append_abort cuts off the cache no counted record points to, and what
\* append_commit is going to count is good.
AppendedAt(o) == o.pc = "append" =>
  /\ \A x \in 1..Len(index) : index[x].gen = dir.cache =>
       \A i \in 1..index[x].exists : Below(index[x].recs[i], o.clen)
  /\ \A i \in 1..xfile.exists : Below(xfile.recs[i], o.clen)
  /\ \A k \in 1..o.n : Good(Current.recs[Current.exists + k], cache[dir.cache], torn)

\* Behind the messages of the new index the new cache has those that a cleanup
\* leaves in cyrus.expunge.
CleanedAt(o) == o.kind = "cleanup" /\ o.pc \in {"rencache", "renexpunge"} =>
  \A i \in 1..Len(Keep(Expunged, o.dels)) :
    \/ Keep(Expunged, o.dels)[i].uid \in torn
    \/ /\ Current.exists + i \in DOMAIN cache[Current.gen]
       /\ cache[Current.gen][Current.exists + i] = Keep(Expunged, o.dels)[i].mid

CachedAt(o) == OpenAt(o) /\ AppendedAt(o) /\ CleanedAt(o)
CacheInv == GensRise /\ IndexGood /\ ExpungeGood /\ \A p \in Procs : CachedAt(op[p])

LEMMA GoodSame ==
  ASSUME NEW r, NEW s, NEW c, NEW t, Good(r, c, t), s.uid = r.uid, s.mid = r.mid, s.off = r.off
  PROVE  Good(s, c, t)
BY DEF Good

LEMMA GoodGrows ==
  ASSUME NEW r, NEW c, NEW d, NEW s, NEW t, Good(r, c, s), s \subseteq t,
         \A o \in DOMAIN c : o \in DOMAIN d /\ d[o] = c[o]
  PROVE  Good(r, d, t)
BY DEF Good

LEMMA GoodTorn ==
  ASSUME NEW r, NEW c, NEW s, NEW t, Good(r, c, s), s \subseteq t
  PROVE  Good(r, c, t)
BY DEF Good

LEMMA GoodCut ==
  ASSUME NEW r, NEW c \in Seq(Nat), NEW n \in Nat, n <= Len(c), NEW t, Good(r, c, t),
         r.uid \in t \/ r.off <= n
  PROVE  Good(r, SubSeq(c, 1, n), t)
<1> DEFINE d == SubSeq(c, 1, n)
           o == r.off
<1>1. CASE r.uid \in t BY <1>1 DEF Good
<1>2. CASE r.uid \notin t
  <2>1. o \in 1..Len(c) /\ c[o] = r.mid /\ o <= n BY <1>2 DEF Good
  <2>2. Len(d) = n /\ d \in Seq(Nat) /\ \A i \in 1..n : d[i] = c[i] OBVIOUS
  <2> HIDE DEF d, o
  <2>3. Len(c) \in Nat OBVIOUS
  <2>4. o \in 1..n BY <2>1, <2>3
  <2>5. o \in DOMAIN d /\ d[o] = r.mid BY <2>1, <2>2, <2>4
  <2> QED BY <2>5 DEF Good, d, o
<1> QED BY <1>1, <1>2

\* What is in a cache stays there.
CacheGrows ==
  \A g \in Inodes : \A o \in DOMAIN cache[g] : o \in DOMAIN cache'[g] /\ cache'[g][o] = cache[g][o]

LEMMA GenType ==
  ASSUME FilesOK, NEW x \in 1..Len(index)
  PROVE  index[x].gen \in Inodes /\ index[x].gen \in Nat
<1>1. index[x].gen \in 1..x /\ Len(index) <= MaxInodes /\ Len(index) \in Nat /\ MaxInodes \in Nat
  BY MailboxAssumption DEF FilesOK
<1> DEFINE g == index[x].gen
           l == Len(index)
<1>2. g \in 1..x /\ x \in 1..l /\ l \in Nat /\ l <= MaxInodes BY <1>1
<1> HIDE DEF g, l
<1>3. g \in 1..MaxInodes /\ g \in Nat BY <1>1, <1>2
<1> QED BY <1>3 DEF g, Inodes

LEMMA IndexGrowsGood ==
  ASSUME FilesOK, FilesOK', GensRise, IndexGood, Grows, torn \subseteq torn', CacheGrows,
         \A i \in 1..Current'.exists : i > Current.exists =>
           Good(Current'.recs[i], cache'[Current'.gen], torn')
  PROVE  GensRise' /\ IndexGood'
<1>1. /\ dir'.index = dir.index /\ Len(index') = Len(index) /\ dir.index \in 1..Len(index)
      /\ \A x \in 1..Len(index) : x # dir.index => index'[x] = index[x]
      /\ index'[dir.index] = Current' /\ index[dir.index] = Current
      /\ Current'.gen = Current.gen
  BY AllFiles DEF Grows, Grown, Current
<1>2. \A x \in 1..Len(index) : index'[x].gen = index[x].gen BY <1>1
<1>3. GensRise' BY <1>1, <1>2 DEF GensRise
<1>4. ASSUME NEW x \in 1..Len(index), NEW i \in 1..index'[x].exists
      PROVE  Good(index'[x].recs[i], cache'[index'[x].gen], torn')
  <2>1. index[x].gen \in Inodes BY GenType
  <2>2. \A o \in DOMAIN cache[index[x].gen] :
          o \in DOMAIN cache'[index[x].gen] /\ cache'[index[x].gen][o] = cache[index[x].gen][o]
    BY <2>1 DEF CacheGrows
  <2>3. CASE x # dir.index
    <3>1. index'[x] = index[x] BY <1>1, <2>3
    <3>2. Good(index[x].recs[i], cache[index[x].gen], torn) BY <1>4, <3>1 DEF IndexGood
    <3> QED BY <2>2, <3>1, <3>2, GoodGrows
  <2>4. CASE x = dir.index /\ i > Current.exists BY <1>1, <1>4, <2>4
  <2>5. CASE x = dir.index /\ ~(i > Current.exists)
    <3>1. i \in 1..Current.exists
      <4>1. i \in Nat /\ i >= 1
        <5>1. i \in Int /\ 1 <= i BY <1>4
        <5> QED BY <5>1
      <4>2. Current.exists \in Nat BY CurrentType
      <4> QED BY <2>5, <4>1, <4>2
    <3>2. Good(index[x].recs[i], cache[index[x].gen], torn) BY <1>1, <2>5, <3>1 DEF IndexGood
    <3>3. /\ Current'.recs[i].uid = Current.recs[i].uid /\ Current'.recs[i].mid = Current.recs[i].mid
          /\ Current'.recs[i].off = Current.recs[i].off
      BY <3>1 DEF Grows, Grown
    <3>4. Good(index'[x].recs[i], cache[index[x].gen], torn) BY <1>1, <2>5, <3>2, <3>3, GoodSame
    <3> QED BY <1>2, <2>2, <3>4, GoodGrows
  <2> QED BY <2>3, <2>4, <2>5
<1> QED BY <1>1, <1>3, <1>4 DEF IndexGood

LEMMA IndexRenamesGood ==
  ASSUME FilesOK, FilesOK', GensRise, IndexGood, Renames, Current.gen <= Current'.gen,
         torn \subseteq torn',
         \A x \in 1..Len(index) : cache'[index[x].gen] = cache[index[x].gen],
         \A i \in 1..Current'.exists : Good(Current'.recs[i], cache'[Current'.gen], torn')
  PROVE  GensRise' /\ IndexGood'
<1>1. /\ dir'.index = Len(index) + 1 /\ Len(index') = Len(index) + 1 /\ Len(index) \in Nat
      /\ \A x \in 1..Len(index) : index'[x] = index[x]
      /\ index'[Len(index) + 1] = Current'
  BY AllFiles DEF Renames, Current
<1>2. \A x \in 1..Len(index') : x \in 1..Len(index) \/ x = Len(index) + 1 BY <1>1
<1>3. Current'.gen \in Nat /\ Current.gen \in Nat
  <2>1. Current'.gen \in 1..dir'.index BY CurrentType, <1>1 DEF FilesOK, Current
  <2>2. Current.gen \in 1..dir.index BY CurrentType
  <2> QED BY <2>1, <2>2
<1>4. GensRise'
  <2>1. ASSUME NEW x \in 1..Len(index) PROVE index'[x].gen <= Current'.gen
    <3>1. index[x].gen <= Current.gen /\ index[x].gen \in Nat BY GenType DEF GensRise
    <3> QED BY <1>1, <1>3, <3>1
  <2> QED BY <1>1, <1>2, <1>3, <2>1 DEF GensRise
<1>5. ASSUME NEW x \in 1..Len(index), NEW i \in 1..index'[x].exists
      PROVE  Good(index'[x].recs[i], cache'[index'[x].gen], torn')
  <2>1. index'[x] = index[x] BY <1>1
  <2>2. Good(index[x].recs[i], cache[index[x].gen], torn) BY <1>5, <2>1 DEF IndexGood
  <2>3. Good(index[x].recs[i], cache[index[x].gen], torn') BY <2>2, GoodTorn
  <2> QED BY <2>1, <2>3
<1>6. ASSUME NEW x \in 1..Len(index'), NEW i \in 1..index'[x].exists
      PROVE  Good(index'[x].recs[i], cache'[index'[x].gen], torn')
  <2>1. CASE x \in 1..Len(index) BY <1>5, <1>6, <2>1
  <2>2. CASE x = Len(index) + 1 BY <1>1, <1>6, <2>2
  <2> QED BY <1>2, <2>1, <2>2
<1> QED BY <1>4, <1>6 DEF IndexGood

LEMMA CachedOut ==
  ASSUME NEW p \in Procs, op'[p].pc \notin OpenPcs \cup {"rencache", "renexpunge"}
  PROVE  CachedAt(op[p])'
<1>1. op'[p].pc # "append" BY DEF OpenPcs
<1> QED BY <1>1 DEF CachedAt, OpenAt, AppendedAt, CleanedAt

LEMMA CachedOpen ==
  ASSUME NEW p \in Procs, op'[p].pc \in OpenPcs \ {"append"}, Gens'
  PROVE  CachedAt(op[p])'
<1>1. op'[p].pc # "append" /\ op'[p].pc \notin {"rencache", "renexpunge"} BY DEF OpenPcs
<1> QED BY <1>1 DEF CachedAt, OpenAt, AppendedAt, CleanedAt

\* A step of the process that has the header locked.
LEMMA HolderCached ==
  ASSUME Inv, NEW p \in Procs, Header(op[p]), Steps(p), GensRise', IndexGood', ExpungeGood',
         CachedAt(op[p])'
  PROVE  CacheInv'
<1>0. TypeInv /\ OpsOK BY DEF Inv, TypeInv
<1>1. ASSUME NEW q \in Procs, q # p PROVE CachedAt(op[q])'
  <2>1. op'[q] = op[q] /\ ~Header(op[q]) BY <1>0, <1>1, Bystander
  <2>2. Phase(op[q]) BY <1>0 DEF OpsOK, OpOK
  <2>3. op[q].pc \notin OpenPcs \cup {"rencache", "renexpunge"}
    BY <2>1, <2>2 DEF Phase, Header, Lockless, OpenPcs, Expunges
  <2> QED BY <2>1, <2>3, CachedOut
<1> QED BY <1>1 DEF CacheInv

\* The files stay as they are for q, who does nothing.
LEMMA CachedStays ==
  ASSUME UNCHANGED <<index, cache, dir, xfile>>, torn \subseteq torn', NEW q \in Procs, op'[q] = op[q],
         CachedAt(op[q])
  PROVE  CachedAt(op[q])'
<1>1. Current' = Current /\ Expunged' = Expunged /\ Gens' = Gens BY DEF Current, Expunged, Gens
<1>2. OpenAt(op[q])' BY <1>1 DEF CachedAt, OpenAt
<1>3. AppendedAt(op[q])'
  <2> SUFFICES ASSUME op[q].pc = "append"
               PROVE  /\ \A x \in 1..Len(index) : index[x].gen = dir.cache =>
                           \A i \in 1..index[x].exists : Below(index[x].recs[i], op[q].clen)'
                      /\ \A i \in 1..xfile.exists : Below(xfile.recs[i], op[q].clen)'
                      /\ \A k \in 1..op[q].n :
                           Good(Current.recs[Current.exists + k], cache[dir.cache], torn')
    BY <1>1 DEF AppendedAt
  <2>1. AppendedAt(op[q]) BY DEF CachedAt
  <2>2. \A x \in 1..Len(index) : index[x].gen = dir.cache =>
          \A i \in 1..index[x].exists : Below(index[x].recs[i], op[q].clen)'
    BY <2>1 DEF AppendedAt, Below
  <2>3. \A i \in 1..xfile.exists : Below(xfile.recs[i], op[q].clen)'
    BY <2>1 DEF AppendedAt, Below
  <2>4. \A k \in 1..op[q].n : Good(Current.recs[Current.exists + k], cache[dir.cache], torn)
    BY <2>1 DEF AppendedAt
  <2>5. \A k \in 1..op[q].n : Good(Current.recs[Current.exists + k], cache[dir.cache], torn')
    BY <2>4, GoodTorn
  <2> QED BY <2>2, <2>3, <2>5
<1>4. CleanedAt(op[q])' BY <1>1 DEF CachedAt, CleanedAt
<1> QED BY <1>2, <1>3, <1>4 DEF CachedAt

LEMMA ExpungeStays ==
  ASSUME Inv, CacheInv, UNCHANGED <<index, cache, dir, xfile>>, torn \subseteq torn',
         NEW p \in Procs, Steps(p), Late(op[p]) => Late(op'[p]) \/ UidSet(Expunged) \subseteq torn'
  PROVE  ExpungeGood'
<1>0. FilesOK BY DEF Inv, TypeInv
<1> SUFFICES ASSUME Gens', \A q \in Procs : ~Late(op'[q]), NEW i \in 1..xfile.exists
             PROVE  Good(xfile.recs[i], cache[dir.cache], torn')
  BY DEF ExpungeGood, Late
<1>1. Gens BY DEF Gens, Current
<1>2. CASE \A q \in Procs : ~Late(op[q])
  <2>1. Good(xfile.recs[i], cache[dir.cache], torn) BY <1>1, <1>2 DEF CacheInv, ExpungeGood
  <2> QED BY <2>1, GoodTorn
<1>3. CASE ~(\A q \in Procs : ~Late(op[q]))
  <2>1. PICK q \in Procs : Late(op[q]) BY <1>3
  <2>2. q = p BY <2>1 DEF Steps
  <2>3. UidSet(Expunged) \subseteq torn' BY <2>1, <2>2
  <2>4. i \in 1..Len(Expunged) /\ Expunged \in Seq(Records) /\ Expunged[i] = xfile.recs[i]
    BY <1>0, ExpungedType
  <2>5. xfile.recs[i].uid \in UidSet(Expunged)
    <3> DEFINE e == Expunged
    <3>1. i \in DOMAIN e BY <2>4
    <3> QED BY <2>4, <3>1 DEF UidSet
  <2> QED BY <2>3, <2>5 DEF Good
<1> QED BY <1>2, <1>3

\* A step that leaves the files as they are.
LEMMA StillCached ==
  ASSUME Inv, CacheInv, UNCHANGED <<index, cache, dir, xfile>>, torn \subseteq torn',
         NEW p \in Procs, Steps(p), CachedAt(op[p])',
         Late(op[p]) => Late(op'[p]) \/ UidSet(Expunged) \subseteq torn'
  PROVE  CacheInv'
<1>1. GensRise' BY DEF CacheInv, GensRise, Current
<1>2. IndexGood' BY GoodTorn DEF CacheInv, IndexGood
<1>3. ExpungeGood' BY ExpungeStays
<1>4. ASSUME NEW q \in Procs, q # p PROVE CachedAt(op[q])'
  <2>1. op'[q] = op[q] /\ CachedAt(op[q]) BY <1>4 DEF Steps, CacheInv
  <2> QED BY <2>1, CachedStays
<1> QED BY <1>1, <1>2, <1>3, <1>4 DEF CacheInv

\* An operation that ends.
LEMMA ReleasedCached ==
  ASSUME Inv, CacheInv, UNCHANGED <<index, cache, dir, xfile>>, torn \subseteq torn',
         NEW p \in Procs, Release(p), Late(op[p]) => UidSet(Expunged) \subseteq torn'
  PROVE  CacheInv'
<1>1. Steps(p) /\ op'[p] = Idle BY ReleaseSteps DEF Inv, TypeInv
<1>2. CachedAt(op[p])' BY <1>1, IdleOK, CachedOut DEF OpenPcs
<1> QED BY <1>1, <1>2, StillCached

LEMMA LockIndexCached ==
  ASSUME Inv, CacheInv, NEW p \in Procs, mailbox_lock_index(p)
  PROVE  CacheInv'
<1>0. TypeInv /\ LocksOK /\ OpsOK /\ FilesOK BY DEF Inv, TypeInv
<1>1. op[p].pc = "lockindex" /\ UNCHANGED <<index, cache, dir, xfile, torn>>
  BY DEF mailbox_lock_index, mail, history
<1>2. OpOK(op[p]) /\ op[p].n = 0 /\ op[p].kind \in Expunges \cup {"store", "append", "unexpunge"}
  BY <1>0, <1>1 DEF OpsOK, OpOK, Phase
<1>3. ~Late(op[p]) BY <1>1 DEF Late
<1>4. CASE /\ Gens
           /\ op' = [op EXCEPT ![p].pc = FirstStep(op[p].kind), ![p].clen = Len(cache[dir.cache])]
  <2>1. /\ Steps(p) /\ op'[p].pc = FirstStep(op[p].kind) /\ op'[p].n = 0
        /\ op'[p].clen = Len(cache[dir.cache])
    BY <1>0, <1>2, <1>4 DEF Steps, Fields, OpsOK, OpOK
  <2>2. Gens' BY <1>1, <1>4 DEF Gens, Current
  <2>3. CASE op[p].kind # "append"
    <3>1. op'[p].pc \in {"storeflag", "restore", "records"} BY <2>1, <2>3 DEF FirstStep
    <3>2. CachedAt(op[p])' BY <2>2, <3>1, CachedOut, CachedOpen DEF OpenPcs
    <3> QED BY <1>1, <1>3, <2>1, <3>2, StillCached
  <2>4. CASE op[p].kind = "append"
    <3>1. op'[p].pc = "append" BY <2>1, <2>4 DEF FirstStep
    <3>2. Header(op[p]) BY <1>1, <2>4 DEF Header, Lockless
    <3>3. \A q \in Procs : ~Late(op[q])
      <4>1. \A q \in Procs : q # p => ~Header(op[q]) BY <1>0, <3>2, Alone
      <4>2. \A q \in Procs : Late(op[q]) => Header(op[q]) BY DEF Late, Header, Lockless
      <4> QED BY <1>3, <4>1, <4>2
    <3> DEFINE c == cache[dir.cache]
               n == Len(c)
    <3>4. c \in Seq(Nat) BY <1>0, CurrentType DEF FilesOK
    <3>5. ASSUME NEW r, Good(r, c, torn) PROVE Below(r, n)
      <4>1. r.uid \in torn \/ r.off \in 1..n BY <3>4, <3>5 DEF Good
      <4>2. n \in Nat BY <3>4
      <4> HIDE DEF n
      <4> QED BY <4>1, <4>2 DEF Below
    <3>6. \A x \in 1..Len(index) : index[x].gen = dir.cache =>
            \A i \in 1..index[x].exists : Below(index[x].recs[i], n)
      BY <3>5 DEF CacheInv, IndexGood
    <3>7. \A i \in 1..xfile.exists : Below(xfile.recs[i], n)
      BY <1>4, <3>3, <3>5 DEF CacheInv, ExpungeGood
    <3>8. \A r : Below(r, n)' <=> Below(r, n) BY <1>1 DEF Below
    <3>9. AppendedAt(op[p])'
      <4>1. 1..op'[p].n = {} BY <2>1
      <4>2. op'[p].clen = n BY <2>1
      <4> HIDE DEF n
      <4> QED BY <1>1, <3>6, <3>7, <4>1, <4>2 DEF AppendedAt, Below
    <3>10. CachedAt(op[p])' BY <2>2, <3>1, <3>9 DEF CachedAt, OpenAt, CleanedAt
    <3> QED BY <1>1, <1>3, <2>1, <3>10, StillCached
  <2> QED BY <2>3, <2>4
<1>5. CASE op' = [op EXCEPT ![p].fd = dir.index]
  <2>1. Steps(p) /\ op'[p].pc = "lockindex" BY <1>0, <1>1, <1>5 DEF Steps, Fields, OpsOK, OpOK
  <2>2. CachedAt(op[p])' BY <2>1, CachedOut DEF OpenPcs
  <2> QED BY <1>1, <1>3, <2>1, <2>2, StillCached
<1>6. CASE Release(p) BY <1>1, <1>3, <1>6, ReleasedCached
<1> QED BY <1>4, <1>5, <1>6 DEF mailbox_lock_index

LEMMA CutOffLate ==
  ASSUME NEW p \in Procs, Late(op[p])
  PROVE  CutOff(p) = UidSet(Expunged)
<1>1. ~Has(p, "delayed", "renindex") /\ ~Has(p, "unexpunge", "renexpunge")
      /\ Has(p, "cleanup", "renexpunge")
  BY DEF Late, Has
<1> QED BY <1>1 DEF CutOff

LEMMA KillCached ==
  ASSUME Inv, CacheInv, NEW p \in Procs, Kill(p) \/ restore_fails(p)
  PROVE  CacheInv'
<1>1. /\ UNCHANGED <<index, cache, dir, xfile>> /\ torn' = torn \cup CutOff(p) /\ Release(p)
  BY DEF Kill, restore_fails, mail
<1>2. Late(op[p]) => UidSet(Expunged) \subseteq torn' BY <1>1, CutOffLate
<1>3. torn \subseteq torn' BY <1>1
<1> QED BY <1>1, <1>2, <1>3, ReleasedCached

LEMMA StoreFlagCached ==
  ASSUME Inv, Inv', CacheInv, NEW p \in Procs, index_storeflag(p)
  PROVE  CacheInv'
<1>0. FilesOK /\ FilesOK' /\ LocksOK /\ OpsOK BY DEF Inv, TypeInv
<1>1. /\ Grows /\ Current'.exists = Current.exists /\ dir' = dir /\ cache' = cache
      /\ xfile' = xfile /\ torn' = torn /\ op[p].pc = "storeflag" /\ Release(p)
  BY StoreFlagGrows DEF index_storeflag, history, Has
<1>2. Steps(p) /\ op'[p] = Idle BY <1>0, <1>1, ReleaseSteps
<1>3. Current'.gen = Current.gen BY <1>1 DEF Grows, Grown
<1>4. GensRise' /\ IndexGood'
  <2>1. CacheGrows BY <1>1 DEF CacheGrows
  <2>2. Current.exists \in Nat BY <1>0, CurrentType
  <2>3. \A i \in 1..Current'.exists : ~(i > Current.exists) BY <1>1, <2>2
  <2> QED BY <1>0, <1>1, <2>1, <2>3, IndexGrowsGood DEF CacheInv
<1>5. ExpungeGood'
  <2>1. \A q \in Procs : Late(op[q]) => Late(op'[q])
    BY <1>1, <1>2 DEF Steps, Late
  <2>2. Gens' = Gens BY <1>1, <1>3 DEF Gens
  <2>3. (\A q \in Procs : ~Late(op'[q])) => \A q \in Procs : ~Late(op[q]) BY <2>1
  <2>4. (\A q \in Procs : ~Late(op[q]))' => \A q \in Procs : ~Late(op[q]) BY <2>3 DEF Late
  <2>5. ExpungeGood BY DEF CacheInv
  <2> QED BY <1>1, <2>2, <2>4, <2>5 DEF ExpungeGood
<1>6. ASSUME NEW q \in Procs PROVE CachedAt(op[q])'
  <2>1. CASE q = p BY <1>2, <2>1, IdleOK, CachedOut DEF OpenPcs
  <2>2. CASE q # p
    <3>1. op'[q] = op[q] /\ CachedAt(op[q]) BY <1>2, <2>2 DEF Steps, CacheInv
    <3>2. op[p].pc \in IndexPcs BY <1>1 DEF IndexPcs
    <3>3. op[q].pc \notin IndexPcs BY <1>0, <2>2, <3>2, Alone
    <3>4. op[q].pc # "append" BY <3>3 DEF IndexPcs
    <3>5. Expunged' = Expunged /\ Gens' = Gens BY <1>1, <1>3 DEF Expunged, Gens
    <3>6. AppendedAt(op[q])' BY <3>1, <3>4 DEF AppendedAt
    <3>7. OpenAt(op[q])' BY <3>1, <3>5 DEF CachedAt, OpenAt
    <3>8. CleanedAt(op[q])' BY <1>1, <1>3, <3>1, <3>5 DEF CachedAt, CleanedAt
    <3> QED BY <3>6, <3>7, <3>8 DEF CachedAt
  <2> QED BY <2>1, <2>2
<1> QED BY <1>4, <1>5, <1>6 DEF CacheInv

\* While p has the header locked and is not a cleanup, cyrus.expunge is good.
LEMMA HolderExpunge ==
  ASSUME Inv, CacheInv, NEW p \in Procs, Header(op[p]), ~Late(op[p]), Gens
  PROVE  \A i \in 1..xfile.exists : Good(xfile.recs[i], cache[dir.cache], torn)
<1>1. \A q \in Procs : q # p => ~Header(op[q]) BY Alone DEF Inv, TypeInv
<1>2. \A q \in Procs : Late(op[q]) => Header(op[q]) BY DEF Late, Header, Lockless
<1>3. \A q \in Procs : ~Late(op[q]) BY <1>1, <1>2
<1> QED BY <1>3 DEF CacheInv, ExpungeGood

LEMMA HolderOpen ==
  ASSUME CacheInv, NEW p \in Procs, op[p].pc \in OpenPcs
  PROVE  Gens
BY DEF CacheInv, CachedAt, OpenAt

LEMMA AppendMessageCached ==
  ASSUME Inv, Inv', CacheInv, NEW p \in Procs, append_message(p)
  PROVE  CacheInv'
<1>0. FilesOK /\ FilesOK' /\ OpsOK BY DEF Inv, TypeInv
<1> DEFINE n == op[p].n
           e == Current.exists
           c == cache[dir.cache]
           d == cache'[dir.cache]
<1>1. /\ Grows /\ Current'.exists = e /\ \A i \in 1..e + n : Current'.recs[i] = Current.recs[i]
      /\ Current'.recs[e + n + 1] = Record(Current.last_uid + n + 1, mid + 1, Len(c) + 1)
  BY AppendMessageGrows
<1>2. /\ op[p].pc = "append" /\ dir' = dir /\ xfile' = xfile /\ torn' = torn
      /\ cache' = [cache EXCEPT ![dir.cache] = Append(c, mid + 1)]
      /\ op' = [op EXCEPT ![p].n = @ + 1]
  BY DEF append_message, history
<1>3. Header(op[p]) /\ ~Late(op[p])
  BY <1>0, <1>2 DEF Header, Lockless, Late, OpsOK, OpOK, Phase
<1>4. /\ Steps(p) /\ op'[p].pc = "append" /\ op'[p].n = n + 1 /\ op'[p].clen = op[p].clen
      /\ n \in Nat /\ ~Late(op'[p])
  BY <1>0, <1>2 DEF OpsOK, OpOK, Steps, Fields, Late
<1>5. Gens BY <1>2, HolderOpen DEF OpenPcs
<1>6. Current'.gen = Current.gen BY <1>1 DEF Grows, Grown
<1>7. Gens' BY <1>2, <1>5, <1>6 DEF Gens
<1>8. e \in Nat /\ dir.cache \in Inodes /\ cache \in [Inodes -> Seq(Nat)] /\ mid + 1 \in Nat
  BY <1>0, CurrentType DEF FilesOK
<1>9. c \in Seq(Nat) /\ d = Append(c, mid + 1) /\ Len(c) \in Nat BY <1>2, <1>8
<1>10. /\ \A o \in DOMAIN c : o \in DOMAIN d /\ d[o] = c[o]
       /\ Len(c) + 1 \in DOMAIN d /\ d[Len(c) + 1] = mid + 1
  <2> HIDE DEF c, d
  <2> QED BY <1>8, <1>9
<1>11. CacheGrows
  <2> SUFFICES ASSUME NEW g \in Inodes
               PROVE  \A o \in DOMAIN cache[g] : o \in DOMAIN cache'[g] /\ cache'[g][o] = cache[g][o]
    BY DEF CacheGrows
  <2>1. CASE g = dir.cache BY <1>10, <2>1
  <2>2. CASE g # dir.cache
    <3>1. cache'[g] = cache[g] BY <1>2, <1>8, <2>2
    <3> QED BY <3>1
  <2> QED BY <2>1, <2>2
<1>12. GensRise' /\ IndexGood'
  <2>1. \A i \in 1..Current'.exists : ~(i > Current.exists) BY <1>1, <1>8
  <2> QED BY <1>0, <1>1, <1>2, <1>11, <2>1, IndexGrowsGood DEF CacheInv
<1>13. ExpungeGood'
  <2>1. \A i \in 1..xfile.exists : Good(xfile.recs[i], c, torn)
    BY <1>3, <1>5, HolderExpunge
  <2>2. \A i \in 1..xfile.exists : Good(xfile.recs[i], d, torn')
    <3> HIDE DEF c, d
    <3> QED BY <1>2, <1>10, <2>1, GoodGrows
  <2> QED BY <1>2, <2>2 DEF ExpungeGood
<1>14. AppendedAt(op[p])'
  <2>1. AppendedAt(op[p]) BY DEF CacheInv, CachedAt
  <2>3. ASSUME NEW x \in 1..Len(index'), index'[x].gen = dir'.cache, NEW i \in 1..index'[x].exists
        PROVE  Below(index'[x].recs[i], op[p].clen)
    <3>1. x \in 1..Len(index) /\ (x # dir.index => index'[x] = index[x]) BY <1>1, <2>3 DEF Grows
    <3>2. CASE x # dir.index BY <1>2, <1>4, <2>1, <2>3, <3>1, <3>2 DEF AppendedAt
    <3>3. CASE x = dir.index
      <4>1. index'[x] = Current' /\ index[x] = Current BY <1>2, <3>3 DEF Current
      <4>2. i \in 1..e /\ Current.gen = dir.cache BY <1>1, <1>2, <1>6, <2>3, <4>1
      <4>3. Below(Current.recs[i], op[p].clen)
        BY <1>2, <2>1, <3>1, <4>1, <4>2 DEF AppendedAt
      <4>4. /\ Current'.recs[i].uid = Current.recs[i].uid
            /\ Current'.recs[i].off = Current.recs[i].off
        BY <1>1, <4>2 DEF Grows, Grown
      <4> QED BY <4>1, <4>3, <4>4 DEF Below
    <3> QED BY <3>2, <3>3
  <2>4. \A i \in 1..xfile.exists : Below(xfile.recs[i], op[p].clen)
    BY <1>2, <2>1 DEF AppendedAt
  <2>5. ASSUME NEW k \in 1..n + 1 PROVE Good(Current'.recs[e + k], d, torn)
    <3>1. CASE k = n + 1
      <4>1. Current'.recs[e + k] = Record(Current.last_uid + n + 1, mid + 1, Len(c) + 1)
        <5>1. e + k = e + n + 1 BY <1>4, <1>8, <3>1
        <5> QED BY <1>1, <5>1
      <4> HIDE DEF c, d
      <4>2. Current'.recs[e + k].off = Len(c) + 1 /\ Current'.recs[e + k].mid = mid + 1
        BY <4>1 DEF Record
      <4> QED BY <1>10, <4>2 DEF Good
    <3>2. CASE k # n + 1
      <4>1. k \in 1..n /\ e + k \in 1..e + n BY <1>4, <1>8, <2>5, <3>2
      <4>2. Current'.recs[e + k] = Current.recs[e + k] BY <1>1, <4>1
      <4>3. Good(Current.recs[e + k], c, torn) BY <1>2, <2>1, <4>1 DEF AppendedAt
      <4> QED BY <1>10, <4>2, <4>3, GoodGrows
    <3> QED BY <3>1, <3>2
  <2>6. \A k \in 1..op'[p].n :
          Good(Current'.recs[Current'.exists + k], cache'[dir'.cache], torn')
    BY <1>1, <1>2, <1>4, <2>5
  <2> HIDE DEF c, d, e, n
  <2> QED BY <1>2, <1>4, <2>3, <2>4, <2>6 DEF AppendedAt, Below
<1>15. CachedAt(op[p])' BY <1>4, <1>7, <1>14 DEF CachedAt, OpenAt, CleanedAt
<1> QED BY <1>3, <1>4, <1>12, <1>13, <1>15, HolderCached

LEMMA AppendCommitCached ==
  ASSUME Inv, Inv', CacheInv, NEW p \in Procs, append_commit(p)
  PROVE  CacheInv'
<1>0. FilesOK /\ FilesOK' /\ OpsOK BY DEF Inv, TypeInv
<1> DEFINE n == op[p].n
           e == Current.exists
<1>1. Grows /\ Current'.exists = e + n /\ Current'.recs = Current.recs BY AppendCommitGrows
<1>2. /\ op[p].pc = "append" /\ dir' = dir /\ xfile' = xfile /\ torn' = torn /\ cache' = cache
      /\ Step(p, "commitquota")
  BY DEF append_commit
<1>3. Header(op[p]) /\ ~Late(op[p]) /\ n \in Nat
  BY <1>0, <1>2 DEF Header, Lockless, Late, OpsOK, OpOK, Phase
<1>4. Steps(p) /\ op'[p].pc = "commitquota" BY <1>0, <1>2, StepGoesOn DEF GoesOn
<1>5. Gens BY <1>2, HolderOpen DEF OpenPcs
<1>6. Current'.gen = Current.gen BY <1>1 DEF Grows, Grown
<1>7. Gens' BY <1>2, <1>5, <1>6 DEF Gens
<1>8. GensRise' /\ IndexGood'
  <2>1. AppendedAt(op[p]) BY DEF CacheInv, CachedAt
  <2>2. CacheGrows BY <1>2 DEF CacheGrows
  <2>3. ASSUME NEW i \in 1..Current'.exists, i > Current.exists
        PROVE  Good(Current'.recs[i], cache'[Current'.gen], torn')
    <3>1. e \in Nat BY <1>0, CurrentType
    <3>2. i - e \in 1..n /\ e + (i - e) = i
      <4> HIDE DEF e, n
      <4>1. i \in 1..e + n /\ i > e BY <1>1, <2>3 DEF e
      <4> QED BY <1>3, <3>1, <4>1
    <3>3. Good(Current.recs[e + (i - e)], cache[dir.cache], torn)
      BY <1>2, <2>1, <3>2 DEF AppendedAt
    <3> QED BY <1>1, <1>2, <1>5, <1>6, <3>2, <3>3 DEF Gens
  <2> QED BY <1>0, <1>1, <1>2, <2>2, <2>3, IndexGrowsGood DEF CacheInv
<1>9. ExpungeGood' BY <1>2, <1>3, <1>5, HolderExpunge DEF ExpungeGood
<1>10. CachedAt(op[p])' BY <1>4, <1>7, CachedOpen DEF OpenPcs
<1> QED BY <1>3, <1>4, <1>8, <1>9, <1>10, HolderCached

LEMMA AppendAbortCached ==
  ASSUME Inv, Inv', CacheInv, NEW p \in Procs, append_abort(p)
  PROVE  CacheInv'
<1>0. FilesOK /\ FilesOK' /\ OpsOK BY DEF Inv, TypeInv
<1> DEFINE l == op[p].clen
           c == cache[dir.cache]
           d == SubSeq(c, 1, l)
<1>1. /\ op[p].pc = "append" /\ UNCHANGED <<dir, index, xfile>> /\ torn' = torn
      /\ cache' = [cache EXCEPT ![dir.cache] = d] /\ Release(p)
  BY DEF append_abort, history
<1>2. Header(op[p]) /\ ~Late(op[p]) BY <1>0, <1>1 DEF Header, Lockless, Late, OpsOK, OpOK, Phase
<1>3. Steps(p) /\ op'[p] = Idle BY <1>0, <1>1, ReleaseSteps
<1>4. Gens /\ AppendedAt(op[p]) BY <1>1, HolderOpen DEF OpenPcs, CacheInv, CachedAt
<1>5. dir.cache \in Inodes /\ cache \in [Inodes -> Seq(Nat)] BY <1>0, CurrentType DEF FilesOK
<1>6. c \in Seq(Nat) /\ l \in Nat /\ l <= Len(c) /\ cache'[dir.cache] = d
      /\ \A g \in Inodes : g # dir.cache => cache'[g] = cache[g]
  <2>1. l \in Nat /\ StagedAt(op[p]) BY <1>0 DEF OpsOK, OpOK, Inv, TypeInv, WorkOK, Work
  <2> QED BY <1>1, <1>5, <2>1 DEF StagedAt
<1>7. ASSUME NEW r, Good(r, c, torn), Below(r, l) PROVE Good(r, d, torn)
  <2> HIDE DEF c, l
  <2> QED BY <1>6, <1>7, GoodCut DEF Below
<1> HIDE DEF d
<1>8. GensRise' BY <1>1 DEF CacheInv, GensRise, Current
<1>9. IndexGood'
  <2> SUFFICES ASSUME NEW x \in 1..Len(index), NEW i \in 1..index[x].exists
               PROVE  Good(index[x].recs[i], cache'[index[x].gen], torn)
    BY <1>1 DEF IndexGood
  <2>1. Good(index[x].recs[i], cache[index[x].gen], torn) BY DEF CacheInv, IndexGood
  <2>2. index[x].gen \in Inodes BY <1>0, GenType
  <2>3. CASE index[x].gen # dir.cache BY <1>6, <2>1, <2>2, <2>3
  <2>4. CASE index[x].gen = dir.cache
    <3>1. Below(index[x].recs[i], l) BY <1>1, <1>4, <2>4 DEF AppendedAt
    <3> QED BY <1>6, <1>7, <2>1, <2>4, <3>1
  <2> QED BY <2>3, <2>4
<1>10. ExpungeGood'
  <2>1. \A i \in 1..xfile.exists : Good(xfile.recs[i], c, torn) BY <1>2, <1>4, HolderExpunge
  <2>2. \A i \in 1..xfile.exists : Below(xfile.recs[i], l) BY <1>1, <1>4 DEF AppendedAt
  <2>3. \A i \in 1..xfile.exists : Good(xfile.recs[i], d, torn) BY <1>7, <2>1, <2>2
  <2> QED BY <1>1, <1>6, <2>3 DEF ExpungeGood
<1>11. CachedAt(op[p])' BY <1>3, IdleOK, CachedOut DEF OpenPcs
<1> QED BY <1>2, <1>3, <1>8, <1>9, <1>10, <1>11, HolderCached

\* The records that cyrus.expunge counts stay.
CountedStay == xfile'.exists = xfile.exists /\ \A i \in 1..xfile.exists : xfile'.recs[i] = xfile.recs[i]

LEMMA TailCached ==
  ASSUME Inv, CacheInv, NEW p \in Procs, Header(op[p]), Steps(p), UNCHANGED <<index, cache, dir>>,
         torn \subseteq torn', CountedStay, ~Late(op[p]), Gens, CachedAt(op[p])'
  PROVE  CacheInv'
<1>1. GensRise' BY DEF CacheInv, GensRise, Current
<1>2. IndexGood' BY GoodTorn DEF CacheInv, IndexGood
<1>3. ExpungeGood'
  <2>1. \A i \in 1..xfile.exists : Good(xfile.recs[i], cache[dir.cache], torn) BY HolderExpunge
  <2>2. \A i \in 1..xfile.exists : Good(xfile.recs[i], cache[dir.cache], torn') BY <2>1, GoodTorn
  <2>3. \A i \in 1..xfile'.exists : Good(xfile'.recs[i], cache'[dir'.cache], torn')
    BY <2>2 DEF CountedStay
  <2> QED BY <2>3 DEF ExpungeGood
<1> QED BY <1>1, <1>2, <1>3, HolderCached

LEMMA ProcessRecordsCached ==
  ASSUME Inv, CacheInv, NEW p \in Procs, process_records(p)
  PROVE  CacheInv'
<1>0. OpsOK /\ FilesOK BY DEF Inv, TypeInv
<1>1. op[p].pc = "records" /\ UNCHANGED <<index, cache, dir, torn>> BY DEF process_records, history
<1>2. PICK D : /\ op' = [op EXCEPT ![p].dels = D, ![p].pc = "quota"]
               /\ \/ xfile' = xfile
                  \/ xfile' = [xfile EXCEPT !.there = TRUE,
                                 !.recs = WriteAt(@, xfile.exists + 1, Drop(Live(Current), D))]
  BY DEF process_records
<1>3. Header(op[p]) /\ ~Late(op[p]) BY <1>0, <1>1 DEF OpsOK, OpOK, Phase, Header, Lockless, Expunges, Late
<1>4. Steps(p) /\ op'[p].pc = "quota"
  <2>1. op' = [op EXCEPT ![p].dels = D, ![p].pc = "quota"] BY <1>2
  <2> HIDE <1>2
  <2> QED BY <1>0, <2>1 DEF OpsOK, OpOK, Steps, Fields
<1>5. CountedStay
  <2> DEFINE d == Drop(Live(Current), D)
             n == xfile.exists + 1
             recs == WriteAt(xfile.recs, n, d)
  <2>1. /\ xfile.recs \in Seq(Records) /\ xfile.exists \in Nat /\ xfile.exists <= Len(xfile.recs)
        /\ xfile \in ExpungeFiles /\ Live(Current) \in Seq(Records)
    BY <1>0, ExpungedType, CurrentType DEF FilesOK
  <2>2. d \in Seq(Records) BY <2>1, DropPicks
  <2>3. n \in 1..Len(xfile.recs) + 1 /\ n - 1 = xfile.exists BY <2>1
  <2>4. xfile' = xfile \/ xfile' = [xfile EXCEPT !.there = TRUE, !.recs = recs] BY <1>2
  <2> HIDE DEF d, n
  <2>5. \A i \in 1..n - 1 : recs[i] = xfile.recs[i] BY <2>1, <2>2, <2>3, WriteAtFacts
  <2> HIDE DEF recs
  <2> QED BY <2>1, <2>3, <2>4, <2>5 DEF CountedStay, ExpungeFiles
<1>6. Gens BY <1>1, HolderOpen DEF OpenPcs
<1>7. Gens' BY <1>1, <1>6 DEF Gens, Current
<1>8. CachedAt(op[p])' BY <1>4, <1>7, CachedOpen DEF OpenPcs
<1> QED BY <1>1, <1>3, <1>4, <1>5, <1>6, <1>8, TailCached

LEMMA ExpungeFailsCached ==
  ASSUME Inv, CacheInv, NEW p \in Procs, expunge_fails(p)
  PROVE  CacheInv'
<1>0. OpsOK /\ FilesOK BY DEF Inv, TypeInv
<1>1. /\ op[p].pc \in {"quota", "xheader", "renindex"} /\ Release(p)
      /\ torn \subseteq torn' /\ UNCHANGED <<index, cache, dir>>
      /\ \/ xfile' = [xfile EXCEPT !.recs = SubSeq(@, 1, xfile.exists)] \/ xfile' = xfile
  BY DEF expunge_fails
<1>2. Header(op[p]) /\ ~Late(op[p]) BY <1>0, <1>1 DEF OpsOK, OpOK, Phase, Header, Lockless, Expunges, Late
<1>3. Steps(p) /\ op'[p] = Idle BY <1>0, <1>1, ReleaseSteps
<1>4. CountedStay
  <2> DEFINE e == xfile.exists
             r == xfile.recs
             s == SubSeq(r, 1, e)
  <2>1. r \in Seq(Records) /\ e \in Nat /\ e <= Len(r) /\ xfile \in ExpungeFiles
    BY <1>0, ExpungedType DEF FilesOK
  <2>2. xfile' = [xfile EXCEPT !.recs = s] \/ xfile' = xfile BY <1>1
  <2> HIDE DEF e, r
  <2>3. \A i \in 1..e : s[i] = r[i] BY <2>1
  <2> HIDE DEF s
  <2> QED BY <2>1, <2>2, <2>3 DEF CountedStay, ExpungeFiles, e, r
<1>5. Gens BY <1>1, HolderOpen DEF OpenPcs
<1>6. CachedAt(op[p])' BY <1>3, IdleOK, CachedOut DEF OpenPcs
<1> QED BY <1>1, <1>2, <1>3, <1>4, <1>5, <1>6, TailCached

LEMMA ReleaseQuotaCached ==
  ASSUME Inv, CacheInv, NEW p \in Procs, release_quota(p)
  PROVE  CacheInv'
<1>0. OpsOK BY DEF Inv, TypeInv
<1> DEFINE pc == IF op[p].kind = "delayed" THEN "xheader" ELSE "renindex"
<1>1. op[p].pc = "quota" /\ UNCHANGED <<index, cache, dir, xfile, torn>> /\ Step(p, pc)
  BY DEF release_quota, mail, history
<1>2. Steps(p) /\ op'[p].pc = pc BY <1>0, <1>1, StepGoesOn DEF GoesOn
<1>3. Gens BY <1>1, HolderOpen DEF OpenPcs
<1>4. Gens' BY <1>1, <1>3 DEF Gens, Current
<1>5. CachedAt(op[p])' BY <1>2, <1>4, CachedOpen DEF OpenPcs
<1>6. ~Late(op[p]) BY <1>1 DEF Late
<1> QED BY <1>1, <1>2, <1>5, <1>6, StillCached

LEMMA KeepFrom ==
  ASSUME NEW recs \in Seq(Records), NEW D
  PROVE  /\ Keep(recs, D) \in Seq(Records)
         /\ \A i \in 1..Len(Keep(recs, D)) : \E j \in 1..Len(recs) : Keep(recs, D)[i] = recs[j]
<1>1. Keep(recs, D) \in Seq(Records) BY KeepPicks
<1>2. PICK f : Picks(f, recs, Keep(recs, D), Uids \ D) BY KeepPicks
<1>3. DOMAIN recs = 1..Len(recs) OBVIOUS
<1>4. \A i \in 1..Len(Keep(recs, D)) : f[i] \in 1..Len(recs) /\ Keep(recs, D)[i] = recs[f[i]]
  BY <1>2, <1>3 DEF Picks
<1> QED BY <1>1, <1>4

LEMMA DropFrom ==
  ASSUME NEW recs \in Seq(Records), NEW D
  PROVE  /\ Drop(recs, D) \in Seq(Records)
         /\ \A i \in 1..Len(Drop(recs, D)) : \E j \in 1..Len(recs) : Drop(recs, D)[i] = recs[j]
<1>1. Drop(recs, D) \in Seq(Records) BY DropPicks
<1>2. PICK f : Picks(f, recs, Drop(recs, D), D) BY DropPicks
<1>3. DOMAIN recs = 1..Len(recs) OBVIOUS
<1>4. \A i \in 1..Len(Drop(recs, D)) : f[i] \in 1..Len(recs) /\ Drop(recs, D)[i] = recs[f[i]]
  BY <1>2, <1>3 DEF Picks
<1> QED BY <1>1, <1>4

\* The records of cyrus.index lead to their messages in the cache that has the
\* name, when it is the one that belongs to it.
LEMMA LiveGood ==
  ASSUME FilesOK, IndexGood, Gens
  PROVE  \A j \in 1..Len(Live(Current)) : Good(Live(Current)[j], cache[dir.cache], torn)
<1>1. /\ Len(Live(Current)) = Current.exists /\ dir.index \in 1..Len(index)
      /\ \A i \in 1..Current.exists : Live(Current)[i] = Current.recs[i]
  BY CurrentType
<1>2. \A i \in 1..Current.exists : Good(Current.recs[i], cache[Current.gen], torn)
  BY <1>1 DEF IndexGood, Current
<1> QED BY <1>1, <1>2 DEF Gens

LEMMA ExpungeHeaderCached ==
  ASSUME Inv, CacheInv, NEW p \in Procs, expunge_header(p)
  PROVE  CacheInv'
<1>0. OpsOK /\ FilesOK BY DEF Inv, TypeInv
<1> DEFINE d == Drop(Live(Current), op[p].dels)
           e == xfile.exists
           c == cache[dir.cache]
<1>1. /\ op[p].pc = "xheader" /\ Step(p, "renindex") /\ xfile' = [xfile EXCEPT !.exists = e + Len(d)]
      /\ UNCHANGED <<index, cache, dir, torn>>
  BY DEF expunge_header, history
<1>2. op[p].kind = "delayed" /\ Header(op[p]) /\ ~Late(op[p]) /\ CopiedAt(op[p])
  BY <1>0, <1>1 DEF OpsOK, OpOK, Phase, Header, Lockless, Late, Inv, TypeInv, WorkOK, Work
<1>3. Steps(p) /\ op'[p].pc = "renindex" BY <1>0, <1>1, StepGoesOn DEF GoesOn
<1>4. Gens BY <1>1, HolderOpen DEF OpenPcs
<1>5. Gens' BY <1>1, <1>4 DEF Gens, Current
<1>6. Live(Current) \in Seq(Records) /\ xfile \in ExpungeFiles /\ e \in Nat
  BY <1>0, CurrentType, ExpungedType DEF FilesOK
<1>7. /\ d \in Seq(Records)
      /\ \A i \in 1..Len(d) : \E j \in 1..Len(Live(Current)) : d[i] = Live(Current)[j]
  BY <1>6, DropFrom
<1>8. \A i \in 1..Len(d) : Good(d[i], c, torn) BY <1>0, <1>4, <1>7, LiveGood DEF CacheInv
<1>9. \A k \in 1..Len(d) : xfile.recs[e + k] = d[k] BY <1>1, <1>2 DEF CopiedAt
<1>10. \A i \in 1..e : Good(xfile.recs[i], c, torn) BY <1>2, <1>4, HolderExpunge
<1> HIDE DEF d
<1>11. Len(d) \in Nat BY <1>7
<1>12. xfile'.exists = e + Len(d) /\ xfile'.recs = xfile.recs BY <1>1, <1>6 DEF ExpungeFiles
<1> HIDE DEF e, c
<1>13. ASSUME NEW i \in 1..e + Len(d) PROVE Good(xfile.recs[i], c, torn)
  <2>1. CASE i <= e BY <1>6, <1>10, <2>1
  <2>2. CASE ~(i <= e)
    <3>1. i - e \in 1..Len(d) /\ i = e + (i - e) BY <1>6, <1>11, <2>2
    <3>2. xfile.recs[e + (i - e)] = d[i - e] /\ Good(d[i - e], c, torn) BY <1>8, <1>9, <3>1
    <3> QED BY <3>1, <3>2
  <2> QED BY <2>1, <2>2
<1>14. ExpungeGood' BY <1>1, <1>12, <1>13 DEF ExpungeGood, c
<1>15. GensRise' BY <1>1 DEF CacheInv, GensRise, Current
<1>16. IndexGood' BY <1>1 DEF CacheInv, IndexGood
<1>17. CachedAt(op[p])' BY <1>3, <1>5, CachedOpen DEF OpenPcs
<1> QED BY <1>2, <1>3, <1>14, <1>15, <1>16, <1>17, HolderCached

\* The offsets that Recache gives, and what is found there.
LEMMA RecacheOff ==
  ASSUME NEW recs \in Seq(Records), NEW n \in Nat
  PROVE  \A i \in 1..Len(recs) : Recache(recs, n)[i].off = n + i
<1> SUFFICES ASSUME NEW i \in 1..Len(recs) PROVE Recache(recs, n)[i].off = n + i
  OBVIOUS
<1>1. recs[i] \in Records /\ DOMAIN recs = 1..Len(recs) OBVIOUS
<1>2. Recache(recs, n)[i] = [recs[i] EXCEPT !.off = n + i] BY <1>1 DEF Recache
<1> QED BY <1>1, <1>2 DEF Records

LEMMA CacheOfGood ==
  ASSUME NEW recs \in Seq(Records), NEW g, NEW i \in 1..Len(recs), Good(recs[i], cache[g], torn)
  PROVE  recs[i].uid \in torn \/ (i \in DOMAIN CacheOf(recs, g) /\ CacheOf(recs, g)[i] = recs[i].mid)
<1>1. DOMAIN recs = 1..Len(recs) OBVIOUS
<1>2. DOMAIN CacheOf(recs, g) = DOMAIN recs
      /\ CacheOf(recs, g)[i] = IF recs[i].off \in DOMAIN cache[g] THEN cache[g][recs[i].off] ELSE NoFile
  BY <1>1 DEF CacheOf
<1> QED BY <1>1, <1>2 DEF Good

\* The messages that an expunge leaves in cyrus.index and in cyrus.expunge.
Kept(o) == Keep(Live(Current), Goes(o))
Left(o) == IF o.kind = "cleanup" THEN Keep(Expunged, o.dels) ELSE <<>>

LEMMA RenameIndexFile ==
  ASSUME FilesOK, NEW p \in Procs, rename_index(p)
  PROVE  /\ Current'.exists = Len(Kept(op[p]))
         /\ Current'.gen = IF newcache(op[p].kind) THEN Current.gen + 1 ELSE Current.gen
         /\ Current'.recs = IF newcache(op[p].kind) THEN Recache(Kept(op[p]), 0) ELSE Kept(op[p])
<1> DEFINE keep == Kept(op[p])
           ix == NewIndex(op[p].kind, op[p].dels)
           n == Cardinality({i \in DOMAIN Live(Current) :
                               Current.recs[i].uid \in Goes(op[p]) /\ Current.recs[i].del})
           gen == IF newcache(op[p].kind) THEN Current.gen + 1 ELSE Current.gen
           recs == IF newcache(op[p].kind) THEN Recache(keep, 0) ELSE keep
<1>1. index' = Append(index, ix) /\ dir' = [dir EXCEPT !.index = Len(index) + 1]
  BY DEF rename_index
<1>2. ix = [Current EXCEPT !.gen = gen, !.exists = Len(keep), !.deleted = @ - n, !.recs = recs]
  BY DEF NewIndex, Goes, Kept
<1> HIDE DEF n, gen, recs, keep, ix
<1>3. Current' = ix
  <2>1. index \in Seq(IndexFiles) /\ dir'.index = Len(index) + 1 BY <1>1 DEF FilesOK
  <2>2. index'[Len(index) + 1] = ix BY <1>1, <2>1
  <2> QED BY <2>1, <2>2 DEF Current
<1>4. Current \in IndexFiles BY CurrentType
<1>5. ix.exists = Len(keep) /\ ix.gen = gen /\ ix.recs = recs BY <1>2, <1>4 DEF IndexFiles
<1> QED BY <1>3, <1>5 DEF gen, recs, keep

LEMMA RenameIndexCached ==
  ASSUME Inv, Inv', CacheInv, NEW p \in Procs, rename_index(p)
  PROVE  CacheInv'
<1>0. OpsOK /\ FilesOK /\ FilesOK' BY DEF Inv, TypeInv
<1> DEFINE keep == Kept(op[p])
           left == Left(op[p])
           new == newcache(op[p].kind)
           pc == IF new THEN "rencache" ELSE "unlock"
           c == cache[dir.cache]
           g == dir.cache + 1
<1>1. /\ op[p].pc = "renindex" /\ Step(p, pc) /\ dir' = [dir EXCEPT !.index = Len(index) + 1]
      /\ cache' = IF new THEN [cache EXCEPT ![g] = CacheOf(keep \o left, dir.cache)] ELSE cache
      /\ UNCHANGED <<xfile, torn>>
  BY DEF rename_index, history, Goes, Kept, Left
<1>2. op[p].kind \in Expunges /\ Header(op[p]) /\ ~Late(op[p])
  BY <1>0, <1>1 DEF OpsOK, OpOK, Phase, Header, Lockless, Late, Expunges
<1>3. Steps(p) /\ op'[p].pc = pc /\ op'[p].kind = op[p].kind /\ op'[p].dels = op[p].dels
  <2>1. GoesOn(p, pc) BY <1>0, <1>1, StepGoesOn
  <2> QED BY <2>1 DEF GoesOn
<1>4. Gens BY <1>1, HolderOpen DEF OpenPcs
<1>5. Renames BY RenameIndexRenames
<1>6. /\ Current'.exists = Len(keep)
      /\ Current'.gen = IF new THEN Current.gen + 1 ELSE Current.gen
      /\ Current'.recs = IF new THEN Recache(keep, 0) ELSE keep
  BY <1>0, RenameIndexFile
<1>7. dir'.cache = dir.cache /\ dir.cache \in Inodes /\ dir.cache \in Nat /\ Current.gen = dir.cache
      /\ cache \in [Inodes -> Seq(Nat)]
  <2>1. dir'.cache = dir.cache /\ dir.cache \in Inodes BY <1>0, <1>1, CurrentType DEF FilesOK
  <2> QED BY <1>0, <1>4, <2>1 DEF Gens, Inodes, FilesOK
<1>8. keep \in Seq(Records) /\ \A i \in 1..Len(keep) : Good(keep[i], c, torn)
  <2>1. Live(Current) \in Seq(Records) BY <1>0, CurrentType
  <2>2. /\ keep \in Seq(Records)
        /\ \A i \in 1..Len(keep) : \E j \in 1..Len(Live(Current)) : keep[i] = Live(Current)[j]
    BY <2>1, KeepFrom DEF Kept
  <2> HIDE DEF keep
  <2> QED BY <1>0, <1>4, <2>2, LiveGood DEF CacheInv
<1>9. left \in Seq(Records) /\ \A i \in 1..Len(left) : Good(left[i], c, torn)
  <2> DEFINE k == Keep(Expunged, op[p].dels)
  <2>1. /\ Expunged \in Seq(Records) /\ Len(Expunged) = xfile.exists
        /\ \A i \in 1..xfile.exists : Expunged[i] = xfile.recs[i]
    BY <1>0, ExpungedType
  <2>2. k \in Seq(Records) /\ \A i \in 1..Len(k) : \E j \in 1..Len(Expunged) : k[i] = Expunged[j]
    BY <2>1, KeepFrom
  <2>3. \A i \in 1..xfile.exists : Good(xfile.recs[i], c, torn) BY <1>2, <1>4, HolderExpunge
  <2>4. <<>> \in Seq(Records) /\ 1..Len(<<>>) = {} OBVIOUS
  <2>5. left = k \/ left = <<>> BY DEF Left
  <2> HIDE DEF k, left
  <2> QED BY <2>1, <2>2, <2>3, <2>4, <2>5
<1>10. CASE ~new
  <2>1. Current'.exists = Len(keep) /\ Current'.gen = dir.cache /\ Current'.recs = keep /\ cache' = cache
    BY <1>1, <1>6, <1>7, <1>10
  <2>2. GensRise' /\ IndexGood'
    <3>1. \A i \in 1..Current'.exists : Good(Current'.recs[i], cache'[Current'.gen], torn')
      BY <1>1, <1>8, <2>1
    <3>2. Current.gen <= Current'.gen BY <1>7, <2>1
    <3> QED BY <1>0, <1>1, <1>5, <2>1, <3>1, <3>2, IndexRenamesGood DEF CacheInv
  <2>3. ExpungeGood' BY <1>1, <1>2, <1>4, <1>7, <2>1, HolderExpunge DEF ExpungeGood
  <2>4. CachedAt(op[p])' BY <1>3, <1>10, CachedOut DEF OpenPcs
  <2> QED BY <1>2, <1>3, <2>2, <2>3, <2>4, HolderCached
<1>11. CASE new
  <2> DEFINE all == keep \o left
             d == CacheOf(all, dir.cache)
  <2> HIDE DEF keep, left
  <2>1. /\ all \in Seq(Records) /\ Len(all) = Len(keep) + Len(left) /\ Len(keep) \in Nat
        /\ \A i \in 1..Len(keep) : i \in 1..Len(all) /\ all[i] = keep[i]
        /\ \A i \in 1..Len(left) : Len(keep) + i \in 1..Len(all) /\ all[Len(keep) + i] = left[i]
    BY <1>8, <1>9
  <2> HIDE DEF all
  <2>2. \A i \in 1..Len(keep) : keep[i].uid \in torn \/ (i \in DOMAIN d /\ d[i] = keep[i].mid)
    <3> SUFFICES ASSUME NEW i \in 1..Len(keep)
                 PROVE  keep[i].uid \in torn \/ (i \in DOMAIN d /\ d[i] = keep[i].mid)
      OBVIOUS
    <3>1. i \in 1..Len(all) /\ all[i] = keep[i] /\ Good(all[i], c, torn) BY <1>8, <2>1
    <3>2. all[i].uid \in torn \/ (i \in DOMAIN d /\ d[i] = all[i].mid) BY <2>1, <3>1, CacheOfGood
    <3> QED BY <3>1, <3>2
  <2>3. \A i \in 1..Len(left) :
          left[i].uid \in torn \/ (Len(keep) + i \in DOMAIN d /\ d[Len(keep) + i] = left[i].mid)
    <3> SUFFICES ASSUME NEW i \in 1..Len(left)
                 PROVE  \/ left[i].uid \in torn
                        \/ Len(keep) + i \in DOMAIN d /\ d[Len(keep) + i] = left[i].mid
      OBVIOUS
    <3> DEFINE j == Len(keep) + i
    <3>1. j \in 1..Len(all) /\ all[j] = left[i] /\ Good(all[j], c, torn) BY <1>9, <2>1
    <3> HIDE DEF j
    <3>2. all[j].uid \in torn \/ (j \in DOMAIN d /\ d[j] = all[j].mid) BY <2>1, <3>1, CacheOfGood
    <3> QED BY <3>1, <3>2 DEF j
  <2>4. /\ Current'.exists = Len(keep) /\ Current'.gen = g /\ Current'.recs = Recache(keep, 0)
        /\ cache' = [cache EXCEPT ![g] = d]
    BY <1>1, <1>6, <1>7, <1>11 DEF all
  <2> HIDE DEF d
  <2>5. g \in Inodes /\ g \in Nat
    <3>1. dir'.index \in 1..Len(index') /\ index'[dir'.index] = Current' BY <1>0 DEF FilesOK, Current
    <3>2. Current'.gen \in 1..dir'.index /\ Len(index') <= MaxInodes /\ Len(index') \in Nat
      BY <1>0, <3>1 DEF FilesOK
    <3>3. g \in 1..dir'.index BY <2>4, <3>2
    <3>4. MaxInodes \in Nat BY MailboxAssumption
    <3> HIDE DEF g
    <3> QED BY <3>1, <3>2, <3>3, <3>4 DEF Inodes
  <2>6. cache'[g] = d /\ \A h \in Inodes : h # g => cache'[h] = cache[h] BY <1>7, <2>4, <2>5
  <2>7. GensRise' /\ IndexGood'
    <3>1. Current.gen <= Current'.gen BY <1>7, <2>4
    <3>2. \A x \in 1..Len(index) : cache'[index[x].gen] = cache[index[x].gen]
      <4> SUFFICES ASSUME NEW x \in 1..Len(index) PROVE cache'[index[x].gen] = cache[index[x].gen]
        OBVIOUS
      <4>1. index[x].gen \in Inodes /\ index[x].gen \in Nat BY <1>0, GenType
      <4>2. index[x].gen <= dir.cache BY <1>7 DEF CacheInv, GensRise
      <4>3. index[x].gen # g BY <1>7, <4>1, <4>2
      <4> QED BY <2>6, <4>1, <4>3
    <3>3. ASSUME NEW i \in 1..Len(keep) PROVE Good(Current'.recs[i], d, torn)
      <4> DEFINE r == Recache(keep, 0)[i]
      <4>1. Same(r, keep[i]) BY <1>8, RecacheType
      <4>2. r.off = 0 + i BY <1>8, 0 \in Nat, RecacheOff
      <4>3. 0 + i = i OBVIOUS
      <4> HIDE DEF r
      <4>4. r.off = i /\ r.uid = keep[i].uid /\ r.mid = keep[i].mid BY <4>1, <4>2, <4>3 DEF Same
      <4>5. Good(r, d, torn) BY <2>2, <4>4 DEF Good
      <4> QED BY <2>4, <4>5 DEF r
    <3>4. \A i \in 1..Current'.exists : Good(Current'.recs[i], cache'[Current'.gen], torn')
      BY <1>1, <2>4, <2>6, <3>3
    <3> QED BY <1>0, <1>1, <1>5, <3>1, <3>2, <3>4, IndexRenamesGood DEF CacheInv
  <2>8. ExpungeGood'
    <3>1. Current'.gen # dir'.cache BY <1>7, <2>4
    <3>2. ~Gens' BY <3>1 DEF Gens
    <3> QED BY <3>2 DEF ExpungeGood
  <2>9. CachedAt(op[p])'
    <3>1. op'[p].pc = "rencache" BY <1>3, <1>11
    <3>2. OpenAt(op[p])' BY <3>1 DEF OpenAt, OpenPcs
    <3>3. AppendedAt(op[p])' BY <3>1 DEF AppendedAt
    <3>4. CleanedAt(op[p])'
      <4>1. Expunged' = Expunged BY <1>1 DEF Expunged
      <4>2. op[p].kind = "cleanup" => left = Keep(Expunged, op[p].dels) BY DEF left, Left
      <4> QED BY <1>1, <1>3, <2>3, <2>4, <2>6, <4>1, <4>2 DEF CleanedAt
    <3> QED BY <3>2, <3>3, <3>4 DEF CachedAt
  <2> QED BY <1>2, <1>3, <2>7, <2>8, <2>9, HolderCached
<1> QED BY <1>10, <1>11

\* While cyrus.cache has the old name of an immediate expunge there is nothing
\* in cyrus.expunge; a cleanup goes on to replace that.
LEMMA RenameCacheCached ==
  ASSUME ~Forced, Inv, CacheInv, NEW p \in Procs, rename_cache(p)
  PROVE  CacheInv'
<1>0. OpsOK /\ FilesOK BY DEF Inv, TypeInv
<1> DEFINE pc == IF op[p].kind = "cleanup" THEN "renexpunge" ELSE "unlock"
<1>1. /\ op[p].pc = "rencache" /\ Step(p, pc) /\ UNCHANGED <<index, cache, xfile>> /\ torn' = torn
      /\ dir' = [dir EXCEPT !.cache = Current.gen] \/ dir' = dir
  BY DEF rename_cache, history
<1>2. op[p].kind \in {"immediate", "cleanup"} /\ Header(op[p])
  BY <1>0, <1>1 DEF OpsOK, OpOK, Phase, Header, Lockless
<1>3. Steps(p) /\ op'[p].pc = pc /\ op'[p].kind = op[p].kind /\ op'[p].dels = op[p].dels
  <2>1. GoesOn(p, pc) BY <1>0, <1>1, StepGoesOn
  <2> QED BY <2>1 DEF GoesOn
<1>4. Current' = Current
  <2>1. dir'.index = dir.index BY <1>0, <1>1 DEF FilesOK
  <2> QED BY <1>1, <2>1 DEF Current
<1>5. GensRise' BY <1>1, <1>4 DEF CacheInv, GensRise
<1>6. IndexGood' BY <1>1 DEF CacheInv, IndexGood
<1>7. CASE op[p].kind = "immediate"
  <2>1. ~xfile.there BY <1>2, <1>7 DEF Inv, FileInv, Doomed, DoomedAt
  <2>2. xfile'.exists = 0 BY <1>0, <1>1, <2>1 DEF FilesOK
  <2>3. 1..0 = {} OBVIOUS
  <2>4. ExpungeGood' BY <2>2, <2>3 DEF ExpungeGood
  <2>5. CachedAt(op[p])' BY <1>3, <1>7, CachedOut DEF OpenPcs
  <2> QED BY <1>2, <1>3, <1>5, <1>6, <2>4, <2>5, HolderCached
<1>8. CASE op[p].kind = "cleanup"
  <2>1. Late(op'[p]) BY <1>3, <1>8 DEF Late
  <2>2. ExpungeGood' BY <2>1 DEF ExpungeGood, Late
  <2>3. CleanedAt(op[p])'
    <3>1. CleanedAt(op[p]) BY DEF CacheInv, CachedAt
    <3>2. Expunged' = Expunged BY <1>1 DEF Expunged
    <3> QED BY <1>1, <1>3, <1>4, <1>8, <3>1, <3>2 DEF CleanedAt
  <2>4. OpenAt(op[p])' /\ AppendedAt(op[p])' BY <1>3, <1>8 DEF OpenAt, AppendedAt, OpenPcs
  <2>5. CachedAt(op[p])' BY <2>3, <2>4 DEF CachedAt
  <2> QED BY <1>2, <1>3, <1>5, <1>6, <2>2, <2>5, HolderCached
<1> QED BY <1>2, <1>7, <1>8

LEMMA RenameExpungeCached ==
  ASSUME Inv, CacheInv, NEW p \in Procs, rename_expunge(p)
  PROVE  CacheInv'
<1>0. OpsOK /\ FilesOK BY DEF Inv, TypeInv
<1> DEFINE keep == Keep(Expunged, op[p].dels)
           e == Current.exists
           c == cache[dir.cache]
<1>1. /\ op[p].pc = "renexpunge" /\ op[p].kind = "cleanup" /\ Step(p, "unlock")
      /\ xfile' = IF keep = <<>> THEN NoExpunge
                  ELSE [there |-> TRUE, exists |-> Len(keep), recs |-> Recache(keep, e)]
      /\ UNCHANGED <<index, cache, dir, torn>>
  BY DEF rename_expunge, Has, history
<1>2. Header(op[p]) BY <1>1 DEF Header, Lockless
<1>3. Steps(p) /\ op'[p].pc = "unlock" BY <1>0, <1>1, StepGoesOn DEF GoesOn
<1>4. keep \in Seq(Records) /\ e \in Nat BY <1>0, CurrentType, ExpungedType, KeepPicks
<1>5. CleanedAt(op[p]) BY DEF CacheInv, CachedAt
<1>6. ASSUME Gens, NEW i \in 1..Len(keep)
      PROVE  keep[i].uid \in torn \/ (e + i \in DOMAIN c /\ c[e + i] = keep[i].mid)
  BY <1>1, <1>5, <1>6 DEF CleanedAt, Gens
<1>7. GensRise' BY <1>1 DEF CacheInv, GensRise, Current
<1>8. IndexGood' BY <1>1 DEF CacheInv, IndexGood
<1>9. ExpungeGood'
  <2> SUFFICES ASSUME Gens', NEW i \in 1..xfile'.exists PROVE Good(xfile'.recs[i], c, torn)
    BY <1>1 DEF ExpungeGood
  <2>1. Gens BY <1>1 DEF Gens, Current
  <2> HIDE DEF keep, e, c
  <2>2. keep # <<>> /\ xfile' = [there |-> TRUE, exists |-> Len(keep), recs |-> Recache(keep, e)]
    <3>1. 1..0 = {} OBVIOUS
    <3> QED BY <1>1, <3>1 DEF NoExpunge
  <2> DEFINE r == Recache(keep, e)[i]
  <2>3. i \in 1..Len(keep) /\ xfile'.recs[i] = r BY <2>2
  <2>4. Same(r, keep[i]) /\ r.off = e + i BY <1>4, <2>3, RecacheType, RecacheOff
  <2> HIDE DEF r
  <2>5. keep[i].uid \in torn \/ (e + i \in DOMAIN c /\ c[e + i] = keep[i].mid) BY <1>6, <2>1, <2>3
  <2> QED BY <2>3, <2>4, <2>5 DEF Good, Same
<1>10. CachedAt(op[p])' BY <1>3, CachedOut DEF OpenPcs
<1> QED BY <1>2, <1>3, <1>7, <1>8, <1>9, <1>10, HolderCached

LEMMA RestoreExpungeCached ==
  ASSUME Inv, CacheInv, NEW p \in Procs, restore_expunge(p)
  PROVE  CacheInv'
<1>0. OpsOK /\ FilesOK BY DEF Inv, TypeInv
<1> DEFINE keep == Keep(Expunged, op[p].dels)
           d == Drop(Expunged, op[p].dels)
<1>1. /\ op[p].pc = "renexpunge" /\ op[p].kind = "unexpunge"
      /\ xfile' = [there |-> TRUE, exists |-> Len(keep), recs |-> keep]
      /\ op' = [op EXCEPT ![p].pc = "addquota", ![p].n = Len(d)]
      /\ UNCHANGED <<index, cache, dir, torn>>
  BY DEF restore_expunge, Has, history
<1>2. Header(op[p]) /\ ~Late(op[p]) BY <1>1 DEF Header, Lockless, Late
<1>3. Gens BY <1>1 DEF CacheInv, CachedAt, OpenAt
<1>4. /\ Expunged \in Seq(Records) /\ Len(Expunged) = xfile.exists
      /\ \A i \in 1..xfile.exists : Expunged[i] = xfile.recs[i]
  BY <1>0, ExpungedType
<1>5. \A i \in 1..Len(keep) : \E j \in 1..Len(Expunged) : keep[i] = Expunged[j]
  BY <1>4, KeepFrom
<1>6. \A i \in 1..xfile.exists : Good(xfile.recs[i], cache[dir.cache], torn)
  BY <1>2, <1>3, HolderExpunge
<1> HIDE DEF keep, d
<1>7. Steps(p) /\ op'[p].pc = "addquota" BY <1>0, <1>1 DEF OpsOK, OpOK, Steps, Fields
<1>8. GensRise' BY <1>1 DEF CacheInv, GensRise, Current
<1>9. IndexGood' BY <1>1 DEF CacheInv, IndexGood
<1>10. ExpungeGood'
  <2>1. \A i \in 1..Len(keep) : Good(keep[i], cache[dir.cache], torn) BY <1>4, <1>5, <1>6
  <2> QED BY <1>1, <2>1 DEF ExpungeGood
<1>11. CachedAt(op[p])' BY <1>7, CachedOut DEF OpenPcs
<1> QED BY <1>2, <1>7, <1>8, <1>9, <1>10, <1>11, HolderCached

\* The records that unexpunge merges keep their offsets.
LEMMA RestoreIndexCached ==
  ASSUME Inv, Inv', CacheInv, NEW p \in Procs, restore_index(p)
  PROVE  CacheInv'
<1>0. OpsOK /\ FilesOK /\ FilesOK' BY DEF Inv, TypeInv
<1> DEFINE Back(D, unset) == [i \in DOMAIN Drop(Expunged, D) |->
                                [Drop(Expunged, D)[i] EXCEPT !.del = @ /\ ~unset]]
           New(D, unset) == [Current EXCEPT
                !.uidvalidity = @ + 1,
                !.exists = Len(Merged(Live(Current), Back(D, unset))),
                !.deleted = @ + Cardinality({i \in DOMAIN Back(D, unset) : Back(D, unset)[i].del}),
                !.recs = Merged(Live(Current), Back(D, unset))]
<1>1. /\ op[p].pc = "restore" /\ op[p].kind = "unexpunge"
      /\ dir' = [dir EXCEPT !.index = Len(index) + 1]
      /\ UNCHANGED <<cache, xfile, torn>>
  BY DEF restore_index, Has, history
<1>2. PICK D \in SUBSET UidSet(Expunged) \ {{}}, unset \in BOOLEAN :
        /\ index' = Append(index, New(D, unset))
        /\ op' = [op EXCEPT ![p].dels = D, ![p].pc = "renexpunge"]
  BY DEF restore_index
<1> DEFINE d == Drop(Expunged, D)
           back == Back(D, unset)
           live == Live(Current)
           recs == Merged(live, back)
           ix == New(D, unset)
           c == cache[dir.cache]
<1>3. Header(op[p]) /\ ~Late(op[p]) BY <1>1 DEF Header, Lockless, Late
<1>4. Steps(p) /\ op'[p].pc = "renexpunge" /\ op'[p].kind = "unexpunge"
  <2>1. op' = [op EXCEPT ![p].dels = D, ![p].pc = "renexpunge"] BY <1>2
  <2> HIDE <1>2
  <2> QED BY <1>0, <1>1, <2>1 DEF OpsOK, OpOK, Steps, Fields
<1>5. Gens BY <1>1, HolderOpen DEF OpenPcs
<1>6. Renames BY RestoreIndexRenames
<1>7. /\ Current \in IndexFiles /\ live \in Seq(Records) /\ Len(live) = Current.exists
      /\ Current.exists \in Nat /\ Current.gen \in 1..dir.index /\ dir.cache \in Inodes
      /\ Expunged \in Seq(Records) /\ Len(Expunged) = xfile.exists
      /\ \A i \in 1..xfile.exists : Expunged[i] = xfile.recs[i]
  BY <1>0, CurrentType, ExpungedType
<1>8. d \in Seq(Records) /\ \A i \in 1..Len(d) : \E j \in 1..Len(Expunged) : d[i] = Expunged[j]
  BY <1>7, DropFrom
<1>9. \A i \in 1..Len(d) : Good(d[i], c, torn)
  <2>1. \A i \in 1..xfile.exists : Good(xfile.recs[i], c, torn) BY <1>3, <1>5, HolderExpunge
  <2> HIDE DEF d
  <2> QED BY <1>7, <1>8, <2>1
<1>10. back \in Seq(Records) /\ Len(back) = Len(d) /\ \A i \in 1..Len(d) : Good(back[i], c, torn)
  <2> HIDE DEF d
  <2>1. back = [i \in DOMAIN d |-> [d[i] EXCEPT !.del = @ /\ ~unset]] BY DEF d
  <2> HIDE DEF Back
  <2>2. DOMAIN d = 1..Len(d) /\ Len(d) \in Nat /\ \A i \in 1..Len(d) : d[i] \in Records BY <1>8
  <2>3. ASSUME NEW i \in 1..Len(d) PROVE back[i] \in Records /\ Good(back[i], c, torn)
    <3>1. d[i] \in Records /\ (d[i].del /\ ~unset) \in BOOLEAN BY <2>2
    <3>2. back[i] = [d[i] EXCEPT !.del = d[i].del /\ ~unset] BY <2>1, <2>2
    <3>3. /\ back[i] \in Records /\ back[i].uid = d[i].uid /\ back[i].mid = d[i].mid
          /\ back[i].off = d[i].off
      BY <3>1, <3>2 DEF Records
    <3>4. Good(d[i], c, torn) BY <1>9
    <3> HIDE DEF c
    <3> QED BY ONLY <3>3, <3>4, GoodSame
  <2>4. back \in [1..Len(d) -> Records] BY <2>1, <2>2, <2>3
  <2> HIDE DEF back
  <2>5. back \in Seq(Records) /\ Len(back) = Len(d) BY <2>2, <2>4
  <2> QED BY <2>3, <2>5
<1>11. \A i \in 1..Len(live) : Good(live[i], c, torn) BY <1>0, <1>5, LiveGood DEF CacheInv
<1>12. ix = [Current EXCEPT !.uidvalidity = @ + 1, !.exists = Len(recs),
               !.deleted = @ + Cardinality({i \in DOMAIN back : back[i].del}), !.recs = recs]
  OBVIOUS
<1>13. index' = Append(index, ix) BY <1>2
<1> HIDE <1>2 DEF New, ix, Back, back, d
<1>14. recs \in Seq(Records) /\ \E f : Shuffles(f, live, back, recs) BY <1>7, <1>10, MergedShuffles
<1> HIDE DEF recs, live
<1>15. PICK f : Shuffles(f, live, back, recs) BY <1>14
<1>16. ASSUME NEW i \in 1..Len(recs) PROVE Good(recs[i], c, torn)
  <2>1. /\ f[i] \in 1..Len(live) + Len(back) /\ recs[i] = (live \o back)[f[i]]
    BY <1>15 DEF Shuffles
  <2>2. CASE f[i] <= Len(live)
    <3>1. f[i] \in 1..Len(live) BY <1>7, <1>10, <2>1, <2>2
    <3>2. (live \o back)[f[i]] = live[f[i]] BY <1>7, <1>10, <3>1
    <3> QED BY <1>11, <2>1, <3>1, <3>2
  <2>3. CASE ~(f[i] <= Len(live))
    <3> DEFINE k == f[i] - Len(live)
    <3>1. k \in 1..Len(back) BY <1>7, <1>10, <2>1, <2>3
    <3>2. (live \o back)[f[i]] = back[k] BY <1>7, <1>10, <2>1, <2>3
    <3> HIDE DEF k
    <3> QED BY <1>10, <2>1, <3>1, <3>2
  <2> QED BY <2>2, <2>3
<1>17. Current' = ix
  <2>1. index \in Seq(IndexFiles) /\ dir'.index = Len(index) + 1 BY <1>0, <1>1 DEF FilesOK
  <2>2. index'[Len(index) + 1] = ix BY <1>13, <2>1
  <2> QED BY <2>1, <2>2 DEF Current
<1>18. ix.exists = Len(recs) /\ ix.recs = recs /\ ix.gen = Current.gen BY <1>7, <1>12 DEF IndexFiles
<1>19. dir'.cache = dir.cache /\ Current.gen = dir.cache BY <1>0, <1>1, <1>5 DEF FilesOK, Gens
<1>20. GensRise' /\ IndexGood'
  <2>1. Current.gen <= Current'.gen BY <1>7, <1>17, <1>18
  <2>2. \A i \in 1..Current'.exists : Good(Current'.recs[i], cache'[Current'.gen], torn')
    BY <1>1, <1>16, <1>17, <1>18, <1>19
  <2>3. GensRise /\ IndexGood /\ torn \subseteq torn' BY <1>1 DEF CacheInv
  <2>4. \A x \in 1..Len(index) : cache'[index[x].gen] = cache[index[x].gen] BY <1>1
  <2> QED BY <1>0, <1>6, <2>1, <2>2, <2>3, <2>4, IndexRenamesGood
<1>21. ExpungeGood' BY <1>1, <1>3, <1>5, <1>19, HolderExpunge DEF ExpungeGood
<1>22. CachedAt(op[p])'
  <2>1. Gens' BY <1>17, <1>18, <1>19 DEF Gens
  <2> QED BY <1>4, <2>1 DEF CachedAt, OpenAt, AppendedAt, CleanedAt
<1> QED BY <1>3, <1>4, <1>20, <1>21, <1>22, HolderCached

\* A step that leaves the files alone and does not lead under the index lock.
LEMMA AsideCached ==
  ASSUME Inv, CacheInv, UNCHANGED <<index, cache, dir, xfile>>, torn' = torn, NEW p \in Procs, Steps(p),
         ~Late(op[p]), op'[p].pc \notin OpenPcs \cup {"rencache", "renexpunge"}
  PROVE  CacheInv'
BY CachedOut, StillCached

LEMMA AfterExpungePc ==
  ASSUME NEW p
  PROVE  AfterExpunge(p).pc \in {"idle", "open"}
BY CheckOK, IdleOK DEF AfterExpunge

LEMMA UnlockCached ==
  ASSUME Inv, CacheInv, NEW p \in Procs, unlock(p) \/ unlink_messages(p)
  PROVE  CacheInv'
<1>0. OpsOK /\ OpOK(op[p]) BY DEF Inv, TypeInv, OpsOK
<1>1. UNCHANGED <<index, cache, dir, xfile>> /\ torn' = torn /\ op[p].pc \in {"unlock", "unlink"}
  BY DEF unlock, unlink_messages, mail, history
<1>2. ~Late(op[p]) BY <1>1 DEF Late
<1>3. CASE op' = [op EXCEPT ![p] = AfterExpunge(p)]
  <2>1. Steps(p) /\ op'[p] = AfterExpunge(p) BY <1>0, <1>3 DEF OpsOK, Steps
  <2> QED BY <1>1, <1>2, <2>1, AfterExpungePc, AsideCached DEF OpenPcs
<1>4. CASE op' = [op EXCEPT ![p].pc = "unlink"]
  <2>1. Steps(p) /\ op'[p].pc = "unlink" BY <1>0, <1>4 DEF OpsOK, OpOK, Steps, Fields
  <2> QED BY <1>1, <1>2, <2>1, AsideCached DEF OpenPcs
<1>5. ASSUME NEW D, op' = [op EXCEPT ![p].dels = D], op[p].pc = "unlink" PROVE CacheInv'
  <2>1. Steps(p) /\ op'[p].pc = "unlink" BY <1>0, <1>5 DEF OpsOK, OpOK, Steps, Fields
  <2> QED BY <1>1, <1>2, <2>1, AsideCached DEF OpenPcs
<1>6. CASE unlock(p)
  <2>1. \/ op' = [op EXCEPT ![p] = AfterExpunge(p)]
        \/ op' = [op EXCEPT ![p].pc = "unlink"]
    BY <1>6 DEF unlock
  <2> QED BY <1>3, <1>4, <2>1
<1>7. CASE unlink_messages(p)
  <2>1. CASE op' = [op EXCEPT ![p] = AfterExpunge(p)] BY <1>3, <2>1
  <2>2. CASE op' # [op EXCEPT ![p] = AfterExpunge(p)]
    <3>1. \E u \in op[p].dels : op' = [op EXCEPT ![p].dels = op[p].dels \ {u}]
      BY <1>7, <2>2 DEF unlink_messages
    <3>2. PICK D : op' = [op EXCEPT ![p].dels = D] BY <3>1
    <3> QED BY <1>5, <1>7, <3>2 DEF unlink_messages
  <2> QED BY <2>1, <2>2
<1> QED BY <1>6, <1>7

LEMMA LockHeaderCached ==
  ASSUME Inv, CacheInv, NEW p \in Procs, NEW kind, mailbox_lock_header(p, kind)
  PROVE  CacheInv'
<1>0. OpsOK BY DEF Inv, TypeInv
<1>1. UNCHANGED <<index, cache, dir, xfile>> /\ torn' = torn /\ op[p] = Idle
      /\ \E f : op' = [op EXCEPT ![p] = [Idle EXCEPT !.pc = "lockindex", !.kind = kind, !.fd = f]]
  BY DEF mailbox_lock_header, mail, history
<1>2. PICK f : op' = [op EXCEPT ![p] = [Idle EXCEPT !.pc = "lockindex", !.kind = kind, !.fd = f]]
  BY <1>1
<1>3. Steps(p) /\ op'[p].pc = "lockindex" BY <1>0, <1>2 DEF OpsOK, Steps, Idle
<1>4. ~Late(op[p]) BY <1>1, IdleOK DEF Late
<1> QED BY <1>1, <1>3, <1>4, AsideCached DEF OpenPcs

\* The steps that end an operation under the header lock.
LEMMA EndsCached ==
  ASSUME Inv, CacheInv, NEW p \in Procs, append_quota(p) \/ poplocked(p) \/ restore_quota(p)
  PROVE  CacheInv'
<1>1. /\ UNCHANGED <<index, cache, dir, xfile>> /\ torn' = torn /\ Release(p)
      /\ op[p].pc \in {"commitquota", "records", "addquota"}
  BY DEF append_quota, poplocked, restore_quota, mail, history, Has
<1>2. ~Late(op[p]) BY <1>1 DEF Late
<1> QED BY <1>1, <1>2, ReleasedCached

LEMMA SessionCached ==
  ASSUME Inv, CacheInv, NEW p \in Users,
         \/ index_newmailbox(p) \/ index_check_replaced(p) \/ index_opened(p) \/ index_check(p)
         \/ index_store(p) \/ index_closemailbox(p)
  PROVE  CacheInv'
<1>0. p \in Procs /\ OpsOK /\ OpOK(op[p]) BY DEF Procs, Inv, TypeInv, OpsOK
<1>1. UNCHANGED <<index, cache, dir, xfile>> /\ torn' = torn /\ op[p].pc \in {"idle", "open"}
  BY IdleOK DEF index_newmailbox, index_check_replaced, index_opened, index_check, index_store,
     index_closemailbox, mail, history
<1>2. ~Late(op[p]) BY <1>1 DEF Late
<1> DEFINE Aside == Steps(p) /\ op'[p].pc \in {"idle", "open", "lockindex"}
<1>3. ASSUME index_newmailbox(p) PROVE Aside
  <2>1. op' = [op EXCEPT ![p] = [Idle EXCEPT !.pc = "open", !.kind = "select", !.fd = dir.index]]
    BY <1>3 DEF index_newmailbox
  <2> QED BY <1>0, <2>1 DEF OpsOK, Steps, Idle
<1>4. ASSUME index_check_replaced(p) PROVE Aside
  <2>1. op' = [op EXCEPT ![p] = Check] BY <1>4 DEF index_check_replaced
  <2> QED BY <1>0, <2>1, CheckOK DEF OpsOK, Steps
<1>5. ASSUME index_opened(p) PROVE Aside
  <2>1. \/ op' = [op EXCEPT ![p] = Idle]
        \/ op[p].pc = "open" /\ op' = [op EXCEPT ![p].fd = dir.index]
    BY <1>5 DEF index_opened
  <2>2. CASE op' = [op EXCEPT ![p] = Idle] BY <1>0, <2>2, IdleOK DEF OpsOK, Steps
  <2>3. CASE op[p].pc = "open" /\ op' = [op EXCEPT ![p].fd = dir.index]
    BY <1>0, <2>3 DEF OpsOK, OpOK, Steps, Fields
  <2> QED BY <2>1, <2>2, <2>3
<1>6. ASSUME index_check(p) \/ index_closemailbox(p) PROVE Aside
  <2>1. op' = op BY <1>6 DEF index_check, index_closemailbox
  <2> QED BY <1>0, <1>1, <2>1 DEF OpsOK, Steps
<1>7. ASSUME index_store(p) PROVE Aside
  <2>1. PICK n \in DOMAIN view[p].uids, flag \in BOOLEAN, usinguid \in BOOLEAN :
          op' = [op EXCEPT ![p] = [Idle EXCEPT !.pc = "lockindex", !.kind = "store",
                   !.fd = view[p].mfd, !.msgno = n, !.flag = flag, !.usinguid = usinguid]]
    BY <1>7 DEF index_store
  <2> QED BY <1>0, <2>1 DEF OpsOK, Steps, Idle
<1>8. Aside BY <1>3, <1>4, <1>5, <1>6, <1>7
<1> QED BY <1>0, <1>1, <1>2, <1>8, AsideCached DEF OpenPcs

LEMMA StutterCached ==
  ASSUME CacheInv, UNCHANGED vars
  PROVE  CacheInv'
<1>1. UNCHANGED <<index, cache, dir, xfile>> /\ torn' = torn /\ op' = op BY DEF vars, mail, history
<1>2. GensRise' BY <1>1 DEF CacheInv, GensRise, Current
<1>3. IndexGood' BY <1>1 DEF CacheInv, IndexGood
<1>4. ExpungeGood' BY <1>1 DEF CacheInv, ExpungeGood, Gens, Current
<1>5. ASSUME NEW q \in Procs PROVE CachedAt(op[q])' BY <1>1, CachedStays DEF CacheInv
<1> QED BY <1>2, <1>3, <1>4, <1>5 DEF CacheInv

LEMMA NextCached ==
  ASSUME ~Forced, Inv, Inv', CacheInv, [Next]_vars
  PROVE  CacheInv'
<1>1. CASE UNCHANGED vars BY <1>1, StutterCached
<1>2. CASE \E p \in Procs : Locking(p) \/ Kill(p)
  BY <1>2, LockHeaderCached, LockIndexCached, KillCached DEF Locking
<1>3. CASE \E p \in Deliverers : Appending(p)
  <2>1. PICK p \in Deliverers : Appending(p) BY <1>3
  <2>2. p \in Procs BY DEF Procs
  <2> QED BY <2>1, <2>2, AppendMessageCached, AppendCommitCached, EndsCached, AppendAbortCached
          DEF Appending
<1>4. CASE \E p \in Users \cup Keepers : Expunging(p)
  <2>1. PICK p \in Users \cup Keepers : Expunging(p) BY <1>4
  <2>2. p \in Procs BY DEF Procs
  <2> QED BY <2>1, <2>2, ProcessRecordsCached, EndsCached, ReleaseQuotaCached, ExpungeHeaderCached,
             RenameIndexCached, RenameCacheCached, RenameExpungeCached, UnlockCached,
             ExpungeFailsCached
          DEF Expunging
<1>5. CASE \E p \in Keepers : Restoring(p)
  <2>1. PICK p \in Keepers : Restoring(p) BY <1>5
  <2>2. p \in Procs BY DEF Procs
  <2> QED BY <2>1, <2>2, RestoreIndexCached, RestoreExpungeCached, EndsCached, KillCached
          DEF Restoring
<1>6. CASE \E p \in Users : Session(p)
  <2>1. PICK p \in Users : Session(p) BY <1>6
  <2>2. p \in Procs BY DEF Procs
  <2>3. CASE index_storeflag(p) BY <2>2, <2>3, StoreFlagCached
  <2>4. CASE ~index_storeflag(p) BY <2>1, <2>4, SessionCached DEF Session
  <2> QED BY <2>3, <2>4
<1>7. CASE Rest BY <1>7, StutterCached DEF Rest
<1> QED BY <1>1, <1>2, <1>3, <1>4, <1>5, <1>6, <1>7 DEF Next

LEMMA CacheInit == Init => CacheInv
<1> SUFFICES ASSUME Init PROVE CacheInv OBVIOUS
<1> DEFINE ix == [gen |-> 1, uidvalidity |-> 1, exists |-> 0, last_uid |-> 0, deleted |-> 0,
                  recs |-> <<>>]
<1>1. /\ index = <<ix>> /\ dir = [index |-> 1, cache |-> 1] /\ xfile = NoExpunge
      /\ op = [p \in Procs |-> Idle]
  BY DEF Init
<1>2. ix.exists = 0 /\ ix.gen = 1 /\ 1..ix.exists = {} OBVIOUS
<1> HIDE DEF ix
<1>3. 1..Len(index) = {1} /\ index[1] = ix /\ Current = ix BY <1>1 DEF Current
<1>4. GensRise BY <1>2, <1>3 DEF GensRise
<1>5. IndexGood BY <1>2, <1>3 DEF IndexGood
<1>6. 1..xfile.exists = {} BY <1>1 DEF NoExpunge
<1>7. ExpungeGood BY <1>6 DEF ExpungeGood
<1>8. \A p \in Procs : CachedAt(op[p])
  BY <1>1, IdleOK DEF CachedAt, OpenAt, AppendedAt, CleanedAt, OpenPcs
<1> QED BY <1>4, <1>5, <1>7, <1>8 DEF CacheInv

LEMMA CacheHolds == ~Forced => (Spec => []CacheInv)
<1> SUFFICES ASSUME ~Forced PROVE Spec => []CacheInv OBVIOUS
<1>1. Init => CacheInv BY CacheInit
<1>2. Inv /\ Inv' /\ CacheInv /\ [Next]_vars => CacheInv' BY NextCached
<1> QED BY <1>1, <1>2, InvHolds, PTL DEF Spec

\* Unless EXPUNGE_FORCE is used while cyrus.expunge has records: the index and
\* the cache that a session opened one after the other without a lock belong
\* together, also when both have been replaced since, and what cyrus.expunge
\* keeps follows the cache when that is written again, but for messages whose
\* expunge or restore was cut between two files.
THEOREM CachesMatch == ~Forced => (Spec => []CacheOffsets)
<1> SUFFICES ASSUME ~Forced PROVE Spec => []CacheOffsets OBVIOUS
<1>1. Sessions /\ Inv /\ CacheInv => CacheOffsets
  <2> SUFFICES ASSUME Sessions, Inv, CacheInv PROVE CacheOffsets OBVIOUS
  <2>1. ASSUME NEW p \in Users, NEW i \in DOMAIN view[p].uids
        PROVE  Good(index[view[p].ino].recs[i], cache[view[p].gen], torn)
    <3>1. view[p] # Closed
      <4>1. DOMAIN <<>> = {} OBVIOUS
      <4> QED BY <2>1, <4>1 DEF Closed
    <3>2. HasRead(view[p]) /\ view[p].uids \in Seq(Nat) BY <3>1 DEF Sessions, SessionOK, Views
    <3> DEFINE x == view[p].ino
               uids == view[p].uids
               e == index[x].exists
    <3>3. x \in 1..Len(index) /\ view[p].gen = index[x].gen /\ Len(uids) <= e BY <3>2 DEF HasRead
    <3>4. e \in Nat
      <4>1. FilesOK BY DEF Inv, TypeInv
      <4> QED BY <3>3, <4>1, AllFiles, FileType
    <3>5. i \in 1..Len(uids) /\ Len(uids) \in Nat BY <2>1, <3>2
    <3>6. i \in 1..e
      <4> DEFINE n == Len(uids)
      <4> HIDE DEF n, e
      <4>1. i \in 1..n /\ n \in Nat /\ n <= e /\ e \in Nat BY <3>3, <3>4, <3>5 DEF n
      <4> QED BY <4>1
    <3> QED BY <3>3, <3>6 DEF CacheInv, IndexGood
  <2>2. ASSUME Gens, \A p \in Procs : op[p].pc # "renexpunge", NEW i \in 1..xfile.exists
        PROVE  Good(xfile.recs[i], cache[dir.cache], torn)
    <3>1. \A p \in Procs : ~Late(op[p]) BY <2>2 DEF Late
    <3> QED BY <2>2, <3>1 DEF CacheInv, ExpungeGood
  <2> QED BY <2>1, <2>2 DEF CacheOffsets, Good
<1>2. Inv /\ (FileHistory /\ Sessions) /\ CacheInv => CacheOffsets BY <1>1
<1> QED BY <1>2, InvHolds, ViewHolds, CacheHolds, PTL
=============================================================================
