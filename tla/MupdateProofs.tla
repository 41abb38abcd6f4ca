---------------------------- MODULE MupdateProofs ----------------------------
(***************************************************************************)
(* Proofs about the MUPDATE servers, for a chain of any length, any names, *)
(* changes, kicks, lost connections and crashes: the types of the state,   *)
(* that no change is lost between two servers (Streamed), and that who was *)
(* told "ok" finds a list not older than the kick (KickFresh).  The last   *)
(* two need what the standard configuration gives: the database is in the  *)
(* order of strcmp.                                                        *)
(***************************************************************************)
EXTENDS Mupdate, FiniteSetTheorems, FunctionTheorems, WellFoundedInduction, TLAPS

-----------------------------------------------------------------------------
(* The inductive invariant.                                                *)

(* The types of the state.                                                 *)
Entries == [t : {"none", "RESERVE", "MAILBOX"}, v : 0..MaxOps]
Lists == [Names -> Entries]
Lines == [t : {"none", "RESERVE", "MAILBOX"}, n : Names, e : Entries]
Signs == {OK, BYE}
Messages == Lines \cup Signs
Kicks == Kickers \cup Slaves
Clients == [pc : {"down", "sync", "synced", "ready", "listen", "scarf"}, buf : Seq(Messages),
            waiting_for_noop : BOOLEAN, kset : BOOLEAN, held : SUBSET Kicks]
Threads == [pc : {"none", "idle", "docmd", "noop", "kick", "noop2", "event"}, streaming : BOOLEAN,
            plist : SUBSET Names, todo : SUBSET Names]
Types ==
  /\ db \in [Nodes -> Lists] /\ ready \in [Nodes -> BOOLEAN]
  /\ cl \in [Slaves -> Clients] /\ srv \in [Slaves -> Threads]
  /\ up \in [Slaves -> Seq({"UPDATE", "NOOP"})] /\ down \in [Slaves -> Seq(Messages)]
  /\ alive \in [Slaves -> BOOLEAN]
  /\ kick \in [Kicks -> {"idle", "wait", "held", "ok", "failed"}]
  /\ ops \in 0..MaxOps /\ faults \in Nat
  /\ had \in [Kickers -> [Names -> SUBSET Entries]] /\ fresh \in [Kickers -> BOOLEAN]
  /\ doubt \in BOOLEAN /\ missed \subseteq Slaves

(* A connection at its server: a thread and queues only with a stream,     *)
(* and before the stream nothing but UPDATE on the way.                    *)
Asks(i) == \/ up[i] = <<>> /\ cl[i].pc \in {"sync", "down"} /\ ~alive[i]
           \/ up[i] = <<"UPDATE">> /\ cl[i].pc = "sync" /\ alive[i]
ServerOK(i) ==
  /\ srv[i].pc = "none" => srv[i] = NoConn
  /\ srv[i].todo # {} => srv[i].pc \in {"noop", "noop2", "event"}
  /\ srv[i].plist \cup srv[i].todo # {} => srv[i].streaming
  /\ srv[i].streaming => \A j \in 1..Len(up[i]) : up[i][j] # "UPDATE"
  /\ srv[i].pc # "none" /\ ~srv[i].streaming => srv[i].pc = "idle" /\ down[i] = <<>> /\ Asks(i)

(* The client thread.                                                      *)
ClientOK(i) ==
  /\ cl[i].pc = "down" => ~alive[i]
  /\ cl[i].pc \in {"down", "sync"} => cl[i].buf = <<>>
  /\ \A k \in cl[i].held : Home(k) = i /\ kick[k] = "held"
  /\ srv[i].pc # "kick" => kick[i] = "idle"

TypeInv == Types /\ \A i \in Slaves : ServerOK(i) /\ ClientOK(i)

(* While the list is copied: what came before the first OK or BYE is in    *)
(* the order of the database, and has no mailbox that is not there.        *)
Plain(s, j) == \A k \in 1..j : s[k] \notin Signs
CopyOK(i) ==
  cl[i].pc = "sync" =>
    /\ \A j \in 1..Len(down[i]) : Plain(down[i], j) =>
         /\ down[i][j].e # None
         /\ \A k \in 1..j - 1 : Place(Order, down[i][k].n) < Place(Order, down[i][j].n)
    /\ alive[i] /\ srv[i].streaming => Ends(down[i]) # {}

StreamInv == TypeInv /\ Streamed /\ \A i \in Slaves : CopyOK(i)

-----------------------------------------------------------------------------
(* Names and lists in the order of the database.                           *)

LEMMA NamesFacts ==
  /\ Order \in Seq(Names)
  /\ \A n \in Names : Place(Order, n) \in 1..Len(Order) /\ Order[Place(Order, n)] = n
  /\ \A n, m \in Names : Place(Order, n) = Place(Order, m) => n = m
<1> DEFINE S == STRING \ {""}
<1>1. Order \in Seq(S) BY OrderAssumption
<1> HIDE DEF S
<1>2. DOMAIN Order = 1..Len(Order) /\ Len(Order) \in Nat /\ \A j \in 1..Len(Order) : Order[j] \in S BY <1>1
<1>3. Names = {Order[j] : j \in 1..Len(Order)} BY <1>2 DEF Names, Range
<1>4. Order \in Seq(Names) BY <1>1, <1>2, <1>3
<1>7. ASSUME NEW n \in Names PROVE Place(Order, n) \in 1..Len(Order) /\ Order[Place(Order, n)] = n
  <2>1. \E j \in 1..Len(Order) : Order[j] = n BY <1>3
  <2> QED BY <2>1 DEF Place
<1> QED BY <1>4, <1>7

LEMMA NoName == "" \notin Names
<1> DEFINE S == STRING \ {""}
<1>1. Order \in Seq(S) BY OrderAssumption
<1>2. \A x \in S : x # "" OBVIOUS
<1>3. \A j \in DOMAIN Order : Order[j] \in S
  <2> HIDE DEF S
  <2> QED BY <1>1
<1> HIDE DEF S
<1> QED BY <1>2, <1>3 DEF Names, Range

(* A set of numbers has a least one, and a largest one below a bound.      *)
LEMMA LeastIn ==
  ASSUME NEW S, S \subseteq Nat, S # {}
  PROVE  \E x \in S : \A y \in S : x <= y
<1>1. PICK x \in S : \A y \in S : ~(<<y, x>> \in OpToRel(<, Nat))
  BY NatLessThanWellFounded, WFMin
<1>2. \A y \in S : ~(y < x) BY <1>1 DEF OpToRel
<1>3. \A y \in S : x <= y BY <1>2
<1> QED BY <1>3

LEMMA LargestIn ==
  ASSUME NEW L \in Nat, NEW S, S \subseteq 1..L, S # {}
  PROVE  \E x \in S : \A y \in S : y <= x
<1> DEFINE T == {L - y : y \in S}
<1>1. T \subseteq Nat /\ T # {}
  <2>1. \A y \in S : y \in Nat /\ y <= L /\ L - y \in Nat OBVIOUS
  <2> QED BY <2>1
<1> HIDE DEF T
<1>2. PICK z \in T : \A y \in T : z <= y BY <1>1, LeastIn
<1>3. PICK x \in S : z = L - x BY DEF T
<1>4. \A y \in S : L - x <= L - y BY <1>2, <1>3 DEF T
<1>5. \A y \in S : y <= x BY <1>4
<1> QED BY <1>5

(* Apply by the last line for a name.                                      *)
LEMMA ApplyLast ==
  ASSUME NEW d, NEW s \in Seq(Messages), NEW n \in Names
  PROVE  /\ (\A j \in 1..Len(s) : s[j].n # n) => Apply(d, s)[n] = d[n]
         /\ \A j \in 1..Len(s) : s[j].n = n /\ (\A k \in j + 1..Len(s) : s[k].n # n) => Apply(d, s)[n] = s[j].e
<1>1. Len(s) \in Nat OBVIOUS
<1>2. Apply(d, s)[n] = IF About(s, n) = {} THEN d[n]
                       ELSE s[CHOOSE j \in About(s, n) : \A k \in About(s, n) : k <= j].e
  BY DEF Apply
<1>3. ASSUME \A j \in 1..Len(s) : s[j].n # n PROVE Apply(d, s)[n] = d[n]
  BY <1>2, <1>3 DEF About
<1>4. ASSUME NEW j \in 1..Len(s), s[j].n = n, \A k \in j + 1..Len(s) : s[k].n # n
      PROVE  Apply(d, s)[n] = s[j].e
  <2>1. j \in About(s, n) BY <1>4 DEF About
  <2>2. \A k \in About(s, n) : k \in 1..Len(s) /\ s[k].n = n BY DEF About
  <2>3. \A k \in About(s, n) : k <= j BY <1>1, <1>4, <2>2
  <2>4. \A m \in About(s, n) : (\A k \in About(s, n) : k <= m) => m = j BY <1>1, <2>1, <2>2, <2>3
  <2>5. (CHOOSE m \in About(s, n) : \A k \in About(s, n) : k <= m) = j BY <2>1, <2>3, <2>4
  <2> QED BY <1>2, <2>1, <2>5
<1> QED BY <1>3, <1>4

LEMMA LastLine ==
  ASSUME NEW s \in Seq(Messages), NEW n \in Names
  PROVE  \/ \A j \in 1..Len(s) : s[j].n # n
         \/ \E j \in 1..Len(s) : s[j].n = n /\ \A k \in j + 1..Len(s) : s[k].n # n
<1>1. Len(s) \in Nat OBVIOUS
<1>2. CASE About(s, n) = {} BY <1>2 DEF About
<1>3. CASE About(s, n) # {}
  <2>1. About(s, n) \subseteq 1..Len(s) BY DEF About
  <2>2. PICK j \in About(s, n) : \A k \in About(s, n) : k <= j BY <1>1, <1>3, <2>1, LargestIn
  <2>3. j \in 1..Len(s) /\ s[j].n = n BY <2>2 DEF About
  <2>4. \A k \in j + 1..Len(s) : k \in 1..Len(s) /\ ~(k <= j) BY <1>1, <2>3
  <2>5. \A k \in j + 1..Len(s) : s[k].n # n BY <2>2, <2>4 DEF About
  <2> QED BY <2>3, <2>5
<1> QED BY <1>2, <1>3

LEMMA ApplyConcat ==
  ASSUME NEW d, NEW s \in Seq(Messages), NEW t \in Seq(Messages), NEW n \in Names
  PROVE  Apply(d, s \o t)[n] = Apply(Apply(d, s), t)[n]
<1> DEFINE st == s \o t
<1>1. /\ st \in Seq(Messages) /\ Len(st) = Len(s) + Len(t) /\ Len(s) \in Nat /\ Len(t) \in Nat
      /\ \A j \in 1..Len(s) : st[j] = s[j]
      /\ \A j \in 1..Len(t) : st[Len(s) + j] = t[j]
  OBVIOUS
<1>2. \A j \in 1..Len(st) : j \in 1..Len(s) \/ (j - Len(s) \in 1..Len(t) /\ st[j] = t[j - Len(s)])
  BY <1>1
<1> HIDE DEF st
<1>a. \A j \in 1..Len(st) : st[j].n = n /\ (\A k \in j + 1..Len(st) : st[k].n # n) => Apply(d, st)[n] = st[j].e
  <2>1. st \in Seq(Messages) BY <1>1
  <2> QED BY ONLY <2>1, n \in Names, ApplyLast, SMTT(30)
<1>3. CASE \A j \in 1..Len(t) : t[j].n # n
  <2>1. Apply(Apply(d, s), t)[n] = Apply(d, s)[n] BY <1>3, ApplyLast
  <2>2. CASE \A j \in 1..Len(s) : s[j].n # n
    <3>1. \A j \in 1..Len(st) : st[j].n # n BY <1>1, <1>2, <1>3, <2>2
    <3>2. Apply(d, st)[n] = d[n] BY <1>1, <3>1, ApplyLast
    <3>3. Apply(d, s)[n] = d[n] BY <2>2, ApplyLast
    <3> QED BY <2>1, <3>2, <3>3 DEF st
  <2>3. ASSUME NEW j \in 1..Len(s), s[j].n = n, \A k \in j + 1..Len(s) : s[k].n # n
        PROVE  Apply(d, s \o t)[n] = Apply(Apply(d, s), t)[n]
    <3>1. j \in 1..Len(st) /\ st[j] = s[j] BY <1>1
    <3>2. ASSUME NEW k \in j + 1..Len(st)
          PROVE  k \in j + 1..Len(s) \/ (k - Len(s) \in 1..Len(t) /\ st[k] = t[k - Len(s)])
      <4>1. k \in 1..Len(st) BY <1>1
      <4>2. k \in 1..Len(s) => k \in j + 1..Len(s) BY <1>1
      <4> QED BY <4>1, <4>2, <1>2
    <3>3. \A k \in j + 1..Len(s) : st[k] = s[k] BY <1>1
    <3>4. \A k \in j + 1..Len(st) : st[k].n # n BY <1>3, <2>3, <3>2, <3>3
    <3>5. Apply(d, st)[n] = st[j].e BY <2>3, <3>1, <3>4, <1>a
    <3>6. Apply(d, s)[n] = s[j].e BY <2>3, ApplyLast
    <3> QED BY <2>1, <3>1, <3>5, <3>6 DEF st
  <2> QED BY <2>2, <2>3, LastLine
<1>4. ASSUME NEW j \in 1..Len(t), t[j].n = n, \A k \in j + 1..Len(t) : t[k].n # n
      PROVE  Apply(d, s \o t)[n] = Apply(Apply(d, s), t)[n]
  <2>1. Apply(Apply(d, s), t)[n] = t[j].e BY <1>4, ApplyLast
  <2>2. Len(s) + j \in 1..Len(st) /\ st[Len(s) + j] = t[j] BY <1>1
  <2>3. \A k \in Len(s) + j + 1..Len(st) : k - Len(s) \in j + 1..Len(t) /\ st[k] = t[k - Len(s)]
    BY <1>1, <1>2
  <2>4. \A k \in Len(s) + j + 1..Len(st) : st[k].n # n BY <1>4, <2>3
  <2> DEFINE m == Len(s) + j
  <2> HIDE DEF m
  <2>5. m \in 1..Len(st) /\ st[m].n = n /\ \A k \in m + 1..Len(st) : st[k].n # n
    BY <1>4, <2>2, <2>4 DEF m
  <2>6. Apply(d, st)[n] = st[m].e BY <2>5, <1>a
  <2>7. st[m].e = t[j].e BY <2>2 DEF m
  <2> QED BY <2>1, <2>6, <2>7 DEF st
<1> QED BY <1>3, <1>4, LastLine

(* One line, OK and BYE, and no line.                                      *)
LEMMA ApplyOne ==
  ASSUME NEW d \in Lists, NEW n \in Names
  PROVE  /\ Apply(d, <<>>)[n] = d[n]
         /\ \A x \in Messages : /\ x \in Signs => Apply(d, <<x>>)[n] = d[n]
                                /\ x \notin Signs => Apply(d, <<x>>)[n] = [d EXCEPT ![x.n] = x.e][n]
<1>1. Apply(d, <<>>)[n] = d[n]
  <2> DEFINE s == <<>>
  <2>1. s \in Seq(Messages) /\ Len(s) = 0 OBVIOUS
  <2> HIDE DEF s
  <2>2. 1..Len(s) = {} BY <2>1
  <2>3. Apply(d, s)[n] = d[n] BY <2>1, <2>2, ApplyLast
  <2> QED BY <2>3 DEF s
<1>2. ASSUME NEW x \in Messages
      PROVE  /\ x \in Signs => Apply(d, <<x>>)[n] = d[n]
             /\ x \notin Signs => Apply(d, <<x>>)[n] = [d EXCEPT ![x.n] = x.e][n]
  <2> DEFINE s == <<x>>
  <2>1. s \in Seq(Messages) /\ Len(s) = 1 /\ s[1] = x OBVIOUS
  <2> HIDE DEF s
  <2>2. 1..Len(s) = {1} /\ 1 + 1..Len(s) = {} BY <2>1
  <2>3. x.n # n => Apply(d, s)[n] = d[n] BY <2>1, <2>2, ApplyLast
  <2>4. ASSUME x.n = n PROVE Apply(d, s)[n] = x.e
    <3>1. 1 \in 1..Len(s) /\ s[1].n = n /\ \A k \in 1 + 1..Len(s) : s[k].n # n BY <2>1, <2>2, <2>4
    <3>2. Apply(d, s)[n] = s[1].e BY <2>1, <3>1, ApplyLast
    <3> QED BY <2>1, <3>2
  <2>5. x \in Signs => x.n = ""
    <3>1. OK.n = "" BY DEF OK
    <3>2. BYE.n = "" BY DEF BYE
    <3> QED BY <3>1, <3>2 DEF Signs
  <2>6. x \notin Signs => x.n \in Names BY DEF Messages, Lines
  <2>7. DOMAIN d = Names BY DEF Lists
  <2> QED BY <2>3, <2>4, <2>5, <2>6, <2>7, NoName DEF s
<1> QED BY <1>1, <1>2

(* InOrder lists every name of the set once, in the order of the database. *)
Sorted(s) == \A j, k \in 1..Len(s) : j < k => Place(Order, s[j]) < Place(Order, s[k])

LEMMA InOrderOK ==
  ASSUME NEW S \in SUBSET Names
  PROVE  /\ InOrder(S) \in Seq(S) /\ Sorted(InOrder(S))
         /\ \A n \in S : \E j \in 1..Len(InOrder(S)) : InOrder(S)[j] = n
<1> DEFINE C == Cardinality(S)
           Below(n) == {m \in S : Place(Order, m) < Place(Order, n)}
           P == [n \in S |-> Cardinality(Below(n)) + 1]
<1>1. \A n \in S : n \in Names /\ Place(Order, n) \in Nat BY NamesFacts
<1>2. IsFiniteSet(S)
  <2> DEFINE D == 1..Len(Order)
             f == [j \in D |-> Order[j]]
  <2>1. IsFiniteSet(D) BY FS_Interval, NamesFacts
  <2>2. Names = {f[j] : j \in D}
    <3>1. DOMAIN Order = D BY NamesFacts
    <3> QED BY <3>1 DEF Names, Range
  <2> HIDE DEF D, f
  <2>3. IsFiniteSet({f[j] : j \in D})
    <3>1. f \in Surjection(D, {f[j] : j \in D}) BY Fun_IsSurj DEF f
    <3> QED BY <2>1, <3>1, FS_Surjection
  <2> QED BY <2>2, <2>3, FS_Subset
<1>3. C \in Nat BY <1>2, FS_CardinalityType
<1>5. ASSUME NEW n \in S
      PROVE  IsFiniteSet(Below(n)) /\ Cardinality(Below(n)) \in Nat /\ Cardinality(Below(n)) + 1 \in 1..C
  <2>1. Below(n) \in SUBSET S /\ n \notin Below(n) BY <1>1
  <2>2. Below(n) # S BY <2>1
  <2>3. IsFiniteSet(Below(n)) BY <1>2, <2>1, FS_Subset
  <2>4. Cardinality(Below(n)) \in Nat BY <2>3, FS_CardinalityType
  <2>5. Cardinality(Below(n)) <= C /\ Cardinality(Below(n)) # C BY <1>2, <2>1, <2>2, FS_Subset
  <2> HIDE DEF C, Below
  <2> QED BY <1>3, <2>3, <2>4, <2>5
<1>6. ASSUME NEW n \in S, NEW m \in S, Place(Order, n) < Place(Order, m)
      PROVE  P[n] < P[m]
  <2>1. Below(n) \in SUBSET Below(m) /\ n \in Below(m) /\ n \notin Below(n) BY <1>1, <1>6
  <2>2. Below(n) # Below(m) BY <2>1
  <2>3. Cardinality(Below(n)) <= Cardinality(Below(m)) /\ Cardinality(Below(n)) # Cardinality(Below(m))
    BY <1>5, <2>1, <2>2, FS_Subset
  <2>4. Cardinality(Below(n)) \in Nat /\ Cardinality(Below(m)) \in Nat BY <1>5
  <2>5. P[n] = Cardinality(Below(n)) + 1 /\ P[m] = Cardinality(Below(m)) + 1 OBVIOUS
  <2> HIDE DEF Below, P
  <2> QED BY <2>3, <2>4, <2>5
<1>7. P \in [S -> 1..C] BY <1>5
<1> HIDE DEF P
<1>8. ASSUME NEW n \in S, NEW m \in S, n # m PROVE P[n] # P[m]
  <2>1. Place(Order, n) < Place(Order, m) \/ Place(Order, m) < Place(Order, n)
    BY <1>1, <1>8, NamesFacts
  <2>2. P[n] \in Nat /\ P[m] \in Nat BY <1>3, <1>7
  <2> QED BY <1>6, <2>1, <2>2
<1>9. P \in Surjection(S, 1..C)
  <2>1. IsFiniteSet(1..C) /\ Cardinality(1..C) = C BY <1>3, FS_Interval
  <2>2. P \in Injection(S, 1..C) BY <1>7, <1>8, Fun_IsInj
  <2> HIDE DEF C
  <2> DEFINE T == 1..C
  <2>3. IsFiniteSet(T) /\ P \in Injection(S, T) /\ Cardinality(S) = Cardinality(T)
    BY <2>1, <2>2 DEF C
  <2> HIDE DEF T
  <2>4. P \in Surjection(S, T) BY <2>3, FS_Injection
  <2> QED BY <2>4 DEF T
<1> HIDE DEF C, Below
<1>10. \A k \in 1..C : \E n \in S : P[n] = k BY <1>9, Fun_SurjectionProperties
<1> DEFINE s == [k \in 1..C |-> CHOOSE n \in S : P[n] = k]
<1>11. \A k \in 1..C : s[k] \in S /\ P[s[k]] = k BY <1>10
<1>12. s \in [1..C -> S] BY <1>11
<1> HIDE DEF s
<1>13. ASSUME NEW n \in S PROVE P[n] \in 1..C /\ s[P[n]] = n
  <2>1. P[n] \in 1..C BY <1>7
  <2>2. s[P[n]] \in S /\ P[s[P[n]]] = P[n] BY <1>11, <2>1
  <2> QED BY <1>8, <2>1, <2>2
<1>14. Range(s) = S BY <1>12, <1>13 DEF Range
<1>15. ASSUME NEW j \in 1..C, NEW k \in 1..C, j < k PROVE Place(Order, s[j]) < Place(Order, s[k])
  <2>1. s[j] \in S /\ s[k] \in S /\ P[s[j]] = j /\ P[s[k]] = k BY <1>11
  <2>2. ~(Place(Order, s[k]) < Place(Order, s[j]))
    <3> SUFFICES ASSUME Place(Order, s[k]) < Place(Order, s[j]) PROVE FALSE OBVIOUS
    <3>1. P[s[k]] < P[s[j]] BY <1>6, <2>1
    <3> QED BY <1>3, <1>15, <2>1, <3>1
  <2>3. s[j] # s[k] BY <1>3, <1>15, <2>1
  <2>4. Place(Order, s[j]) # Place(Order, s[k]) BY <1>1, <2>1, <2>3, NamesFacts
  <2>5. Place(Order, s[j]) \in Nat /\ Place(Order, s[k]) \in Nat BY <1>1, <2>1
  <2> QED BY <2>2, <2>4, <2>5
<1> DEFINE Good(q) == /\ Range(q) = S
                      /\ \A j, k \in DOMAIN q : j < k => Place(Order, q[j]) < Place(Order, q[k])
<1>16. Good(s) BY <1>12, <1>14, <1>15
<1> DEFINE g == InOrder(S)
<1>17. g = CHOOSE q \in [1..C -> S] : Good(q) BY DEF InOrder, C
<1> HIDE DEF g
<1>18. g \in [1..C -> S] /\ Good(g) BY <1>12, <1>16, <1>17
<1>19. g \in Seq(S) /\ DOMAIN g = 1..C /\ Len(g) = C BY <1>3, <1>18
<1>20. Sorted(g) BY <1>18, <1>19 DEF Sorted
<1>21. \A n \in S : \E j \in 1..Len(g) : g[j] = n BY <1>18, <1>19 DEF Range
<1> QED BY <1>19, <1>20, <1>21 DEF g

(* The rounds of the merge.                                                *)
LEMMA RoundsInduction ==
  ASSUME NEW n \in Nat, NEW T, 0 \in T, \A k \in 0..n : k \in T /\ k < n => k + 1 \in T
  PROVE  \A k \in 0..n : k \in T
<1> DEFINE rest == (0..n) \ T
<1> SUFFICES ASSUME rest # {} PROVE FALSE
  OBVIOUS
<1>1. rest \subseteq Nat OBVIOUS
<1>2. PICK x \in rest : \A y \in rest : x <= y
  <2> HIDE DEF rest
  <2> QED BY <1>1, LeastIn
<1>4. x \in Nat /\ x # 0 /\ x - 1 \in 0..n /\ x - 1 < x /\ x - 1 < n
  OBVIOUS
<1>5. x - 1 \in T BY <1>2, <1>4
<1>6. (x - 1) + 1 \in T BY <1>4, <1>5
<1> QED BY <1>4, <1>6

Runs(f, local, remote, d, n) ==
  f = [k \in 0..n |-> IF k = 0 THEN [l |-> 1, r |-> 1, d |-> d] ELSE Round(local, remote, f[k - 1])]

LEMMA RunsExist ==
  ASSUME NEW local, NEW remote, NEW d, NEW z \in Nat
  PROVE  \E f : Runs(f, local, remote, d, z)
<1> DEFINE T == {n \in 0..z : \E f : Runs(f, local, remote, d, n)}
           start == [l |-> 1, r |-> 1, d |-> d]
<1>1. 0 \in T
  <2> DEFINE g == [k \in 0..0 |-> start]
  <2>1. Runs(g, local, remote, d, 0) BY DEF Runs
  <2> QED BY <2>1
<1>2. ASSUME NEW n \in 0..z, n \in T, n < z PROVE n + 1 \in T
  <2>1. PICK f : Runs(f, local, remote, d, n) BY <1>2
  <2> DEFINE g == [k \in 0..n + 1 |-> IF k = 0 THEN start ELSE Round(local, remote, f[k - 1])]
  <2>2. \A k \in 0..n : g[k] = f[k] BY <2>1 DEF Runs
  <2>3. \A k \in 0..n + 1 : k # 0 => k - 1 \in 0..n OBVIOUS
  <2>4. g = [k \in 0..n + 1 |-> IF k = 0 THEN start ELSE Round(local, remote, g[k - 1])]
    BY <2>2, <2>3
  <2>5. Runs(g, local, remote, d, n + 1) BY <2>4 DEF Runs
  <2>6. n + 1 \in 0..z BY <1>2
  <2> HIDE DEF g
  <2> QED BY <2>5, <2>6
<1> HIDE DEF T
<1>3. \A n \in 0..z : n \in T /\ n < z => n + 1 \in T BY <1>2
<1>4. \A n \in 0..z : n \in T BY <1>1, <1>3, RoundsInduction
<1>5. z \in T BY <1>4
<1> QED BY <1>5 DEF T

(* OK and BYE are no lines.                                                *)
LEMMA SignFacts ==
  /\ OK \in Signs /\ BYE \in Signs /\ OK # BYE
  /\ \A x \in Signs : x.n \notin Names /\ x \notin Lines /\ x \in Messages
  /\ \A x \in Lines : x.n \in Names /\ x.e \in Entries /\ x \in Messages /\ x \notin Signs
  /\ \A x \in Messages : x \notin Signs => x \in Lines
  /\ \A x \in Messages : x.n \in Names => x \in Lines
<1>1. OK.n = "" BY DEF OK
<1>2. BYE.n = "" BY DEF BYE
<1>3. OK.t = "OK" BY DEF OK
<1>4. BYE.t = "BYE" BY DEF BYE
<1>5. OK # BYE BY <1>3, <1>4
<1>6. \A x \in Signs : x.n \notin Names BY <1>1, <1>2, NoName DEF Signs
<1>7. \A x \in Lines : x.n \in Names /\ x.e \in Entries BY DEF Lines
<1> QED BY <1>5, <1>6, <1>7 DEF Messages, Signs

LEMMA EntryFacts ==
  /\ None \in Entries /\ Empty \in Lists
  /\ \A n \in Names, e \in Entries : Line(n, e) \in Lines /\ Line(n, e).n = n /\ Line(n, e).e = e
<1>1. None \in Entries BY BoundAssumption DEF None, Entries
<1>2. \A e \in Entries : e.t \in {"none", "RESERVE", "MAILBOX"} BY DEF Entries
<1> QED BY <1>1, <1>2 DEF Empty, Lists, Line, Lines

(* Where the merge stands: what it did for the lines and the local names   *)
(* it is done with; they come before those it is not done with.            *)
At(s, local, remote, d) ==
  /\ s.l \in 1..Len(local) + 1 /\ s.r \in 1..Len(remote) + 1 /\ s.d \in Lists
MergeInv(s, local, remote, d) ==
  /\ \A b \in 1..s.r - 1 : s.d[remote[b].n] = remote[b].e
  /\ \A a \in 1..s.l - 1 : (\A b \in 1..s.r - 1 : remote[b].n # local[a]) => s.d[local[a]] = None
  /\ \A n \in Names : (\A b \in 1..s.r - 1 : remote[b].n # n) /\ (\A a \in 1..s.l - 1 : local[a] # n)
                        => s.d[n] = d[n]
  /\ \A a \in 1..s.l - 1, b \in s.r..Len(remote) : Place(Order, local[a]) < Place(Order, remote[b].n)
  /\ \A b \in 1..s.r - 1, a \in s.l..Len(local) : Place(Order, remote[b].n) < Place(Order, local[a])
SortedLines(s) == \A j, k \in 1..Len(s) : j < k => Place(Order, s[j].n) < Place(Order, s[k].n)

LEMMA RoundType ==
  ASSUME NEW local \in Seq(Names), NEW remote \in Seq(Lines), NEW d, NEW s, At(s, local, remote, d)
  PROVE  LET t == Round(local, remote, s)
         IN /\ At(t, local, remote, d)
            /\ (t.l > Len(local) /\ t.r > Len(remote)) \/ t.l + t.r >= s.l + s.r + 1
<1> DEFINE hasl == s.l <= Len(local)
           hasr == s.r <= Len(remote)
           n == local[s.l]
           x == remote[s.r]
           t == Round(local, remote, s)
<1>1. Len(local) \in Nat /\ Len(remote) \in Nat OBVIOUS
<1>2. s.l \in 1..Len(local) + 1 /\ s.r \in 1..Len(remote) + 1 /\ s.d \in Lists BY DEF At
<1>3. hasl => n \in Names BY <1>1, <1>2
<1>4. hasr => x.n \in Names /\ x.e \in Entries
  <2>1. hasr => x \in Lines BY <1>1, <1>2
  <2> QED BY <2>1, SignFacts
<1>5. CASE ~hasl /\ ~hasr
  <2>1. t = s BY <1>5 DEF Round
  <2> QED BY <1>1, <1>2, <1>5, <2>1
<1>6. CASE hasl /\ (~hasr \/ Less(n, x.n))
  <2>1. t = [l |-> s.l + 1, r |-> s.r, d |-> [s.d EXCEPT ![n] = None]] BY <1>6 DEF Round
  <2>2. [s.d EXCEPT ![n] = None] \in Lists BY <1>2, <1>3, <1>6, EntryFacts DEF Lists
  <2>3. t.l = s.l + 1 /\ t.r = s.r /\ t.d = [s.d EXCEPT ![n] = None] BY <2>1
  <2> HIDE DEF t
  <2> QED BY <1>1, <1>2, <1>6, <2>2, <2>3 DEF At, t
<1>7. CASE ~(hasl /\ (~hasr \/ Less(n, x.n))) /\ hasr
  <2> DEFINE q == IF hasl /\ n = x.n THEN s.l + 1 ELSE s.l
  <2>1. t = [l |-> q, r |-> s.r + 1, d |-> [s.d EXCEPT ![x.n] = x.e]] BY <1>7 DEF Round
  <2>2. [s.d EXCEPT ![x.n] = x.e] \in Lists BY <1>2, <1>4, <1>7 DEF Lists
  <2>3. t.l = q /\ t.r = s.r + 1 /\ t.d = [s.d EXCEPT ![x.n] = x.e] BY <2>1
  <2>4. q \in 1..Len(local) + 1 /\ q >= s.l BY <1>1, <1>2
  <2> HIDE DEF t, q
  <2> QED BY <1>1, <1>2, <1>7, <2>2, <2>3, <2>4 DEF At, t
<1> QED BY <1>5, <1>6, <1>7

LEMMA RoundMerges ==
  ASSUME Strcmp = Order, NEW local \in Seq(Names), NEW remote \in Seq(Lines), NEW d \in Lists, NEW s,
         At(s, local, remote, d), Sorted(local), SortedLines(remote), MergeInv(s, local, remote, d)
  PROVE  MergeInv(Round(local, remote, s), local, remote, d)
<1> DEFINE hasl == s.l <= Len(local)
           hasr == s.r <= Len(remote)
           n == local[s.l]
           x == remote[s.r]
           t == Round(local, remote, s)
           pl(m) == Place(Order, m)
<1>1. Len(local) \in Nat /\ Len(remote) \in Nat OBVIOUS
<1>2. s.l \in 1..Len(local) + 1 /\ s.r \in 1..Len(remote) + 1 /\ s.d \in Lists BY DEF At
<1>3. /\ \A j \in 1..Len(local) : local[j] \in Names /\ pl(local[j]) \in Nat
      /\ \A j \in 1..Len(remote) : remote[j].n \in Names /\ pl(remote[j].n) \in Nat
  <2>1. \A j \in 1..Len(remote) : remote[j] \in Lines OBVIOUS
  <2>2. \A j \in 1..Len(remote) : remote[j].n \in Names BY <2>1, SignFacts
  <2> QED BY <2>2, NamesFacts
<1>4. hasl => s.l \in 1..Len(local) BY <1>1, <1>2
<1>5. hasr => s.r \in 1..Len(remote) BY <1>1, <1>2
<1>6. \A a \in 1..s.l - 1 : a \in 1..Len(local) BY <1>1, <1>2
<1>7. \A b \in 1..s.r - 1 : b \in 1..Len(remote) BY <1>1, <1>2
<1>8. \A b \in s.r..Len(remote) : b \in 1..Len(remote) BY <1>1, <1>2
<1>9. \A a \in s.l..Len(local) : a \in 1..Len(local) BY <1>1, <1>2
<1>10. DOMAIN s.d = Names BY <1>2 DEF Lists
<1>11. CASE ~hasl /\ ~hasr
  <2>1. t = s BY <1>11 DEF Round
  <2> QED BY <2>1
<1>12. CASE hasl /\ (~hasr \/ Less(n, x.n))
  <2>1. t = [l |-> s.l + 1, r |-> s.r, d |-> [s.d EXCEPT ![n] = None]] BY <1>12 DEF Round
  <2>2. t.l = s.l + 1 /\ t.r = s.r /\ t.d = [s.d EXCEPT ![n] = None] BY <2>1
  <2> HIDE DEF t
  <2>3. n \in Names BY <1>3, <1>4, <1>12
  <2>4. t.d[n] = None /\ \A m \in Names : m # n => t.d[m] = s.d[m] BY <1>10, <2>2, <2>3
  <2>5. \A a \in 1..t.l - 1 : a \in 1..s.l - 1 \/ a = s.l BY <1>2, <2>2
  <2>6. s.l \in s.l..Len(local) BY <1>1, <1>2, <1>12
  <2>7. \A b \in 1..t.r - 1 : t.d[remote[b].n] = remote[b].e
    <3> SUFFICES ASSUME NEW b \in 1..s.r - 1 PROVE t.d[remote[b].n] = remote[b].e BY <2>2
    <3>1. pl(remote[b].n) < pl(n) BY <2>6 DEF MergeInv
    <3>2. remote[b].n # n BY <1>3, <1>7, <3>1
    <3>3. s.d[remote[b].n] = remote[b].e BY DEF MergeInv
    <3> QED BY <1>3, <1>7, <2>4, <3>2, <3>3
  <2>8. \A a \in 1..t.l - 1 : (\A b \in 1..t.r - 1 : remote[b].n # local[a]) => t.d[local[a]] = None
    <3> SUFFICES ASSUME NEW a \in 1..t.l - 1, \A b \in 1..s.r - 1 : remote[b].n # local[a]
                 PROVE  t.d[local[a]] = None BY <2>2
    <3>1. CASE a = s.l BY <2>4, <3>1
    <3>2. CASE a \in 1..s.l - 1
      <4>1. s.d[local[a]] = None BY <3>2 DEF MergeInv
      <4> QED BY <1>3, <1>6, <2>4, <3>2, <4>1
    <3> QED BY <2>5, <3>1, <3>2
  <2>9. \A m \in Names : (\A b \in 1..t.r - 1 : remote[b].n # m) /\ (\A a \in 1..t.l - 1 : local[a] # m)
                           => t.d[m] = d[m]
    <3> SUFFICES ASSUME NEW m \in Names, \A b \in 1..s.r - 1 : remote[b].n # m,
                        \A a \in 1..t.l - 1 : local[a] # m
                 PROVE  t.d[m] = d[m] BY <2>2
    <3>1. s.l \in 1..t.l - 1 /\ \A a \in 1..s.l - 1 : a \in 1..t.l - 1 BY <1>2, <2>2
    <3>2. m # n /\ \A a \in 1..s.l - 1 : local[a] # m BY <3>1
    <3>3. s.d[m] = d[m] BY <3>2 DEF MergeInv
    <3> QED BY <2>4, <3>2, <3>3
  <2>10. \A a \in 1..t.l - 1, b \in t.r..Len(remote) : pl(local[a]) < pl(remote[b].n)
    <3> SUFFICES ASSUME NEW a \in 1..t.l - 1, NEW b \in s.r..Len(remote)
                 PROVE  pl(local[a]) < pl(remote[b].n) BY <2>2
    <3>1. CASE a \in 1..s.l - 1 BY <3>1 DEF MergeInv
    <3>2. CASE a = s.l
      <4>1. hasr BY <1>1, <1>2
      <4>2. pl(n) < pl(x.n) BY <1>12, <4>1 DEF Less
      <4>3. b = s.r \/ pl(x.n) < pl(remote[b].n) BY <1>1, <1>2, <1>5, <1>8, <4>1 DEF SortedLines
      <4>4. pl(n) \in Nat /\ pl(x.n) \in Nat /\ pl(remote[b].n) \in Nat
        BY <1>3, <1>4, <1>5, <1>8, <1>12, <4>1
      <4> QED BY <3>2, <4>2, <4>3, <4>4
    <3> QED BY <2>5, <3>1, <3>2
  <2>11. \A b \in 1..t.r - 1, a \in t.l..Len(local) : pl(remote[b].n) < pl(local[a])
    <3>1. \A a \in t.l..Len(local) : a \in s.l..Len(local) BY <1>1, <1>2, <2>2
    <3> QED BY <2>2, <3>1 DEF MergeInv
  <2> QED BY <2>7, <2>8, <2>9, <2>10, <2>11 DEF MergeInv, t
<1>13. CASE ~(hasl /\ (~hasr \/ Less(n, x.n))) /\ hasr
  <2> DEFINE q == IF hasl /\ n = x.n THEN s.l + 1 ELSE s.l
  <2>1. t = [l |-> q, r |-> s.r + 1, d |-> [s.d EXCEPT ![x.n] = x.e]] BY <1>13 DEF Round
  <2>2. t.l = q /\ t.r = s.r + 1 /\ t.d = [s.d EXCEPT ![x.n] = x.e] BY <2>1
  <2>3. q \in 1..Len(local) + 1 /\ (q = s.l \/ (q = s.l + 1 /\ hasl /\ n = x.n)) BY <1>1, <1>2
  <2>4. hasl /\ q = s.l => n # x.n BY <1>2
  <2> HIDE DEF t, q
  <2>5. x.n \in Names BY <1>3, <1>5, <1>13
  <2>6. t.d[x.n] = x.e /\ \A m \in Names : m # x.n => t.d[m] = s.d[m] BY <1>10, <2>2, <2>5
  <2>7. \A b \in 1..t.r - 1 : b \in 1..s.r - 1 \/ b = s.r BY <1>2, <2>2
  <2>8. s.r \in 1..t.r - 1 /\ \A b \in 1..s.r - 1 : b \in 1..t.r - 1 BY <1>2, <2>2
  <2>9. \A b \in 1..s.r - 1 : pl(remote[b].n) < pl(x.n) BY <1>2, <1>5, <1>7, <1>13 DEF SortedLines
  <2>10. \A b \in 1..s.r - 1 : remote[b].n # x.n BY <1>3, <1>5, <1>7, <1>13, <2>9
  <2>11. \A b \in 1..t.r - 1 : t.d[remote[b].n] = remote[b].e
    <3> SUFFICES ASSUME NEW b \in 1..t.r - 1 PROVE t.d[remote[b].n] = remote[b].e OBVIOUS
    <3>1. CASE b = s.r BY <2>6, <3>1
    <3>2. CASE b \in 1..s.r - 1
      <4>1. s.d[remote[b].n] = remote[b].e BY <3>2 DEF MergeInv
      <4> QED BY <1>3, <1>7, <2>6, <2>10, <3>2, <4>1
    <3> QED BY <2>7, <3>1, <3>2
  <2>12. \A a \in 1..t.l - 1 : (\A b \in 1..t.r - 1 : remote[b].n # local[a]) => t.d[local[a]] = None
    <3> SUFFICES ASSUME NEW a \in 1..t.l - 1, \A b \in 1..t.r - 1 : remote[b].n # local[a]
                 PROVE  t.d[local[a]] = None OBVIOUS
    <3>1. local[a] # x.n /\ \A b \in 1..s.r - 1 : remote[b].n # local[a] BY <2>8
    <3>2. a \in 1..s.l - 1 BY <1>2, <2>2, <2>3, <3>1
    <3>3. s.d[local[a]] = None BY <3>1, <3>2 DEF MergeInv
    <3> QED BY <1>3, <1>6, <2>6, <3>1, <3>2, <3>3
  <2>13. \A m \in Names : (\A b \in 1..t.r - 1 : remote[b].n # m) /\ (\A a \in 1..t.l - 1 : local[a] # m)
                           => t.d[m] = d[m]
    <3> SUFFICES ASSUME NEW m \in Names, \A b \in 1..t.r - 1 : remote[b].n # m,
                        \A a \in 1..t.l - 1 : local[a] # m
                 PROVE  t.d[m] = d[m] OBVIOUS
    <3>1. m # x.n /\ \A b \in 1..s.r - 1 : remote[b].n # m BY <2>8
    <3>2. \A a \in 1..s.l - 1 : a \in 1..t.l - 1 BY <1>2, <2>2, <2>3
    <3>3. s.d[m] = d[m] BY <3>1, <3>2 DEF MergeInv
    <3> QED BY <2>6, <3>1, <3>3
  <2>14. \A a \in 1..t.l - 1, b \in t.r..Len(remote) : pl(local[a]) < pl(remote[b].n)
    <3> SUFFICES ASSUME NEW a \in 1..t.l - 1, NEW b \in t.r..Len(remote)
                 PROVE  pl(local[a]) < pl(remote[b].n) OBVIOUS
    <3>1. b \in s.r..Len(remote) /\ s.r < b BY <1>1, <1>2, <2>2
    <3>2. CASE a \in 1..s.l - 1 BY <3>1, <3>2 DEF MergeInv
    <3>3. CASE a = s.l /\ n = x.n
      <4>1. pl(x.n) < pl(remote[b].n) BY <1>5, <1>8, <1>13, <3>1 DEF SortedLines
      <4> QED BY <3>3, <4>1
    <3> QED BY <1>2, <2>2, <2>3, <3>2, <3>3
  <2>15. \A b \in 1..t.r - 1, a \in t.l..Len(local) : pl(remote[b].n) < pl(local[a])
    <3> SUFFICES ASSUME NEW b \in 1..t.r - 1, NEW a \in t.l..Len(local)
                 PROVE  pl(remote[b].n) < pl(local[a]) OBVIOUS
    <3>1. a \in s.l..Len(local) BY <1>1, <1>2, <2>2, <2>3
    <3>2. CASE b \in 1..s.r - 1 BY <3>1, <3>2 DEF MergeInv
    <3>3. CASE b = s.r
      <4>1. hasl BY <1>1, <1>2, <3>1
      <4>2. pl(n) \in Nat /\ pl(x.n) \in Nat /\ pl(local[a]) \in Nat
        BY <1>3, <1>4, <1>5, <1>9, <1>13, <3>1, <4>1
      <4>3. ~(pl(n) < pl(x.n)) BY <1>13, <4>1 DEF Less
      <4>4. a = s.l \/ pl(n) < pl(local[a]) BY <1>1, <1>2, <1>4, <1>9, <3>1, <4>1 DEF Sorted
      <4>5. CASE q = s.l
        <5>1. pl(n) # pl(x.n) BY <1>3, <1>4, <1>5, <1>13, <2>4, <4>1, <4>5, NamesFacts
        <5> QED BY <3>3, <4>2, <4>3, <4>4, <5>1
      <4>6. CASE q = s.l + 1 /\ n = x.n
        <5>1. a # s.l BY <1>1, <1>2, <2>2, <4>6
        <5> QED BY <3>3, <4>4, <4>6, <5>1
      <4> QED BY <2>3, <4>5, <4>6
    <3> QED BY <2>7, <3>2, <3>3
  <2> QED BY <2>11, <2>12, <2>13, <2>14, <2>15 DEF MergeInv, t
<1> QED BY <1>11, <1>12, <1>13

(* The merge makes the local list what the lines say.                      *)
LEMMA MergedOK ==
  ASSUME NEW local \in Seq(Names), NEW remote \in Seq(Lines), NEW d \in Lists
  PROVE  /\ Merged(local, remote, d) \in Lists
         /\ /\ Strcmp = Order /\ Sorted(local) /\ SortedLines(remote)
            /\ \A n \in Names : d[n] # None => \E j \in 1..Len(local) : local[j] = n
            => \A n \in Names : Merged(local, remote, d)[n] = Apply(Empty, remote)[n]
<1> DEFINE z == Len(local) + Len(remote)
           start == [l |-> 1, r |-> 1, d |-> d]
           fair == Strcmp = Order /\ Sorted(local) /\ SortedLines(remote)
           run == CHOOSE f : f = [k \in 0..z |-> IF k = 0 THEN start ELSE Round(local, remote, f[k - 1])]
<1>1. Len(local) \in Nat /\ Len(remote) \in Nat /\ z \in Nat OBVIOUS
<1>2. Merged(local, remote, d) = run[z].d BY DEF Merged
<1>3. run = [k \in 0..z |-> IF k = 0 THEN start ELSE Round(local, remote, run[k - 1])]
  <2>1. \E f : Runs(f, local, remote, d, z) BY <1>1, RunsExist
  <2> QED BY <2>1 DEF Runs
<1> HIDE DEF run
<1>4. run[0] = start /\ \A k \in 0..z : k < z => run[k + 1] = Round(local, remote, run[k])
  BY <1>1, <1>3
<1> DEFINE Q(k) == /\ At(run[k], local, remote, d)
                   /\ (run[k].l > Len(local) /\ run[k].r > Len(remote)) \/ run[k].l + run[k].r >= k + 2
                   /\ fair => MergeInv(run[k], local, remote, d)
           T == {k \in 0..z : Q(k)}
<1>5. 0 \in T
  <2>1. run[0].l = 1 /\ run[0].r = 1 /\ run[0].d = d BY <1>4
  <2>2. At(run[0], local, remote, d) BY <1>1, <2>1 DEF At
  <2>3. MergeInv(run[0], local, remote, d) BY <2>1 DEF MergeInv
  <2> QED BY <1>1, <2>1, <2>2, <2>3
<1>6. ASSUME NEW k \in 0..z, k \in T, k < z PROVE k + 1 \in T
  <2> DEFINE s == run[k]
             t == run[k + 1]
  <2>1. t = Round(local, remote, s) BY <1>4, <1>6
  <2>2. Q(k) BY <1>6
  <2> HIDE DEF s, t
  <2>3. At(s, local, remote, d) BY <2>2 DEF s
  <2>4. /\ At(t, local, remote, d)
        /\ (t.l > Len(local) /\ t.r > Len(remote)) \/ t.l + t.r >= s.l + s.r + 1
    BY <2>1, <2>3, RoundType
  <2>5. s.l \in 1..Len(local) + 1 /\ s.r \in 1..Len(remote) + 1 /\ t.l \in 1..Len(local) + 1 /\ t.r \in 1..Len(remote) + 1
    BY <2>3, <2>4 DEF At
  <2>6. (s.l > Len(local) /\ s.r > Len(remote)) \/ s.l + s.r >= k + 2 BY <2>2 DEF s
  <2>7. (t.l > Len(local) /\ t.r > Len(remote)) \/ t.l + t.r >= (k + 1) + 2
    <3>1. CASE s.l > Len(local) /\ s.r > Len(remote)
      <4>1. s.l = Len(local) + 1 /\ s.r = Len(remote) + 1 BY <1>1, <2>5, <3>1
      <4>2. (t.l > Len(local) /\ t.r > Len(remote)) \/ t.l + t.r >= Len(local) + Len(remote) + 3
        BY <1>1, <2>4, <4>1
      <4> QED BY <1>1, <2>5, <4>2
    <3>2. CASE s.l + s.r >= k + 2 BY <1>1, <2>4, <2>5, <3>2
    <3> QED BY <2>6, <3>1, <3>2
  <2>8. fair => MergeInv(t, local, remote, d) BY <2>1, <2>2, <2>3, RoundMerges DEF s
  <2>9. k + 1 \in 0..z BY <1>1, <1>6
  <2> QED BY <2>4, <2>7, <2>8, <2>9 DEF t
<1> HIDE DEF T
<1>7. \A k \in 0..z : k \in T /\ k < z => k + 1 \in T BY <1>6
<1>8. \A k \in 0..z : k \in T
  <2> HIDE DEF z
  <2> QED BY <1>1, <1>5, <1>7, RoundsInduction
<1>9. Q(z) BY <1>1, <1>8 DEF T
<1> DEFINE s == run[z]
<1>10. At(s, local, remote, d) BY <1>9
<1>11. s.l = Len(local) + 1 /\ s.r = Len(remote) + 1
  <2>1. s.l \in 1..Len(local) + 1 /\ s.r \in 1..Len(remote) + 1 BY <1>10 DEF At
  <2>2. (s.l > Len(local) /\ s.r > Len(remote)) \/ s.l + s.r >= z + 2 BY <1>9
  <2> HIDE DEF s
  <2> QED BY <1>1, <2>1, <2>2
<1>12. s.d \in Lists BY <1>10 DEF At
<1>13. ASSUME fair, \A n \in Names : d[n] # None => \E j \in 1..Len(local) : local[j] = n, NEW n \in Names
       PROVE  s.d[n] = Apply(Empty, remote)[n]
  <2>1. MergeInv(s, local, remote, d) BY <1>9, <1>13
  <2> HIDE DEF s
  <2>2. 1..s.r - 1 = 1..Len(remote) /\ 1..s.l - 1 = 1..Len(local) BY <1>1, <1>11
  <2>3. remote \in Seq(Messages) BY DEF Messages
  <2>4. CASE \A b \in 1..Len(remote) : remote[b].n # n
    <3>1. Apply(Empty, remote)[n] = Empty[n] BY <2>3, <2>4, ApplyLast
    <3>2. Empty[n] = None BY DEF Empty
    <3>3. s.d[n] = None
      <4>1. CASE \E a \in 1..Len(local) : local[a] = n BY <2>1, <2>2, <2>4, <4>1 DEF MergeInv
      <4>2. CASE \A a \in 1..Len(local) : local[a] # n
        <5>1. s.d[n] = d[n] BY <2>1, <2>2, <2>4, <4>2 DEF MergeInv
        <5> QED BY <1>13, <4>2, <5>1
      <4> QED BY <4>1, <4>2
    <3> QED BY <3>1, <3>2, <3>3
  <2>5. ASSUME NEW b \in 1..Len(remote), remote[b].n = n PROVE s.d[n] = Apply(Empty, remote)[n]
    <3>1. s.d[n] = remote[b].e BY <2>1, <2>2, <2>5 DEF MergeInv
    <3>2. \A k \in b + 1..Len(remote) : remote[k].n # n
      <4> SUFFICES ASSUME NEW k \in b + 1..Len(remote) PROVE remote[k].n # n OBVIOUS
      <4>1. k \in 1..Len(remote) /\ b < k BY <1>1
      <4>2. Place(Order, remote[b].n) < Place(Order, remote[k].n) BY <1>13, <4>1 DEF SortedLines
      <4>3. Place(Order, n) \in Nat BY NamesFacts
      <4> QED BY <2>5, <4>2, <4>3
    <3>3. \A j \in 1..Len(remote) : remote[j].n = n /\ (\A k \in j + 1..Len(remote) : remote[k].n # n)
                                      => Apply(Empty, remote)[n] = remote[j].e
      BY ONLY <2>3, n \in Names, ApplyLast
    <3> QED BY <2>5, <3>1, <3>2, <3>3
  <2> QED BY <2>4, <2>5
<1> QED BY <1>2, <1>12, <1>13

-----------------------------------------------------------------------------
(* The types of the state.                                                 *)

LEMMA NodeFacts ==
  /\ \A i \in Slaves : i \in Nodes /\ Up(i) \in Nodes /\ Up(i) # i /\ i # Master /\ i \in Kicks /\ i \in Int
  /\ \A k \in Kicks : Home(k) \in Nodes
  /\ \A k \in Kickers : Home(k) = N /\ k \notin Slaves
  /\ \A k \in Slaves : Home(k) = Up(k)
  /\ N \in Slaves /\ Master \in Nodes
<1>1. N \in Nat /\ N > 1 BY NodeAssumption
<1>2. Kickers \cap Slaves = {} BY KickerAssumption DEF Slaves
<1>3. \A i \in Slaves : i \in Int /\ 2 <= i /\ i <= N BY <1>1 DEF Slaves
<1> QED BY <1>1, <1>2, <1>3 DEF Nodes, Slaves, Up, Home, Kicks, Master

LEMMA TypesDef ==
  ASSUME Types
  PROVE  /\ \A i \in Slaves : /\ srv[i] \in Threads /\ cl[i] \in Clients
                              /\ down[i] \in Seq(Messages) /\ alive[i] \in BOOLEAN
                              /\ up[i] \in Seq({"UPDATE", "NOOP"})
         /\ \A i \in Nodes : db[i] \in Lists /\ ready[i] \in BOOLEAN
         /\ \A i \in Nodes, n \in Names : db[i][n] \in Entries
  BY DEF Types, Lists

LEMMA InvParts ==
  ASSUME TypeInv, NEW i \in Slaves
  PROVE  Types /\ ServerOK(i) /\ ClientOK(i)
  BY DEF TypeInv

(* A step of node i or of its connection leaves the others as they are,    *)
(* but for a name that is queued for them.                                 *)
Logged(m) == \/ srv'[m] = srv[m]
             \/ srv[m].streaming /\ \E n \in Names : srv'[m] = [srv[m] EXCEPT !.plist = @ \cup {n}]

LEMMA Others ==
  ASSUME TypeInv, NEW i,
         \A m \in Slaves \ {i} : /\ up'[m] = up[m] /\ down'[m] = down[m] /\ alive'[m] = alive[m]
                                 /\ cl'[m] = cl[m] /\ Logged(m)
                                 /\ kick[m] = "idle" => kick'[m] = "idle",
         \A k \in Kicks : kick[k] = "held" /\ Home(k) # i => kick'[k] = "held"
  PROVE  \A m \in Slaves \ {i} : ServerOK(m)' /\ ClientOK(m)'
<1> SUFFICES ASSUME NEW m \in Slaves \ {i} PROVE ServerOK(m)' /\ ClientOK(m)'
  OBVIOUS
<1>1. Types /\ ServerOK(m) /\ ClientOK(m) BY InvParts
<1>2. srv[m] \in Threads /\ cl[m] \in Clients BY <1>1, TypesDef
<1>3. /\ srv'[m].pc = srv[m].pc /\ srv'[m].todo = srv[m].todo /\ srv'[m].streaming = srv[m].streaming
      /\ srv'[m].plist # {} => srv[m].plist # {} \/ srv[m].streaming
      /\ srv'[m] = srv[m] \/ srv[m].streaming
  BY <1>2 DEF Logged, Threads
<1>4. ServerOK(m)'
  <2>1. srv[m].streaming => srv[m].pc # "none" BY <1>1 DEF ServerOK, NoConn
  <2>2. srv'[m].pc = "none" => srv'[m] = NoConn BY <1>1, <1>3, <2>1 DEF ServerOK
  <2>3. srv'[m].plist \cup srv'[m].todo # {} => srv'[m].streaming BY <1>1, <1>3 DEF ServerOK
  <2>4. Asks(m)' <=> Asks(m) BY DEF Asks
  <2> QED BY <1>1, <1>3, <2>2, <2>3, <2>4 DEF ServerOK
<1>5. ClientOK(m)'
  <2>1. \A k \in cl[m].held : k \in Kicks /\ Home(k) # i BY <1>1, <1>2 DEF ClientOK, Clients
  <2>2. \A k \in cl'[m].held : Home(k) = m /\ kick'[k] = "held" BY <1>1, <2>1 DEF ClientOK
  <2> QED BY <1>1, <1>3, <2>2 DEF ClientOK
<1> QED BY <1>4, <1>5

(* To show the invariant after a step of node i.                           *)
LEMMA StepOK ==
  ASSUME TypeInv, NEW i, Types', i \in Slaves => ServerOK(i)' /\ ClientOK(i)',
         \A m \in Slaves \ {i} : /\ up'[m] = up[m] /\ down'[m] = down[m] /\ alive'[m] = alive[m]
                                 /\ cl'[m] = cl[m] /\ Logged(m)
                                 /\ kick[m] = "idle" => kick'[m] = "idle",
         \A k \in Kicks : kick[k] = "held" /\ Home(k) # i => kick'[k] = "held"
  PROVE  TypeInv'
<1>1. \A m \in Slaves \ {i} : ServerOK(m)' /\ ClientOK(m)' BY Others
<1>2. \A m \in Slaves : ServerOK(m)' /\ ClientOK(m)' BY <1>1
<1> QED BY <1>2 DEF TypeInv

(* What log_update, Put and Leave do.                                      *)
LEMMA LogUpdateOK ==
  ASSUME Types, NEW u, NEW n \in Names
  PROVE  /\ log_update(u, n) \in [Slaves -> Threads]
         /\ \A m \in Slaves : log_update(u, n)[m] = IF Up(m) = u /\ srv[m].streaming
                                                    THEN [srv[m] EXCEPT !.plist = @ \cup {n}] ELSE srv[m]
<1>1. \A m \in Slaves : srv[m] \in Threads BY TypesDef
<1>2. \A m \in Slaves : [srv[m] EXCEPT !.plist = @ \cup {n}] \in Threads BY <1>1 DEF Threads
<1> QED BY <1>1, <1>2 DEF log_update

LEMMA LogUpdateLogged ==
  ASSUME Types, NEW u, NEW n \in Names, srv' = log_update(u, n), NEW m \in Slaves
  PROVE  Logged(m)
  BY LogUpdateOK DEF Logged

LEMMA PutOK ==
  ASSUME Types, NEW i \in Slaves, NEW lines \in Seq(Messages), Put(i, lines)
  PROVE  /\ down' \in [Slaves -> Seq(Messages)]
         /\ \A m \in Slaves \ {i} : down'[m] = down[m]
         /\ down'[i] = IF alive[i] THEN down[i] \o lines ELSE down[i]
<1>1. down \in [Slaves -> Seq(Messages)] BY DEF Types
<1>2. down[i] \o lines \in Seq(Messages) BY <1>1
<1> QED BY <1>1, <1>2 DEF Put

LEMMA LeaveOK ==
  ASSUME Types, NEW i \in Slaves, NEW lines \in Seq(Messages), Leave(i, lines)
  PROVE  LET bye == up'[i] = <<>> /\ ~ready[Up(i)]
             all == IF bye THEN Append(lines, BYE) ELSE lines
         IN /\ srv' \in [Slaves -> Threads] /\ alive' \in [Slaves -> BOOLEAN]
            /\ down' \in [Slaves -> Seq(Messages)] /\ all \in Seq(Messages)
            /\ \A m \in Slaves \ {i} : srv'[m] = srv[m] /\ alive'[m] = alive[m] /\ down'[m] = down[m]
            /\ srv'[i].pc = IF up'[i] # <<>> THEN "docmd" ELSE IF bye THEN "none" ELSE "idle"
            /\ srv'[i].streaming = ~bye
            /\ srv'[i].plist = IF bye THEN {} ELSE srv[i].plist
            /\ srv'[i].todo = srv[i].todo
            /\ alive'[i] = (alive[i] /\ ~bye)
            /\ down'[i] = IF alive[i] THEN down[i] \o all ELSE down[i]
<1> DEFINE bye == up'[i] = <<>> /\ ~ready[Up(i)]
           all == IF bye THEN Append(lines, BYE) ELSE lines
<1>1. srv \in [Slaves -> Threads] /\ srv[i] \in Threads /\ alive \in [Slaves -> BOOLEAN]
  BY DEF Types
<1>2. all \in Seq(Messages)
  <2>1. BYE \in Messages BY SignFacts
  <2> HIDE DEF bye
  <2> QED BY <2>1
<1>3. /\ srv' = [srv EXCEPT ![i].pc = IF up'[i] # <<>> THEN "docmd" ELSE IF bye THEN "none" ELSE "idle",
                           ![i].streaming = ~bye, ![i].plist = IF bye THEN {} ELSE @]
      /\ Put(i, all)
      /\ alive' = [alive EXCEPT ![i] = @ /\ ~bye]
  BY DEF Leave
<1> HIDE DEF bye, all
<1>4. /\ down' \in [Slaves -> Seq(Messages)]
      /\ \A m \in Slaves \ {i} : down'[m] = down[m]
      /\ down'[i] = IF alive[i] THEN down[i] \o all ELSE down[i]
  BY <1>2, <1>3, PutOK
<1>5. bye \in BOOLEAN BY DEF bye
<1>6. /\ alive' \in [Slaves -> BOOLEAN] /\ alive'[i] = (alive[i] /\ ~bye)
      /\ \A m \in Slaves \ {i} : alive'[m] = alive[m]
  BY <1>1, <1>3
<1>7. /\ srv'[i].pc = IF up'[i] # <<>> THEN "docmd" ELSE IF bye THEN "none" ELSE "idle"
      /\ srv'[i].streaming = ~bye
      /\ srv'[i].plist = IF bye THEN {} ELSE srv[i].plist
      /\ srv'[i].todo = srv[i].todo
      /\ \A m \in Slaves \ {i} : srv'[m] = srv[m]
      /\ srv' \in [Slaves -> Threads]
  BY <1>1, <1>3, <1>5 DEF Threads
<1> QED BY <1>2, <1>4, <1>6, <1>7 DEF bye, all

LEMMA SetType ==
  ASSUME TypeInv, NEW t \in {"reserve", "activate", "deactivate", "delete"}, NEW n \in Names, cmd_set(t, n)
  PROVE  TypeInv'
<1> DEFINE e == Set(t, ops + 1)
<1>1. Types BY DEF TypeInv
<1>2. ops + 1 \in 0..MaxOps
  <2>1. ops \in 0..MaxOps /\ MaxOps \in Nat BY <1>1, BoundAssumption DEF Types
  <2>2. ops < MaxOps BY DEF cmd_set
  <2> QED BY <2>1, <2>2
<1>3. e \in Entries
  <2>1. Entry("RESERVE", ops + 1) \in Entries /\ Entry("MAILBOX", ops + 1) \in Entries
    BY <1>2 DEF Entry, Entries
  <2> QED BY <2>1, EntryFacts DEF Set
<1> HIDE DEF e
<1>4. /\ db' = [db EXCEPT ![Master][n] = e] /\ ops' = ops + 1
      /\ had' = [k \in Kickers |-> IF kick[k] \in {"wait", "held"}
                                   THEN [had[k] EXCEPT ![n] = @ \cup {e}] ELSE had[k]]
      /\ srv' = log_update(Master, n)
      /\ UNCHANGED <<ready, cl, up, down, alive, kick, faults, fresh, doubt, missed>>
  BY DEF cmd_set, conns, e
<1>5. had' \in [Kickers -> [Names -> SUBSET Entries]]
  <2>1. \A k \in Kickers : had[k] \in [Names -> SUBSET Entries] BY <1>1 DEF Types
  <2>2. \A k \in Kickers : [had[k] EXCEPT ![n] = @ \cup {e}] \in [Names -> SUBSET Entries]
    BY <1>3, <2>1
  <2> QED BY <1>4, <2>1, <2>2
<1>6. db' \in [Nodes -> Lists] BY <1>1, <1>3, <1>4, NodeFacts DEF Types, Lists
<1>7. srv' \in [Slaves -> Threads] BY <1>1, <1>4, LogUpdateOK
<1>8. Types' BY <1>1, <1>2, <1>4, <1>5, <1>6, <1>7 DEF Types
<1>9. \A m \in Slaves : Logged(m) BY <1>1, <1>4, LogUpdateLogged
<1>10. Master \notin Slaves BY NodeFacts
<1> QED BY <1>4, <1>8, <1>9, <1>10, StepOK

LEMMA UpTail ==
  ASSUME Types, NEW i \in Slaves, up[i] # <<>>, up' = [up EXCEPT ![i] = Tail(@)]
  PROVE  /\ up' \in [Slaves -> Seq({"UPDATE", "NOOP"})] /\ up'[i] = Tail(up[i])
         /\ \A m \in Slaves \ {i} : up'[m] = up[m]
         /\ \A j \in 1..Len(up'[i]) : j + 1 \in 1..Len(up[i]) /\ up'[i][j] = up[i][j + 1]
         /\ 1 \in 1..Len(up[i]) /\ up[i][1] = Head(up[i])
<1>1. up[i] \in Seq({"UPDATE", "NOOP"}) BY TypesDef
<1>2. Tail(up[i]) \in Seq({"UPDATE", "NOOP"}) BY <1>1
<1>3. up'[i] = Tail(up[i]) /\ up' \in [Slaves -> Seq({"UPDATE", "NOOP"})] /\ \A m \in Slaves \ {i} : up'[m] = up[m]
  BY <1>2 DEF Types
<1> QED BY <1>1, <1>3

(* Before the stream there is UPDATE on the way and nothing else.          *)
LEMMA UpdateAsks ==
  ASSUME TypeInv, NEW i \in Slaves, srv[i].pc # "none", up[i] # <<>>, Head(up[i]) = "UPDATE"
  PROVE  /\ ~srv[i].streaming /\ srv[i].pc = "idle" /\ srv[i].plist = {} /\ srv[i].todo = {}
         /\ down[i] = <<>> /\ cl[i].pc = "sync" /\ alive[i] /\ cl[i].buf = <<>>
         /\ Tail(up[i]) = <<>>
<1>1. Types /\ ServerOK(i) /\ ClientOK(i) BY InvParts
<1>2. up[i] \in Seq({"UPDATE", "NOOP"}) BY <1>1, TypesDef
<1>3. 1 \in 1..Len(up[i]) /\ up[i][1] = "UPDATE" BY <1>2
<1>4. ~srv[i].streaming BY <1>1, <1>3 DEF ServerOK
<1>5. srv[i].pc = "idle" /\ down[i] = <<>> /\ Asks(i) BY <1>1, <1>4 DEF ServerOK
<1>6. srv[i].plist = {} /\ srv[i].todo = {} BY <1>1, <1>4 DEF ServerOK
<1>7. up[i] = <<"UPDATE">> /\ cl[i].pc = "sync" /\ alive[i] BY <1>5 DEF Asks
<1>8. Tail(up[i]) = <<>> BY <1>7
<1> QED BY <1>1, <1>4, <1>5, <1>6, <1>7, <1>8 DEF ClientOK

LEMMA NoopStreams ==
  ASSUME TypeInv, NEW i \in Slaves, srv[i].pc # "none", up[i] # <<>>, Head(up[i]) = "NOOP"
  PROVE  srv[i].streaming
<1>1. ServerOK(i) BY InvParts
<1> SUFFICES ASSUME ~srv[i].streaming PROVE FALSE OBVIOUS
<1>2. Asks(i) BY <1>1 DEF ServerOK
<1>3. up[i] = <<"UPDATE">> BY <1>2 DEF Asks
<1> QED BY <1>3

LEMMA ThereOK ==
  ASSUME Types, NEW u \in Nodes
  PROVE  /\ There(u) \in Seq(Names) /\ Sorted(There(u)) /\ DOMAIN There(u) = 1..Len(There(u))
         /\ \A j \in 1..Len(There(u)) : db[u][There(u)[j]] # None
         /\ \A n \in Names : db[u][n] # None => \E j \in 1..Len(There(u)) : There(u)[j] = n
<1> DEFINE S == {n \in Names : db[u][n] # None}
           s == There(u)
<1>1. S \in SUBSET Names OBVIOUS
<1>2. s = InOrder(S) BY DEF There
<1>3. \A n \in S : n \in Names /\ db[u][n] # None OBVIOUS
<1>4. \A n \in Names : db[u][n] # None => n \in S OBVIOUS
<1> HIDE DEF S, s
<1>5. s \in Seq(S) /\ Sorted(s) /\ \A n \in S : \E j \in 1..Len(s) : s[j] = n
  BY <1>1, <1>2, InOrderOK
<1>6. DOMAIN s = 1..Len(s) /\ \A j \in 1..Len(s) : s[j] \in S BY <1>5
<1>7. s \in Seq(Names) BY <1>1, <1>5
<1> QED BY <1>3, <1>4, <1>5, <1>6, <1>7 DEF s

LEMMA DumpOK ==
  ASSUME Types, NEW u \in Nodes
  PROVE  /\ Dump(u) \in Seq(Lines) /\ SortedLines(Dump(u))
         /\ \A j \in 1..Len(Dump(u)) : Dump(u)[j].e = db[u][Dump(u)[j].n] /\ Dump(u)[j].e # None
         /\ \A n \in Names : db[u][n] # None => \E j \in 1..Len(Dump(u)) : Dump(u)[j].n = n
<1> DEFINE s == There(u)
           t == Dump(u)
<1>1. /\ s \in Seq(Names) /\ Sorted(s) /\ DOMAIN s = 1..Len(s)
      /\ \A j \in 1..Len(s) : db[u][s[j]] # None
      /\ \A n \in Names : db[u][n] # None => \E j \in 1..Len(s) : s[j] = n
  BY ThereOK
<1>2. t = [j \in 1..Len(s) |-> Line(s[j], db[u][s[j]])] BY <1>1 DEF Dump
<1> HIDE DEF s, t
<1>3. Len(s) \in Nat /\ \A j \in 1..Len(s) : s[j] \in Names /\ db[u][s[j]] \in Entries
  BY <1>1, TypesDef
<1>4. \A j \in 1..Len(s) : t[j] \in Lines /\ t[j].n = s[j] /\ t[j].e = db[u][s[j]]
  BY <1>2, <1>3, EntryFacts
<1>5. t \in Seq(Lines) /\ Len(t) = Len(s)
  <2>1. \A j \in 1..Len(s) : Line(s[j], db[u][s[j]]) \in Lines BY <1>3, EntryFacts
  <2> QED BY <1>2, <1>3, <2>1
<1>6. SortedLines(t) BY <1>1, <1>4, <1>5 DEF Sorted, SortedLines
<1> QED BY <1>1, <1>4, <1>5, <1>6 DEF t

LEMMA StartupdateType == ASSUME TypeInv, NEW i \in Slaves, cmd_startupdate(i) PROVE TypeInv'
<1> DEFINE lines == Append(Dump(Up(i)), OK)
<1>1. Types /\ ServerOK(i) /\ ClientOK(i) BY InvParts
<1>2. /\ srv[i].pc \in {"idle", "docmd"} /\ up[i] # <<>> /\ Head(up[i]) = "UPDATE"
      /\ up' = [up EXCEPT ![i] = Tail(@)] /\ Leave(i, lines) /\ missed' = missed \ {i}
      /\ UNCHANGED <<db, ready, cl, kick, ops, faults, had, fresh, doubt>>
  BY DEF cmd_startupdate, counters, asked
<1>3. lines \in Seq(Messages)
  <2>1. Dump(Up(i)) \in Seq(Messages) BY <1>1, DumpOK, NodeFacts DEF Messages
  <2>2. OK \in Messages BY SignFacts
  <2> QED BY <2>1, <2>2
<1> HIDE DEF lines
<1>4. /\ ~srv[i].streaming /\ srv[i].pc = "idle" /\ srv[i].plist = {} /\ srv[i].todo = {}
      /\ down[i] = <<>> /\ cl[i].pc = "sync" /\ alive[i] /\ cl[i].buf = <<>> /\ Tail(up[i]) = <<>>
  BY <1>2, UpdateAsks
<1>5. up'[i] = <<>> /\ up' \in [Slaves -> Seq({"UPDATE", "NOOP"})] /\ \A m \in Slaves \ {i} : up'[m] = up[m]
  BY <1>1, <1>2, <1>4, UpTail
<1> DEFINE bye == up'[i] = <<>> /\ ~ready[Up(i)]
<1>6. /\ srv' \in [Slaves -> Threads] /\ alive' \in [Slaves -> BOOLEAN]
      /\ down' \in [Slaves -> Seq(Messages)]
      /\ \A m \in Slaves \ {i} : srv'[m] = srv[m] /\ alive'[m] = alive[m] /\ down'[m] = down[m]
      /\ srv'[i].pc = IF up'[i] # <<>> THEN "docmd" ELSE IF bye THEN "none" ELSE "idle"
      /\ srv'[i].streaming = ~bye
      /\ srv'[i].plist = IF bye THEN {} ELSE srv[i].plist
      /\ srv'[i].todo = srv[i].todo
  BY <1>1, <1>2, <1>3, LeaveOK
<1>7. Types'
  <2>1. missed' \subseteq Slaves BY <1>1, <1>2 DEF Types
  <2> QED BY <1>1, <1>2, <1>5, <1>6, <2>1 DEF Types
<1>8. ServerOK(i)'
  <2>1. srv'[i].plist = {} /\ srv'[i].todo = {} BY <1>4, <1>6
  <2>2. srv'[i].pc = "none" => srv'[i] = NoConn
    <3>1. srv'[i] \in Threads BY <1>6
    <3>2. srv'[i].pc = "none" => bye BY <1>5, <1>6
    <3>3. srv'[i].pc = "none" => ~srv'[i].streaming BY <1>6, <3>2
    <3> QED BY <2>1, <3>1, <3>3 DEF NoConn, Threads
  <2>3. srv'[i].pc # "none" => srv'[i].streaming BY <1>5, <1>6
  <2>4. \A j \in 1..Len(up'[i]) : up'[i][j] # "UPDATE" BY <1>5
  <2> QED BY <2>1, <2>2, <2>3, <2>4 DEF ServerOK
<1>9. ClientOK(i)'
  <2>1. kick[i] = "idle" BY <1>1, <1>4 DEF ClientOK
  <2> QED BY <1>1, <1>2, <1>4, <2>1 DEF ClientOK
<1>10. \A m \in Slaves \ {i} : Logged(m) BY <1>6 DEF Logged
<1> QED BY <1>2, <1>5, <1>6, <1>7, <1>8, <1>9, <1>10, StepOK

(* The steps of a thread that serves a stream.                             *)
LEMMA GrabOK ==
  ASSUME Types, NEW i \in Slaves, srv[i].todo = {},
         NEW pc \in {"noop", "noop2", "event", "docmd"}, srv' = Grab(i, pc)
  PROVE  /\ srv' \in [Slaves -> Threads] /\ \A m \in Slaves \ {i} : srv'[m] = srv[m]
         /\ srv'[i].pc = pc /\ srv'[i].todo = srv[i].plist /\ srv'[i].plist = {}
         /\ srv'[i].streaming = srv[i].streaming
         /\ srv'[i].plist \cup srv'[i].todo = srv[i].plist \cup srv[i].todo
<1>1. srv[i] \in Threads /\ srv \in [Slaves -> Threads] BY DEF Types
<1> QED BY <1>1 DEF Grab, Threads

LEMMA GrabServer ==
  ASSUME TypeInv, NEW i \in Slaves, srv[i].todo = {}, srv[i].streaming, srv[i].pc # "none",
         NEW pc \in {"noop", "noop2", "event", "docmd"}, srv' = Grab(i, pc),
         pc = "docmd" => srv[i].plist = {},
         \A j \in 1..Len(up'[i]) : up'[i][j] # "UPDATE"
  PROVE  ServerOK(i)'
<1>1. ServerOK(i) /\ Types BY InvParts
<1> QED BY <1>1, GrabOK DEF ServerOK

LEMMA NoopType == ASSUME TypeInv, NEW i \in Slaves, cmd_noop(i) PROVE TypeInv'
<1>1. Types /\ ServerOK(i) /\ ClientOK(i) BY InvParts
<1>2. /\ srv[i].pc \in {"idle", "docmd"} /\ up[i] # <<>> /\ Head(up[i]) = "NOOP"
      /\ up' = [up EXCEPT ![i] = Tail(@)] /\ srv' = Grab(i, "noop")
      /\ UNCHANGED <<db, ready, cl, down, alive, kick, ops, faults, had, fresh, doubt, missed>>
  BY DEF cmd_noop, counters, history, asked
<1>3. srv[i].streaming BY <1>2, NoopStreams
<1>4. srv[i].todo = {} BY <1>1, <1>2 DEF ServerOK
<1>5. /\ up' \in [Slaves -> Seq({"UPDATE", "NOOP"})] /\ \A m \in Slaves \ {i} : up'[m] = up[m]
      /\ \A j \in 1..Len(up'[i]) : up'[i][j] # "UPDATE"
  <2>1. \A j \in 1..Len(up[i]) : up[i][j] # "UPDATE" BY <1>1, <1>3 DEF ServerOK
  <2>2. /\ up' \in [Slaves -> Seq({"UPDATE", "NOOP"})] /\ \A m \in Slaves \ {i} : up'[m] = up[m]
        /\ \A j \in 1..Len(up'[i]) : j + 1 \in 1..Len(up[i]) /\ up'[i][j] = up[i][j + 1]
    BY <1>1, <1>2, UpTail
  <2>3. ASSUME NEW j \in 1..Len(up'[i]) PROVE up'[i][j] # "UPDATE"
    <3>1. up[i][j + 1] # "UPDATE" BY <2>1, <2>2
    <3> QED BY <2>2, <3>1
  <2> QED BY <2>2, <2>3
<1>6. srv' \in [Slaves -> Threads] /\ \A m \in Slaves \ {i} : srv'[m] = srv[m]
  BY <1>1, <1>2, <1>4, GrabOK
<1>7. ServerOK(i)' BY <1>2, <1>3, <1>4, <1>5, GrabServer
<1>8. ClientOK(i)' BY <1>1, <1>2 DEF ClientOK
<1>9. Types' BY <1>1, <1>2, <1>5, <1>6 DEF Types
<1>10. \A m \in Slaves \ {i} : Logged(m) BY <1>6 DEF Logged
<1> QED BY <1>2, <1>5, <1>7, <1>8, <1>9, <1>10, StepOK

LEMMA EvtType == ASSUME TypeInv, NEW i \in Slaves, sendupdates_evt(i) PROVE TypeInv'
<1>1. Types /\ ServerOK(i) /\ ClientOK(i) BY InvParts
<1> DEFINE pc == IF srv[i].plist = {} THEN "docmd" ELSE "event"
<1>2. /\ srv[i].pc \in {"idle", "docmd"} /\ srv[i].streaming
      /\ srv' = Grab(i, pc)
      /\ UNCHANGED <<db, ready, cl, up, down, alive, kick, ops, faults, had, fresh, doubt, missed>>
  BY DEF sendupdates_evt, counters, history, asked, conns
<1>3. pc \in {"noop", "noop2", "event", "docmd"} /\ (pc = "docmd" => srv[i].plist = {}) OBVIOUS
<1> HIDE DEF pc
<1>4. srv[i].todo = {} BY <1>1, <1>2 DEF ServerOK
<1>5. srv' \in [Slaves -> Threads] /\ \A m \in Slaves \ {i} : srv'[m] = srv[m]
  BY <1>1, <1>2, <1>3, <1>4, GrabOK
<1>6. \A j \in 1..Len(up'[i]) : up'[i][j] # "UPDATE" BY <1>1, <1>2 DEF ServerOK
<1>7. ServerOK(i)' BY <1>2, <1>3, <1>4, <1>6, GrabServer
<1>8. ClientOK(i)' BY <1>1, <1>2 DEF ClientOK
<1>9. Types' BY <1>1, <1>2, <1>5 DEF Types
<1>10. \A m \in Slaves \ {i} : Logged(m) BY <1>5 DEF Logged
<1> QED BY <1>2, <1>7, <1>8, <1>9, <1>10, StepOK

(* What cmd_find does.                                                     *)
LEMMA FindDoes ==
  ASSUME Types, NEW i \in Slaves, cmd_find(i)
  PROVE  \E n \in srv[i].todo :
           /\ n \in Names /\ Line(n, db[Up(i)][n]) \in Lines
           /\ down' \in [Slaves -> Seq(Messages)] /\ srv' \in [Slaves -> Threads]
           /\ \A m \in Slaves \ {i} : srv'[m] = srv[m] /\ down'[m] = down[m]
           /\ srv'[i] = [srv[i] EXCEPT !.todo = @ \ {n}]
           /\ down'[i] = IF alive[i] THEN Append(down[i], Line(n, db[Up(i)][n])) ELSE down[i]
<1>1. PICK n \in srv[i].todo : /\ Put(i, <<Line(n, db[Up(i)][n])>>)
                               /\ srv' = [srv EXCEPT ![i].todo = @ \ {n}]
  BY DEF cmd_find
<1>2. srv \in [Slaves -> Threads] /\ srv[i] \in Threads BY DEF Types
<1>3. n \in Names BY <1>2 DEF Threads
<1>4. db[Up(i)][n] \in Entries BY <1>3, TypesDef, NodeFacts
<1> DEFINE x == Line(n, db[Up(i)][n])
<1>5. x \in Lines BY <1>3, <1>4, EntryFacts
<1> HIDE DEF x
<1>6. <<x>> \in Seq(Messages)
  <2>1. x \in Messages BY <1>5 DEF Messages
  <2> QED BY <2>1
<1>7. /\ down' \in [Slaves -> Seq(Messages)]
      /\ \A m \in Slaves \ {i} : down'[m] = down[m]
      /\ down'[i] = IF alive[i] THEN down[i] \o <<x>> ELSE down[i]
  BY <1>1, <1>6, PutOK DEF x
<1>8. down[i] \o <<x>> = Append(down[i], x)
  <2>1. down[i] \in Seq(Messages) BY TypesDef
  <2> QED BY <1>5, <2>1 DEF Messages
<1>9. /\ srv' \in [Slaves -> Threads] /\ \A m \in Slaves \ {i} : srv'[m] = srv[m]
      /\ srv'[i] = [srv[i] EXCEPT !.todo = @ \ {n}]
  BY <1>1, <1>2 DEF Threads
<1> QED BY <1>3, <1>5, <1>7, <1>8, <1>9 DEF x

LEMMA FindType == ASSUME TypeInv, NEW i \in Slaves, cmd_find(i) PROVE TypeInv'
<1>1. Types /\ ServerOK(i) /\ ClientOK(i) BY InvParts
<1>2. /\ srv[i].pc \in {"noop", "noop2", "event"}
      /\ UNCHANGED <<db, ready, cl, up, alive, kick, ops, faults, had, fresh, doubt, missed>>
  BY DEF cmd_find, counters, history, asked
<1>3. PICK n \in srv[i].todo :
           /\ down' \in [Slaves -> Seq(Messages)] /\ srv' \in [Slaves -> Threads]
           /\ \A m \in Slaves \ {i} : srv'[m] = srv[m] /\ down'[m] = down[m]
           /\ srv'[i] = [srv[i] EXCEPT !.todo = @ \ {n}]
  BY <1>1, FindDoes
<1>4. srv[i] \in Threads BY <1>1, TypesDef
<1>5. /\ srv'[i].pc = srv[i].pc /\ srv'[i].streaming = srv[i].streaming /\ srv'[i].plist = srv[i].plist
      /\ srv'[i].todo \subseteq srv[i].todo
  BY <1>3, <1>4 DEF Threads
<1>6. srv[i].streaming BY <1>1, <1>2 DEF ServerOK
<1>7. ServerOK(i)' BY <1>1, <1>2, <1>5, <1>6 DEF ServerOK
<1>8. ClientOK(i)' BY <1>1, <1>2, <1>5 DEF ClientOK
<1>9. Types' BY <1>1, <1>2, <1>3 DEF Types
<1>10. \A m \in Slaves \ {i} : Logged(m) BY <1>3 DEF Logged
<1> QED BY <1>2, <1>3, <1>7, <1>8, <1>9, <1>10, StepOK

LEMMA SendType == ASSUME TypeInv, NEW i \in Slaves, sendupdates(i) PROVE TypeInv'
<1>1. Types /\ ServerOK(i) /\ ClientOK(i) BY InvParts
<1>2. /\ srv[i].pc \in {"noop", "noop2", "event"} /\ srv[i].todo = {}
      /\ UNCHANGED <<db, ready, cl, up, ops, faults, had, fresh, missed>>
  BY DEF sendupdates, counters
<1>3. srv[i] \in Threads /\ srv \in [Slaves -> Threads] /\ kick \in [Kicks -> {"idle", "wait", "held", "ok", "failed"}]
  BY <1>1 DEF Types
<1>4. srv[i].streaming /\ \A j \in 1..Len(up[i]) : up[i][j] # "UPDATE" BY <1>1, <1>2 DEF ServerOK
<1>5. kick[i] = "idle" BY <1>1, <1>2 DEF ClientOK
<1>6. CASE srv[i].pc = "event" /\ srv' = [srv EXCEPT ![i].pc = "docmd"] /\ UNCHANGED <<down, alive, kick, doubt>>
  <2>1. /\ srv' \in [Slaves -> Threads] /\ \A m \in Slaves \ {i} : srv'[m] = srv[m]
        /\ srv'[i].pc = "docmd" /\ srv'[i].todo = srv[i].todo /\ srv'[i].plist = srv[i].plist
        /\ srv'[i].streaming = srv[i].streaming
    BY <1>3, <1>6 DEF Threads
  <2>2. ServerOK(i)' BY <1>1, <1>2, <1>4, <2>1 DEF ServerOK
  <2>3. ClientOK(i)' BY <1>1, <1>2, <1>5, <1>6 DEF ClientOK
  <2>4. Types' BY <1>1, <1>2, <1>6, <2>1 DEF Types
  <2>5. \A m \in Slaves \ {i} : Logged(m) BY <2>1 DEF Logged
  <2> QED BY <1>2, <1>6, <2>2, <2>3, <2>4, <2>5, StepOK
<1>7. CASE /\ srv[i].pc = "noop" /\ srv' = [srv EXCEPT ![i].pc = "kick"] /\ kick' = [kick EXCEPT ![i] = "wait"]
           /\ UNCHANGED <<down, alive, doubt>>
  <2>1. /\ srv' \in [Slaves -> Threads] /\ \A m \in Slaves \ {i} : srv'[m] = srv[m]
        /\ srv'[i].pc = "kick" /\ srv'[i].todo = srv[i].todo /\ srv'[i].plist = srv[i].plist
        /\ srv'[i].streaming = srv[i].streaming
    BY <1>3, <1>7 DEF Threads
  <2>2. ServerOK(i)' BY <1>1, <1>2, <1>4, <2>1 DEF ServerOK
  <2>3. /\ kick' \in [Kicks -> {"idle", "wait", "held", "ok", "failed"}]
        /\ \A k \in Kicks : k # i => kick'[k] = kick[k]
    BY <1>3, <1>7
  <2>4. \A k \in cl[i].held : k \in Kicks /\ k # i /\ Home(k) = i /\ kick[k] = "held"
    BY <1>1, <1>5, TypesDef DEF ClientOK, Clients
  <2>5. ClientOK(i)'
    <3>1. \A k \in cl'[i].held : Home(k) = i /\ kick'[k] = "held" BY <1>2, <2>3, <2>4
    <3> QED BY <1>1, <1>2, <1>7, <2>1, <3>1 DEF ClientOK
  <2>6. Types' BY <1>1, <1>2, <1>7, <2>1, <2>3 DEF Types
  <2>7. \A m \in Slaves \ {i} : Logged(m) BY <2>1 DEF Logged
  <2>8. \A k \in Kicks : kick[k] = "held" => kick'[k] = "held" BY <1>5, <2>3
  <2>9. \A m \in Slaves \ {i} : kick'[m] = kick[m] BY <2>3, NodeFacts
  <2> QED BY <1>2, <1>7, <2>2, <2>5, <2>6, <2>7, <2>8, <2>9, StepOK
<1>8. CASE srv[i].pc = "noop" /\ srv' = Grab(i, "noop2") /\ doubt' = (doubt \/ Up(i) # Master) /\ UNCHANGED <<down, alive, kick>>
  <2>1. srv' \in [Slaves -> Threads] /\ \A m \in Slaves \ {i} : srv'[m] = srv[m]
    BY <1>1, <1>2, <1>8, GrabOK
  <2>2. ServerOK(i)' BY <1>2, <1>4, <1>8, GrabServer
  <2>3. ClientOK(i)' BY <1>1, <1>2, <1>5, <1>8 DEF ClientOK
  <2>4. Types' BY <1>1, <1>2, <1>8, <2>1 DEF Types
  <2>5. \A m \in Slaves \ {i} : Logged(m) BY <2>1 DEF Logged
  <2> QED BY <1>2, <1>8, <2>2, <2>3, <2>4, <2>5, StepOK
<1>9. CASE srv[i].pc = "noop2" /\ Leave(i, <<OK>>) /\ UNCHANGED <<kick, doubt>>
  <2> DEFINE bye == up'[i] = <<>> /\ ~ready[Up(i)]
             lines == <<OK>>
  <2>1. lines \in Seq(Messages)
    <3>1. OK \in Messages BY SignFacts
    <3> QED BY <3>1
  <2> HIDE DEF lines
  <2>2. /\ srv' \in [Slaves -> Threads] /\ alive' \in [Slaves -> BOOLEAN]
        /\ down' \in [Slaves -> Seq(Messages)]
        /\ \A m \in Slaves \ {i} : srv'[m] = srv[m] /\ alive'[m] = alive[m] /\ down'[m] = down[m]
        /\ srv'[i].pc = IF up'[i] # <<>> THEN "docmd" ELSE IF bye THEN "none" ELSE "idle"
        /\ srv'[i].streaming = ~bye
        /\ srv'[i].plist = IF bye THEN {} ELSE srv[i].plist
        /\ srv'[i].todo = srv[i].todo /\ alive'[i] = (alive[i] /\ ~bye)
    BY <1>1, <1>9, <2>1, LeaveOK DEF lines
  <2>3. Types' BY <1>1, <1>2, <1>9, <2>2 DEF Types
  <2>4. ServerOK(i)'
    <3>1. srv'[i].pc = "none" => srv'[i] = NoConn
      <4>1. srv'[i] \in Threads BY <2>2
      <4>2. srv'[i].pc = "none" => bye BY <2>2
      <4>3. srv'[i].pc = "none" => ~srv'[i].streaming /\ srv'[i].plist = {} /\ srv'[i].todo = {}
        BY <1>2, <2>2, <4>2
      <4> QED BY <4>1, <4>3 DEF NoConn, Threads
    <3>2. srv'[i].pc # "none" => srv'[i].streaming BY <2>2
    <3>3. srv'[i].plist \cup srv'[i].todo # {} => srv'[i].streaming BY <1>2, <2>2
    <3>4. srv'[i].todo = {} BY <1>2, <2>2
    <3> QED BY <1>2, <1>4, <3>1, <3>2, <3>3, <3>4 DEF ServerOK
  <2>5. ClientOK(i)' BY <1>1, <1>2, <1>5, <1>9, <2>2 DEF ClientOK
  <2>6. \A m \in Slaves \ {i} : Logged(m) BY <2>2 DEF Logged
  <2> QED BY <1>2, <1>9, <2>2, <2>3, <2>4, <2>5, <2>6, StepOK
<1> QED BY <1>6, <1>7, <1>8, <1>9 DEF sendupdates

LEMMA KickedType == ASSUME TypeInv, NEW i \in Slaves, kicked(i) PROVE TypeInv'
<1>1. Types /\ ServerOK(i) /\ ClientOK(i) BY InvParts
<1>2. /\ srv[i].pc = "kick" /\ kick[i] \in {"ok", "failed"}
      /\ doubt' = (doubt \/ kick[i] = "failed") /\ kick' = [kick EXCEPT ![i] = "idle"]
      /\ srv' = Grab(i, "noop2")
      /\ UNCHANGED <<db, ready, cl, up, down, alive, ops, faults, had, fresh, missed>>
  BY DEF kicked, counters, conns
<1>3. srv[i].todo = {} /\ srv[i].streaming BY <1>1, <1>2 DEF ServerOK
<1>4. srv' \in [Slaves -> Threads] /\ (\A m \in Slaves \ {i} : srv'[m] = srv[m]) /\ srv'[i].pc = "noop2"
  BY <1>1, <1>2, <1>3, GrabOK
<1>5. \A j \in 1..Len(up'[i]) : up'[i][j] # "UPDATE" BY <1>1, <1>2, <1>3 DEF ServerOK
<1>6. ServerOK(i)' BY <1>2, <1>3, <1>5, GrabServer
<1>7. /\ kick' \in [Kicks -> {"idle", "wait", "held", "ok", "failed"}] /\ kick'[i] = "idle"
      /\ \A k \in Kicks : k # i => kick'[k] = kick[k]
  BY <1>1, <1>2, NodeFacts DEF Types
<1>8. ClientOK(i)'
  <2>1. \A k \in cl[i].held : k \in Kicks /\ k # i /\ Home(k) = i /\ kick[k] = "held"
    BY <1>1, <1>2, TypesDef DEF ClientOK, Clients
  <2>2. \A k \in cl'[i].held : Home(k) = i /\ kick'[k] = "held" BY <1>2, <1>7, <2>1
  <2> QED BY <1>1, <1>2, <1>7, <2>2 DEF ClientOK
<1>9. Types' BY <1>1, <1>2, <1>4, <1>7 DEF Types
<1>10. \A m \in Slaves \ {i} : Logged(m) /\ kick'[m] = kick[m] BY <1>4, <1>7, NodeFacts DEF Logged
<1>11. \A k \in Kicks : kick[k] = "held" => kick'[k] = "held" BY <1>2, <1>7
<1> QED BY <1>2, <1>6, <1>8, <1>9, <1>10, <1>11, StepOK

LEMMA NoConnOK == NoConn \in Threads /\ ~NoConn.streaming /\ NoConn.pc = "none" /\ NoConn.plist = {} /\ NoConn.todo = {}
  BY DEF NoConn, Threads

LEMMA DropType == ASSUME TypeInv, NEW i \in Slaves, drop_idle(i) PROVE TypeInv'
<1>1. Types /\ ServerOK(i) /\ ClientOK(i) BY InvParts
<1> DEFINE lines == <<BYE>>
<1>2. /\ srv[i].pc = "idle" /\ Put(i, lines) /\ alive' = [alive EXCEPT ![i] = FALSE]
      /\ srv' = [srv EXCEPT ![i] = NoConn]
      /\ UNCHANGED <<db, ready, cl, up, kick, ops, faults, had, fresh, doubt, missed>>
  BY DEF drop_idle, counters, history, asked
<1>3. lines \in Seq(Messages)
  <2>1. BYE \in Messages BY SignFacts
  <2> QED BY <2>1
<1> HIDE DEF lines
<1>4. /\ down' \in [Slaves -> Seq(Messages)] /\ \A m \in Slaves \ {i} : down'[m] = down[m]
  BY <1>1, <1>2, <1>3, PutOK
<1>5. srv' \in [Slaves -> Threads] /\ srv'[i] = NoConn /\ \A m \in Slaves \ {i} : srv'[m] = srv[m]
  BY <1>1, <1>2, NoConnOK DEF Types
<1>6. alive' \in [Slaves -> BOOLEAN] /\ ~alive'[i] /\ \A m \in Slaves \ {i} : alive'[m] = alive[m]
  BY <1>1, <1>2 DEF Types
<1>7. ServerOK(i)' BY <1>5, NoConnOK DEF ServerOK
<1>8. ClientOK(i)' BY <1>1, <1>2, <1>6 DEF ClientOK
<1>9. Types' BY <1>1, <1>2, <1>4, <1>5, <1>6 DEF Types
<1>10. \A m \in Slaves \ {i} : Logged(m) BY <1>5 DEF Logged
<1> QED BY <1>2, <1>4, <1>6, <1>7, <1>8, <1>9, <1>10, StepOK

LEMMA FreeType == ASSUME TypeInv, NEW i \in Slaves, conn_free(i) PROVE TypeInv'
<1>1. Types /\ ServerOK(i) /\ ClientOK(i) BY InvParts
<1>2. /\ srv[i].pc \in {"idle", "docmd"} /\ srv' = [srv EXCEPT ![i] = NoConn]
      /\ UNCHANGED <<db, ready, cl, up, down, alive, kick, ops, faults, had, fresh, doubt, missed>>
  BY DEF conn_free, counters, history, asked, conns
<1>3. srv' \in [Slaves -> Threads] /\ srv'[i] = NoConn /\ \A m \in Slaves \ {i} : srv'[m] = srv[m]
  BY <1>1, <1>2, NoConnOK DEF Types
<1>4. ServerOK(i)' BY <1>3, NoConnOK DEF ServerOK
<1>5. ClientOK(i)' BY <1>1, <1>2 DEF ClientOK
<1>6. Types' BY <1>1, <1>2, <1>3 DEF Types
<1>7. \A m \in Slaves \ {i} : Logged(m) BY <1>3 DEF Logged
<1> QED BY <1>2, <1>4, <1>5, <1>6, <1>7, StepOK

LEMMA DownOK == /\ Down \in Clients /\ Down.pc = "down" /\ Down.buf = <<>> /\ Down.held = {}
                /\ [Down EXCEPT !.pc = "sync"] \in Clients
                /\ LET s == [Down EXCEPT !.pc = "sync"]
                   IN s.pc = "sync" /\ s.buf = <<>> /\ s.held = {} /\ ~s.waiting_for_noop
                /\ ~Down.waiting_for_noop
<1>1. Down.pc = "down" /\ Down.buf = <<>> /\ Down.held = {} /\ ~Down.waiting_for_noop BY DEF Down
<1>2. Down \in Clients
  <2>1. <<>> \in Seq(Messages) OBVIOUS
  <2> QED BY <2>1 DEF Down, Clients
<1> DEFINE s == [Down EXCEPT !.pc = "sync"]
<1>3. s \in Clients BY <1>2 DEF Clients
<1>4. s.pc = "sync" /\ s.buf = <<>> /\ s.held = {} /\ ~s.waiting_for_noop BY DEF Down
<1> QED BY <1>1, <1>2, <1>3, <1>4

LEMMA ConnectType == ASSUME TypeInv, NEW i \in Slaves, mupdate_connect(i) PROVE TypeInv'
<1>1. Types /\ ServerOK(i) /\ ClientOK(i) BY InvParts
<1> DEFINE c == [Down EXCEPT !.pc = "sync"]
<1>2. /\ srv[i].pc = "none" /\ cl' = [cl EXCEPT ![i] = c] /\ ready' = [ready EXCEPT ![i] = FALSE]
      /\ srv' = [srv EXCEPT ![i].pc = "idle"] /\ up' = [up EXCEPT ![i] = <<"UPDATE">>]
      /\ down' = [down EXCEPT ![i] = <<>>] /\ alive' = [alive EXCEPT ![i] = TRUE]
      /\ UNCHANGED <<db, kick, ops, faults, had, fresh, doubt, missed>>
  BY DEF mupdate_connect, counters, history, asked
<1>3. c \in Clients /\ c.pc = "sync" /\ c.buf = <<>> /\ c.held = {} BY DownOK
<1> HIDE DEF c
<1>4. cl' \in [Slaves -> Clients] /\ cl'[i] = c /\ \A m \in Slaves \ {i} : cl'[m] = cl[m]
  BY <1>1, <1>2, <1>3 DEF Types
<1>5. srv[i] = NoConn BY <1>1, <1>2 DEF ServerOK
<1>6. /\ srv' \in [Slaves -> Threads] /\ (\A m \in Slaves \ {i} : srv'[m] = srv[m])
      /\ srv'[i].pc = "idle" /\ ~srv'[i].streaming /\ srv'[i].plist = {} /\ srv'[i].todo = {}
  <2>1. srv[i] \in Threads /\ srv \in [Slaves -> Threads] BY <1>1 DEF Types
  <2>2. srv'[i].streaming = srv[i].streaming /\ srv'[i].plist = srv[i].plist /\ srv'[i].todo = srv[i].todo
    BY <1>2, <2>1 DEF Threads
  <2>3. srv' \in [Slaves -> Threads] /\ (\A m \in Slaves \ {i} : srv'[m] = srv[m]) /\ srv'[i].pc = "idle"
    BY <1>2, <2>1 DEF Threads
  <2> QED BY <1>5, <2>2, <2>3, NoConnOK
<1>7. /\ up' \in [Slaves -> Seq({"UPDATE", "NOOP"})] /\ down' \in [Slaves -> Seq(Messages)] /\ alive' \in [Slaves -> BOOLEAN]
      /\ up'[i] = <<"UPDATE">> /\ down'[i] = <<>> /\ alive'[i]
      /\ \A m \in Slaves \ {i} : up'[m] = up[m] /\ down'[m] = down[m] /\ alive'[m] = alive[m]
  BY <1>1, <1>2 DEF Types
<1>8. ready' \in [Nodes -> BOOLEAN] BY <1>1, <1>2 DEF Types
<1>9. ServerOK(i)' BY <1>3, <1>4, <1>6, <1>7 DEF ServerOK, Asks
<1>10. ClientOK(i)'
  <2>1. kick[i] = "idle" BY <1>1, <1>2 DEF ClientOK
  <2> QED BY <1>2, <1>3, <1>4, <2>1 DEF ClientOK
<1>11. Types' BY <1>1, <1>2, <1>4, <1>6, <1>7, <1>8 DEF Types
<1>12. \A m \in Slaves \ {i} : Logged(m) BY <1>6 DEF Logged
<1> QED BY <1>2, <1>4, <1>7, <1>9, <1>10, <1>11, <1>12, StepOK

(* Where the list ends.                                                    *)
LEMMA UptoOK ==
  ASSUME NEW s \in Seq(Messages), Ends(s) # {}
  PROVE  /\ Upto(s) \in 1..Len(s) /\ s[Upto(s)] \in Signs
         /\ \A k \in 1..Upto(s) - 1 : s[k] \notin Signs
         /\ SubSeq(s, 1, Upto(s) - 1) \in Seq(Lines)
         /\ SubSeq(s, Upto(s) + 1, Len(s)) \in Seq(Messages)
<1>1. Len(s) \in Nat OBVIOUS
<1>2. Ends(s) \subseteq 1..Len(s) /\ Ends(s) \subseteq Nat BY DEF Ends
<1>3. PICK x \in Ends(s) : \A y \in Ends(s) : x <= y BY <1>2, LeastIn
<1> DEFINE j == Upto(s)
<1>4. j \in Ends(s) /\ \A y \in Ends(s) : j <= y BY <1>3 DEF Upto
<1> HIDE DEF j
<1>5. j \in 1..Len(s) /\ s[j] \in Signs BY <1>4 DEF Ends, Signs
<1>6. \A k \in 1..j - 1 : k \in 1..Len(s) /\ k < j BY <1>1, <1>5
<1>7. ASSUME NEW k \in 1..j - 1 PROVE s[k] \notin Signs
  <2>1. k \in 1..Len(s) /\ ~(j <= k) BY <1>5, <1>6
  <2>2. k \notin Ends(s) BY <1>4, <2>1
  <2> QED BY <2>1, <2>2 DEF Ends, Signs
<1>8. \A k \in 1..j - 1 : s[k] \in Lines BY <1>6, <1>7, SignFacts
<1>9. SubSeq(s, 1, j - 1) \in Seq(Lines)
  <2>1. j - 1 \in Nat /\ j - 1 <= Len(s) BY <1>1, <1>5
  <2>2. SubSeq(s, 1, j - 1) = [k \in 1..j - 1 |-> s[k]] BY <1>1, <1>5, <2>1
  <2> QED BY <1>8, <2>1, <2>2
<1>10. SubSeq(s, j + 1, Len(s)) \in Seq(Messages) BY <1>1, <1>5
<1> QED BY <1>5, <1>7, <1>9, <1>10 DEF j

(* A step that only changes the place of the client thread.                *)
LEMMA PlaceType ==
  ASSUME TypeInv, NEW i \in Slaves, Types', cl[i].pc # "down",
         UNCHANGED <<srv, up, down, alive, kick>>,
         \A m \in Slaves \ {i} : cl'[m] = cl[m],
         cl'[i].held = cl[i].held,
         cl'[i].pc \notin {"down", "sync"}, cl[i].pc # "sync"
  PROVE  TypeInv'
<1>1. Types /\ ServerOK(i) /\ ClientOK(i) BY InvParts
<1>2. ServerOK(i)' BY <1>1 DEF ServerOK, Asks
<1>3. ClientOK(i)' BY <1>1 DEF ClientOK
<1>4. \A m \in Slaves \ {i} : Logged(m) BY DEF Logged
<1> QED BY <1>2, <1>3, <1>4, StepOK

(* What mupdate_synchronize does with a list.                              *)
LEMMA SyncDoes ==
  ASSUME Types, NEW i \in Slaves, Ends(down[i]) # {},
         LET j == Upto(down[i])
         IN /\ db' = [db EXCEPT ![i] = Merged(There(i), SubSeq(down[i], 1, j - 1), @)]
            /\ cl' = [cl EXCEPT ![i].pc = "synced", ![i].buf = SubSeq(down[i], j + 1, Len(down[i]))],
         down' = [down EXCEPT ![i] = <<>>]
  PROVE  LET j == Upto(down[i])
         IN /\ db' \in [Nodes -> Lists] /\ cl' \in [Slaves -> Clients] /\ down' \in [Slaves -> Seq(Messages)]
            /\ \A m \in Nodes \ {i} : db'[m] = db[m]
            /\ \A m \in Slaves \ {i} : cl'[m] = cl[m] /\ down'[m] = down[m]
            /\ db'[i] = Merged(There(i), SubSeq(down[i], 1, j - 1), db[i])
            /\ cl'[i].pc = "synced" /\ cl'[i].buf = SubSeq(down[i], j + 1, Len(down[i])) /\ down'[i] = <<>>
            /\ cl'[i].held = cl[i].held /\ cl'[i].waiting_for_noop = cl[i].waiting_for_noop
<1> DEFINE j == Upto(down[i])
           p == SubSeq(down[i], 1, j - 1)
           q == SubSeq(down[i], j + 1, Len(down[i]))
           t == There(i)
<1>1. down[i] \in Seq(Messages) /\ cl[i] \in Clients /\ db[i] \in Lists /\ i \in Nodes
  BY TypesDef, NodeFacts
<1>2. p \in Seq(Lines) /\ q \in Seq(Messages) BY <1>1, UptoOK
<1>3. t \in Seq(Names) BY <1>1, ThereOK
<1>4. /\ db' = [db EXCEPT ![i] = Merged(t, p, @)]
      /\ cl' = [cl EXCEPT ![i].pc = "synced", ![i].buf = q]
  OBVIOUS
<1> HIDE DEF j, p, q, t
<1>5. Merged(t, p, db[i]) \in Lists BY <1>1, <1>2, <1>3, MergedOK
<1>6. /\ db' \in [Nodes -> Lists] /\ db'[i] = Merged(t, p, db[i]) /\ \A m \in Nodes \ {i} : db'[m] = db[m]
  BY <1>1, <1>4, <1>5 DEF Types
<1>7. cl' \in [Slaves -> Clients] /\ \A m \in Slaves \ {i} : cl'[m] = cl[m]
  <2>1. [cl[i] EXCEPT !.pc = "synced", !.buf = q] \in Clients BY <1>1, <1>2 DEF Clients
  <2>2. cl' = [cl EXCEPT ![i] = [cl[i] EXCEPT !.pc = "synced", !.buf = q]] BY <1>4 DEF Types
  <2> QED BY <2>1, <2>2 DEF Types
<1>8. cl'[i].pc = "synced" /\ cl'[i].buf = q /\ cl'[i].held = cl[i].held
      /\ cl'[i].waiting_for_noop = cl[i].waiting_for_noop
  BY <1>1, <1>4 DEF Types, Clients
<1>9. down' \in [Slaves -> Seq(Messages)] /\ down'[i] = <<>> /\ \A m \in Slaves \ {i} : down'[m] = down[m]
  BY DEF Types
<1> QED BY <1>6, <1>7, <1>8, <1>9 DEF j, p, q, t

LEMMA SyncType == ASSUME TypeInv, NEW i \in Slaves, mupdate_synchronize(i) PROVE TypeInv'
<1>1. Types /\ ServerOK(i) /\ ClientOK(i) BY InvParts
<1> DEFINE j == Upto(down[i])
<1>2. cl[i].pc = "sync" /\ UNCHANGED <<ready, srv, up, alive, kick, ops, faults, had, fresh>>
  BY DEF mupdate_synchronize, counters
<1>3. CASE /\ Ends(down[i]) # {}
           /\ db' = [db EXCEPT ![i] = Merged(There(i), SubSeq(down[i], 1, j - 1), @)]
           /\ missed' = missed \cup {m \in Slaves : Up(m) = i /\ srv[m].streaming /\ db'[i] # db[i]}
           /\ doubt' = (doubt \/ missed' # {} \/ down[i][j] = BYE)
           /\ cl' = [cl EXCEPT ![i].pc = "synced", ![i].buf = SubSeq(down[i], j + 1, Len(down[i]))]
           /\ down' = [down EXCEPT ![i] = <<>>]
  <2>1. /\ db' \in [Nodes -> Lists] /\ cl' \in [Slaves -> Clients] /\ down' \in [Slaves -> Seq(Messages)]
        /\ \A m \in Slaves \ {i} : cl'[m] = cl[m] /\ down'[m] = down[m]
        /\ cl'[i].pc = "synced" /\ down'[i] = <<>> /\ cl'[i].held = cl[i].held
    BY <1>1, <1>3, SyncDoes
  <2>2. missed' \subseteq Slaves /\ doubt' \in BOOLEAN BY <1>1, <1>3 DEF Types
  <2>3. Types' BY <1>1, <1>2, <2>1, <2>2 DEF Types
  <2>4. down[i] # <<>> BY <1>3 DEF Ends
  <2>5. ServerOK(i)'
    <3>1. srv[i].pc = "none" \/ srv[i].streaming BY <1>1, <2>4 DEF ServerOK
    <3> QED BY <1>1, <1>2, <3>1 DEF ServerOK
  <2>6. ClientOK(i)' BY <1>1, <1>2, <2>1 DEF ClientOK
  <2>7. \A m \in Slaves \ {i} : Logged(m) BY <1>2 DEF Logged
  <2> QED BY <1>2, <2>1, <2>3, <2>5, <2>6, <2>7, StepOK
<1>4. CASE /\ Ends(down[i]) = {} /\ ~alive[i] /\ cl' = [cl EXCEPT ![i] = Down]
           /\ down' = [down EXCEPT ![i] = <<>>] /\ UNCHANGED <<db, doubt, missed>>
  <2>1. /\ cl' \in [Slaves -> Clients] /\ cl'[i] = Down /\ down' \in [Slaves -> Seq(Messages)] /\ down'[i] = <<>>
        /\ \A m \in Slaves \ {i} : cl'[m] = cl[m] /\ down'[m] = down[m]
    BY <1>1, <1>4, DownOK DEF Types
  <2>2. Types' BY <1>1, <1>2, <1>4, <2>1 DEF Types
  <2>3. ServerOK(i)' BY <1>1, <1>2, <1>4, <2>1, DownOK DEF ServerOK, Asks
  <2>4. ClientOK(i)' BY <1>1, <1>2, <1>4, <2>1, DownOK DEF ClientOK
  <2>5. \A m \in Slaves \ {i} : Logged(m) BY <1>2 DEF Logged
  <2> QED BY <1>2, <2>1, <2>2, <2>3, <2>4, <2>5, StepOK
<1> QED BY <1>3, <1>4 DEF mupdate_synchronize

LEMMA ReadyType == ASSUME TypeInv, NEW i \in Slaves, mupdate_ready(i) PROVE TypeInv'
<1>1. Types /\ cl[i] \in Clients BY InvParts, TypesDef
<1>2. /\ cl[i].pc = "synced" /\ ready' = [ready EXCEPT ![i] = TRUE] /\ cl' = [cl EXCEPT ![i].pc = "ready"]
      /\ UNCHANGED <<db, srv, up, down, alive, kick, ops, faults, had, fresh, doubt, missed>>
  BY DEF mupdate_ready, counters, history, asked, conns
<1>3. /\ cl' \in [Slaves -> Clients] /\ cl'[i].pc = "ready" /\ cl'[i].held = cl[i].held
      /\ \A m \in Slaves \ {i} : cl'[m] = cl[m]
  BY <1>1, <1>2 DEF Types, Clients
<1>4. Types' BY <1>1, <1>2, <1>3 DEF Types
<1> QED BY <1>2, <1>3, <1>4, PlaceType

LEMMA OpenType == ASSUME TypeInv, NEW i \in Slaves, open_kick_socket(i) PROVE TypeInv'
<1>1. Types /\ cl[i] \in Clients BY InvParts, TypesDef
<1>2. /\ cl[i].pc = "ready" /\ cl' = [cl EXCEPT ![i].pc = "listen"]
      /\ UNCHANGED <<db, ready, srv, up, down, alive, kick, ops, faults, had, fresh, doubt, missed>>
  BY DEF open_kick_socket, counters, history, asked, conns
<1>3. /\ cl' \in [Slaves -> Clients] /\ cl'[i].pc = "listen" /\ cl'[i].held = cl[i].held
      /\ \A m \in Slaves \ {i} : cl'[m] = cl[m]
  BY <1>1, <1>2 DEF Types, Clients
<1>4. Types' BY <1>1, <1>2, <1>3 DEF Types
<1> QED BY <1>2, <1>3, <1>4, PlaceType

LEMMA InputType == ASSUME TypeInv, NEW i \in Slaves, select_input(i) PROVE TypeInv'
<1>1. Types /\ cl[i] \in Clients BY InvParts, TypesDef
<1> DEFINE b == Waiting(i) # {}
<1>2. /\ cl[i].pc = "listen" /\ cl' = [cl EXCEPT ![i].pc = "scarf", ![i].kset = b]
      /\ UNCHANGED <<db, ready, srv, up, down, alive, kick, ops, faults, had, fresh, doubt, missed>>
  BY DEF select_input, counters, history, asked, conns
<1>3. b \in BOOLEAN OBVIOUS
<1> HIDE DEF b
<1>4. /\ cl' \in [Slaves -> Clients] /\ cl'[i].pc = "scarf" /\ cl'[i].held = cl[i].held
      /\ \A m \in Slaves \ {i} : cl'[m] = cl[m]
  BY <1>1, <1>2, <1>3 DEF Types, Clients
<1>5. Types' BY <1>1, <1>2, <1>4 DEF Types
<1> QED BY <1>2, <1>4, <1>5, PlaceType

(* A NOOP is sent.                                                         *)
LEMMA NoopSent ==
  ASSUME TypeInv, NEW i \in Slaves, cl[i].pc \in {"listen", "scarf"}, NEW b \in BOOLEAN,
         up' = [up EXCEPT ![i] = IF b THEN Append(@, "NOOP") ELSE @]
  PROVE  /\ up' \in [Slaves -> Seq({"UPDATE", "NOOP"})] /\ \A m \in Slaves \ {i} : up'[m] = up[m]
         /\ up'[i] = IF b THEN Append(up[i], "NOOP") ELSE up[i]
         /\ srv[i].pc = "none" \/ srv[i].streaming
         /\ srv[i].streaming => \A j \in 1..Len(up'[i]) : up'[i][j] # "UPDATE"
<1>1. Types /\ ServerOK(i) /\ ClientOK(i) BY InvParts
<1>2. up[i] \in Seq({"UPDATE", "NOOP"}) BY <1>1, TypesDef
<1>3. Append(up[i], "NOOP") \in Seq({"UPDATE", "NOOP"}) BY <1>2
<1>4. /\ up' \in [Slaves -> Seq({"UPDATE", "NOOP"})] /\ \A m \in Slaves \ {i} : up'[m] = up[m]
      /\ up'[i] = IF b THEN Append(up[i], "NOOP") ELSE up[i]
  BY <1>1, <1>2, <1>3 DEF Types
<1>5. srv[i].pc = "none" \/ srv[i].streaming BY <1>1 DEF ServerOK, Asks
<1>6. ASSUME srv[i].streaming, NEW j \in 1..Len(up'[i]) PROVE up'[i][j] # "UPDATE"
  <2>1. \A k \in 1..Len(up[i]) : up[i][k] # "UPDATE" BY <1>1, <1>6 DEF ServerOK
  <2>2. CASE ~b BY <1>4, <2>1, <2>2
  <2>3. CASE b
    <3>1. up'[i] = Append(up[i], "NOOP") BY <1>4, <2>3
    <3>2. j \in 1..Len(up[i]) \/ up'[i][j] = "NOOP" BY <1>2, <3>1
    <3>3. j \in 1..Len(up[i]) => up'[i][j] = up[i][j] BY <1>2, <3>1
    <3> QED BY <2>1, <3>2, <3>3
  <2> QED BY <2>2, <2>3
<1> QED BY <1>4, <1>5, <1>6

LEMMA TimeoutType == ASSUME TypeInv, NEW i \in Slaves, select_timeout(i) PROVE TypeInv'
<1>1. Types /\ ServerOK(i) /\ ClientOK(i) /\ cl[i] \in Clients BY InvParts, TypesDef
<1>2. /\ cl[i].pc = "listen" /\ cl' = [cl EXCEPT ![i].waiting_for_noop = TRUE]
      /\ up' = [up EXCEPT ![i] = Append(@, "NOOP")] /\ doubt' = (doubt \/ Unanswered(i))
      /\ UNCHANGED <<db, ready, srv, down, alive, kick, ops, faults, had, fresh, missed>>
  BY DEF select_timeout, counters
<1>3. /\ cl' \in [Slaves -> Clients] /\ cl'[i].pc = "listen" /\ cl'[i].held = cl[i].held /\ cl'[i].buf = cl[i].buf
      /\ \A m \in Slaves \ {i} : cl'[m] = cl[m]
  BY <1>1, <1>2 DEF Types, Clients
<1>4. /\ up' \in [Slaves -> Seq({"UPDATE", "NOOP"})] /\ \A m \in Slaves \ {i} : up'[m] = up[m]
      /\ srv[i].pc = "none" \/ srv[i].streaming
      /\ srv[i].streaming => \A j \in 1..Len(up'[i]) : up'[i][j] # "UPDATE"
  <2>1. up' = [up EXCEPT ![i] = IF TRUE THEN Append(@, "NOOP") ELSE @] BY <1>2
  <2> QED BY <1>2, <2>1, NoopSent
<1>5. doubt' \in BOOLEAN BY <1>1, <1>2 DEF Unanswered, Types
<1>6. Types' BY <1>1, <1>2, <1>3, <1>4, <1>5 DEF Types
<1>7. ServerOK(i)' BY <1>1, <1>2, <1>4 DEF ServerOK
<1>8. ClientOK(i)' BY <1>1, <1>2, <1>3 DEF ClientOK
<1>9. \A m \in Slaves \ {i} : Logged(m) BY <1>2 DEF Logged
<1> QED BY <1>2, <1>3, <1>4, <1>6, <1>7, <1>8, <1>9, StepOK

(* What Turn does.                                                         *)
Told(i) == IF cl[i].waiting_for_noop THEN cl[i].held ELSE {}
New(i, b) == IF b THEN Waiting(i) ELSE {}

TurnDone(i, buf, b) ==
  /\ cl' \in [Slaves -> Clients] /\ \A m \in Slaves \ {i} : cl'[m] = cl[m]
  /\ cl'[i].pc = "listen" /\ cl'[i].buf = buf /\ cl'[i].waiting_for_noop = b /\ cl'[i].held = New(i, b)
  /\ kick' \in [Kicks -> {"idle", "wait", "held", "ok", "failed"}]
  /\ \A k \in Kicks : kick'[k] = IF k \in Told(i) THEN "ok" ELSE IF k \in New(i, b) THEN "held" ELSE kick[k]
  /\ \A k \in Told(i) : k \in Kicks /\ Home(k) = i /\ kick[k] = "held"
  /\ \A k \in New(i, b) : k \in Kicks /\ Home(k) = i /\ kick[k] = "wait"
  /\ fresh' \in [Kickers -> BOOLEAN]
  /\ \A k \in Kickers : fresh'[k] = IF k \in Told(i) THEN \A n \in Names : db[i][n] \in had[k][n] ELSE fresh[k]
  /\ up' \in [Slaves -> Seq({"UPDATE", "NOOP"})] /\ \A m \in Slaves \ {i} : up'[m] = up[m]
  /\ up'[i] = IF b THEN Append(up[i], "NOOP") ELSE up[i]
  /\ had' = had
  /\ kick'[i] = kick[i]

LEMMA TurnOK ==
  ASSUME TypeInv, NEW i \in Slaves, cl[i].pc \in {"listen", "scarf"}, NEW buf \in Seq(Messages),
         NEW b \in BOOLEAN, Turn(i, buf, b)
  PROVE  TurnDone(i, buf, b)
<1>1. Types /\ ServerOK(i) /\ ClientOK(i) /\ cl[i] \in Clients BY InvParts, TypesDef
<1>2. \A k \in Told(i) : k \in Kicks /\ Home(k) = i /\ kick[k] = "held"
  BY <1>1 DEF ClientOK, Clients, Told
<1>3. \A k \in New(i, b) : k \in Kicks /\ Home(k) = i /\ kick[k] = "wait"
  BY DEF Waiting, Kicks, New
<1>4. /\ cl' = [cl EXCEPT ![i].pc = "listen", ![i].buf = buf, ![i].kset = FALSE,
                         ![i].waiting_for_noop = b, ![i].held = New(i, b)]
      /\ kick' = [k \in DOMAIN kick |-> IF k \in Told(i) THEN "ok" ELSE IF k \in New(i, b) THEN "held" ELSE kick[k]]
      /\ fresh' = [k \in Kickers |-> IF k \in Told(i) THEN \A n \in Names : db[i][n] \in had[k][n] ELSE fresh[k]]
      /\ up' = [up EXCEPT ![i] = IF b THEN Append(@, "NOOP") ELSE @]
      /\ had' = had
  BY DEF Turn, Told, New
<1>5. New(i, b) \subseteq Kicks BY <1>3
<1>6. cl' \in [Slaves -> Clients] /\ \A m \in Slaves \ {i} : cl'[m] = cl[m]
  BY <1>1, <1>4, <1>5 DEF Types, Clients
<1>7. cl'[i].pc = "listen" /\ cl'[i].buf = buf /\ cl'[i].waiting_for_noop = b /\ cl'[i].held = New(i, b)
  BY <1>1, <1>4 DEF Types, Clients
<1>8. /\ kick' \in [Kicks -> {"idle", "wait", "held", "ok", "failed"}]
      /\ \A k \in Kicks : kick'[k] = IF k \in Told(i) THEN "ok" ELSE IF k \in New(i, b) THEN "held" ELSE kick[k]
  BY <1>1, <1>4 DEF Types
<1>9. /\ fresh' \in [Kickers -> BOOLEAN]
      /\ \A k \in Kickers : fresh'[k] = IF k \in Told(i) THEN \A n \in Names : db[i][n] \in had[k][n] ELSE fresh[k]
  BY <1>1, <1>4 DEF Types
<1>10. /\ up' \in [Slaves -> Seq({"UPDATE", "NOOP"})] /\ \A m \in Slaves \ {i} : up'[m] = up[m]
       /\ up'[i] = IF b THEN Append(up[i], "NOOP") ELSE up[i]
  BY <1>4, NoopSent
<1>11. kick'[i] = kick[i]
  <2>1. i \in Kicks /\ Home(i) # i BY NodeFacts
  <2> QED BY <1>2, <1>3, <1>8, <2>1
<1> QED BY <1>2, <1>3, <1>4, <1>6, <1>7, <1>8, <1>9, <1>10, <1>11 DEF TurnDone

(* The invariant after a turn.                                             *)
LEMMA TurnType ==
  ASSUME TypeInv, NEW i \in Slaves, cl[i].pc \in {"listen", "scarf"}, NEW buf \in Seq(Messages),
         NEW b \in BOOLEAN, Turn(i, buf, b), down' \in [Slaves -> Seq(Messages)], doubt' \in BOOLEAN,
         \A m \in Slaves \ {i} : down'[m] = down[m],
         UNCHANGED <<db, ready, srv, alive, ops, faults, missed>>
  PROVE  TypeInv'
<1>1. Types /\ ServerOK(i) /\ ClientOK(i) /\ cl[i] \in Clients BY InvParts, TypesDef
<1>2. /\ cl' \in [Slaves -> Clients] /\ \A m \in Slaves \ {i} : cl'[m] = cl[m]
      /\ cl'[i].pc = "listen" /\ cl'[i].held = New(i, b)
      /\ kick' \in [Kicks -> {"idle", "wait", "held", "ok", "failed"}]
      /\ \A k \in Kicks : kick'[k] = IF k \in Told(i) THEN "ok" ELSE IF k \in New(i, b) THEN "held" ELSE kick[k]
      /\ \A k \in Told(i) : k \in Kicks /\ Home(k) = i /\ kick[k] = "held"
      /\ \A k \in New(i, b) : k \in Kicks /\ Home(k) = i /\ kick[k] = "wait"
      /\ fresh' \in [Kickers -> BOOLEAN]
      /\ up' \in [Slaves -> Seq({"UPDATE", "NOOP"})] /\ \A m \in Slaves \ {i} : up'[m] = up[m]
      /\ had' = had /\ kick'[i] = kick[i]
  <2>1. TurnDone(i, buf, b) BY TurnOK
  <2> QED BY <2>1 DEF TurnDone
<1>3. up' = [up EXCEPT ![i] = IF b THEN Append(@, "NOOP") ELSE @] BY DEF Turn
<1>4. /\ srv[i].pc = "none" \/ srv[i].streaming
      /\ srv[i].streaming => \A j \in 1..Len(up'[i]) : up'[i][j] # "UPDATE"
  BY <1>3, NoopSent
<1>5. Types' BY <1>1, <1>2 DEF Types
<1>6. ServerOK(i)' BY <1>1, <1>4 DEF ServerOK
<1>7. ClientOK(i)'
  <2>1. \A k \in New(i, b) : Home(k) = i /\ kick'[k] = "held" BY <1>2
  <2> QED BY <1>1, <1>2, <2>1 DEF ClientOK
<1>8. \A m \in Slaves \ {i} : Logged(m) BY DEF Logged
<1>9. \A m \in Slaves \ {i} : kick[m] = "idle" => kick'[m] = "idle" BY <1>2, NodeFacts
<1>10. \A k \in Kicks : kick[k] = "held" /\ Home(k) # i => kick'[k] = "held" BY <1>2
<1> QED BY <1>2, <1>5, <1>6, <1>7, <1>8, <1>9, <1>10, StepOK

LEMMA SelectKickType == ASSUME TypeInv, NEW i \in Slaves, select_kick(i) PROVE TypeInv'
<1>1. Types /\ cl[i] \in Clients BY InvParts, TypesDef
<1>2. /\ cl[i].pc = "listen" /\ Turn(i, cl[i].buf, TRUE)
      /\ doubt' = (doubt \/ cl[i].waiting_for_noop \/ Unanswered(i))
      /\ UNCHANGED <<db, ready, srv, down, alive, ops, faults, missed>>
  BY DEF select_kick, counters
<1>3. cl[i].buf \in Seq(Messages) /\ cl[i].waiting_for_noop \in BOOLEAN BY <1>1 DEF Clients
<1>4. doubt' \in BOOLEAN BY <1>1, <1>2, <1>3 DEF Unanswered, Types
<1>5. down' \in [Slaves -> Seq(Messages)] BY <1>1, <1>2 DEF Types
<1> QED BY <1>2, <1>3, <1>4, <1>5, TurnType

(* The five things mupdate_scarf may find.                                 *)
Src(i) == IF cl[i].buf # <<>> THEN cl[i].buf ELSE down[i]
ScarfRead(i) == /\ Src(i) # <<>> /\ alive' = alive
                /\ down' = [down EXCEPT ![i] = IF cl[i].buf # <<>> THEN @ ELSE <<>>]
ScarfLine(i) == /\ ScarfRead(i) /\ Head(Src(i)) \notin Signs
                /\ cmd_change(i, Head(Src(i))) /\ cl' = [cl EXCEPT ![i].buf = Tail(Src(i))]
                /\ UNCHANGED <<up, kick, had, fresh, doubt>>
ScarfSkip(i) == /\ ScarfRead(i) /\ Head(Src(i)) = OK /\ ~cl[i].waiting_for_noop
                /\ cl' = [cl EXCEPT ![i].buf = Tail(Src(i))]
                /\ UNCHANGED <<db, srv, up, kick, had, fresh, doubt>>
ScarfSign(i) == /\ ScarfRead(i) /\ Head(Src(i)) \in Signs
                /\ Head(Src(i)) = BYE \/ cl[i].waiting_for_noop
                /\ Turn(i, Tail(Src(i)), cl[i].kset)
                /\ doubt' = (doubt \/ Head(Src(i)) = BYE \/ (cl[i].kset /\ Unanswered(i)
                                                              /\ Ends(Tail(Src(i)) \o down'[i]) # {}))
                /\ UNCHANGED <<db, srv>>
ScarfDry(i) == /\ Src(i) = <<>> /\ alive[i] /\ ~cl[i].waiting_for_noop /\ Turn(i, <<>>, cl[i].kset)
               /\ UNCHANGED <<db, srv, down, alive, doubt>>
ScarfBroken(i) == /\ Src(i) = <<>> /\ ~alive[i] /\ Broken(i)
                  /\ UNCHANGED <<db, srv, had, fresh, doubt>>

LEMMA ScarfCases ==
  ASSUME NEW i \in Slaves, mupdate_scarf(i)
  PROVE  /\ cl[i].pc = "scarf" /\ UNCHANGED <<ready, ops, faults, missed>>
         /\ ScarfLine(i) \/ ScarfSkip(i) \/ ScarfSign(i) \/ ScarfDry(i) \/ ScarfBroken(i)
<1>1. cl[i].pc = "scarf" /\ UNCHANGED <<ready, ops, faults, missed>>
  BY DEF mupdate_scarf, counters
<1>2. CASE Src(i) # <<>>
  <2>1. ScarfRead(i) BY <1>2 DEF mupdate_scarf, ScarfRead, Src
  <2>2. CASE Head(Src(i)) \notin Signs
    <3>1. ScarfLine(i) BY <1>2, <2>1, <2>2 DEF mupdate_scarf, ScarfLine, Src, Signs, asked
    <3> QED BY <1>1, <3>1
  <2>3. CASE Head(Src(i)) \in Signs /\ (Head(Src(i)) = BYE \/ cl[i].waiting_for_noop)
    <3>1. ScarfSign(i) BY <1>2, <2>1, <2>3 DEF mupdate_scarf, ScarfSign, Src, Signs
    <3> QED BY <1>1, <3>1
  <2>4. CASE Head(Src(i)) = OK /\ ~cl[i].waiting_for_noop
    <3>1. Head(Src(i)) \in Signs /\ Head(Src(i)) # BYE BY <2>4, SignFacts
    <3>2. ScarfSkip(i) BY <1>2, <2>1, <2>4, <3>1 DEF mupdate_scarf, ScarfSkip, Src, Signs, asked
    <3> QED BY <1>1, <3>2
  <2> QED BY <2>2, <2>3, <2>4 DEF Signs
<1>3. CASE Src(i) = <<>>
  <2>1. ScarfDry(i) \/ ScarfBroken(i) BY <1>3 DEF mupdate_scarf, ScarfDry, ScarfBroken, Src, asked
  <2> QED BY <1>1, <2>1
<1> QED BY <1>2, <1>3

LEMMA ReadOK ==
  ASSUME Types, NEW i \in Slaves, ScarfRead(i)
  PROVE  /\ down' \in [Slaves -> Seq(Messages)] /\ \A m \in Slaves \ {i} : down'[m] = down[m]
         /\ down'[i] = IF cl[i].buf # <<>> THEN down[i] ELSE <<>>
         /\ Src(i) \in Seq(Messages) /\ Head(Src(i)) \in Messages /\ Tail(Src(i)) \in Seq(Messages)
         /\ Sent(i) = <<Head(Src(i))>> \o (Tail(Src(i)) \o down'[i])
         /\ Sent(i) \in Seq(Messages)
<1>1. down[i] \in Seq(Messages) /\ down \in [Slaves -> Seq(Messages)] /\ cl[i] \in Clients
  BY TypesDef DEF Types
<1>2. cl[i].buf \in Seq(Messages) BY <1>1 DEF Clients
<1>3. down' = [down EXCEPT ![i] = IF cl[i].buf # <<>> THEN @ ELSE <<>>] /\ Src(i) # <<>>
  BY DEF ScarfRead
<1>4. /\ down' \in [Slaves -> Seq(Messages)] /\ \A m \in Slaves \ {i} : down'[m] = down[m]
      /\ down'[i] = IF cl[i].buf # <<>> THEN down[i] ELSE <<>>
  BY <1>1, <1>3
<1>5. Src(i) \in Seq(Messages) BY <1>1, <1>2 DEF Src
<1> DEFINE s == Src(i)
<1>6. Sent(i) = s \o down'[i]
  <2>1. CASE cl[i].buf # <<>> BY <1>4, <2>1 DEF Sent, Src
  <2>2. CASE cl[i].buf = <<>>
    <3>1. Sent(i) = down[i] BY <1>1, <2>2 DEF Sent
    <3>2. s = down[i] BY <2>2 DEF Src
    <3>3. down'[i] = <<>> BY <1>4, <2>2
    <3> QED BY <1>1, <3>1, <3>2, <3>3
  <2> QED BY <2>1, <2>2
<1> HIDE DEF s
<1>7. s \in Seq(Messages) /\ s # <<>> /\ down'[i] \in Seq(Messages) BY <1>3, <1>4, <1>5 DEF s
<1>8. Head(s) \in Messages /\ Tail(s) \in Seq(Messages) /\ s = <<Head(s)>> \o Tail(s) BY <1>7
<1>9. Sent(i) = <<Head(s)>> \o (Tail(s) \o down'[i]) BY <1>6, <1>7, <1>8
<1>10. Sent(i) \in Seq(Messages) BY <1>6, <1>7
<1> QED BY <1>4, <1>5, <1>8, <1>9, <1>10 DEF s

(* What cmd_change does.                                                   *)
LEMMA ChangeOK ==
  ASSUME Types, NEW i \in Slaves, NEW x \in Lines, cmd_change(i, x)
  PROVE  /\ db' \in [Nodes -> Lists] /\ \A m \in Nodes \ {i} : db'[m] = db[m]
         /\ db'[i] = [db[i] EXCEPT ![x.n] = x.e]
         /\ srv' \in [Slaves -> Threads] /\ \A m \in Slaves : Logged(m)
         /\ srv'[i] = srv[i]
         /\ srv' = log_update(i, x.n) \/ (srv' = srv /\ db'[i] = db[i])
<1>1. x.n \in Names /\ x.e \in Entries /\ i \in Nodes /\ db \in [Nodes -> Lists] /\ db[i] \in Lists
  BY SignFacts, NodeFacts, TypesDef DEF Types
<1>2. db' = [db EXCEPT ![i][x.n] = x.e] /\ srv' = IF x.e = None /\ db[i][x.n] = None THEN srv ELSE log_update(i, x.n)
  BY DEF cmd_change
<1>3. /\ db' \in [Nodes -> Lists] /\ \A m \in Nodes \ {i} : db'[m] = db[m]
      /\ db'[i] = [db[i] EXCEPT ![x.n] = x.e]
  BY <1>1, <1>2 DEF Lists
<1>4. CASE srv' = log_update(i, x.n)
  <2>1. srv' \in [Slaves -> Threads] BY <1>1, <1>4, LogUpdateOK
  <2>2. \A m \in Slaves : Logged(m) BY <1>1, <1>4, LogUpdateLogged
  <2>3. srv'[i] = srv[i]
    <3>1. Up(i) # i BY NodeFacts DEF Up
    <3>2. srv' = [m \in Slaves |-> IF Up(m) = i /\ srv[m].streaming
                                   THEN [srv[m] EXCEPT !.plist = @ \cup {x.n}] ELSE srv[m]]
      BY <1>4 DEF log_update
    <3> QED BY <3>1, <3>2
  <2> QED BY <1>3, <1>4, <2>1, <2>2, <2>3
<1>5. CASE srv' = srv /\ x.e = None /\ db[i][x.n] = None
  <2>1. db'[i] = db[i] BY <1>1, <1>3, <1>5 DEF Lists
  <2> QED BY <1>3, <1>5, <2>1 DEF Logged, Types
<1> QED BY <1>2, <1>4, <1>5

(* What Broken does.                                                       *)
BrokenDone(i) ==
  /\ cl' \in [Slaves -> Clients] /\ cl'[i] = Down /\ \A m \in Slaves \ {i} : cl'[m] = cl[m]
  /\ kick' \in [Kicks -> {"idle", "wait", "held", "ok", "failed"}]
  /\ \A k \in Kicks : kick'[k] = IF Home(k) = i /\ kick[k] \in {"wait", "held"} THEN "failed" ELSE kick[k]
  /\ alive' \in [Slaves -> BOOLEAN] /\ ~alive'[i]
  /\ up' \in [Slaves -> Seq({"UPDATE", "NOOP"})] /\ up'[i] = <<>>
  /\ down' \in [Slaves -> Seq(Messages)] /\ down'[i] = <<>>
  /\ \A m \in Slaves \ {i} : up'[m] = up[m] /\ down'[m] = down[m] /\ alive'[m] = alive[m]
  /\ kick'[i] = kick[i]

LEMMA BrokenOK == ASSUME Types, NEW i \in Slaves, Broken(i) PROVE BrokenDone(i)
<1>1. /\ cl' = [cl EXCEPT ![i] = Down] /\ alive' = [alive EXCEPT ![i] = FALSE]
      /\ kick' = [k \in DOMAIN kick |-> IF Home(k) = i /\ kick[k] \in {"wait", "held"} THEN "failed" ELSE kick[k]]
      /\ up' = [up EXCEPT ![i] = <<>>] /\ down' = [down EXCEPT ![i] = <<>>]
  BY DEF Broken
<1>2. cl' \in [Slaves -> Clients] /\ cl'[i] = Down /\ \A m \in Slaves \ {i} : cl'[m] = cl[m]
  BY <1>1, DownOK DEF Types
<1>3. /\ kick' \in [Kicks -> {"idle", "wait", "held", "ok", "failed"}]
      /\ \A k \in Kicks : kick'[k] = IF Home(k) = i /\ kick[k] \in {"wait", "held"} THEN "failed" ELSE kick[k]
  BY <1>1 DEF Types
<1>4. /\ alive' \in [Slaves -> BOOLEAN] /\ ~alive'[i]
      /\ up' \in [Slaves -> Seq({"UPDATE", "NOOP"})] /\ up'[i] = <<>>
      /\ down' \in [Slaves -> Seq(Messages)] /\ down'[i] = <<>>
      /\ \A m \in Slaves \ {i} : up'[m] = up[m] /\ down'[m] = down[m] /\ alive'[m] = alive[m]
  BY <1>1 DEF Types
<1>5. kick'[i] = kick[i] BY <1>3, NodeFacts
<1> QED BY <1>2, <1>3, <1>4, <1>5 DEF BrokenDone

LEMMA BrokenType ==
  ASSUME TypeInv, NEW i \in Slaves, Broken(i), cl[i].pc # "sync", cl[i].pc # "down",
         UNCHANGED <<db, ready, srv, ops, had, fresh, doubt, missed>>, faults' \in Nat
  PROVE  TypeInv'
<1>1. Types /\ ServerOK(i) /\ ClientOK(i) BY InvParts
<1>2. BrokenDone(i) BY <1>1, BrokenOK
<1>3. Types' BY <1>1, <1>2 DEF Types, BrokenDone
<1>4. srv[i].pc = "none" \/ srv[i].streaming BY <1>1 DEF ServerOK, Asks
<1>5. ServerOK(i)' BY <1>1, <1>2, <1>4 DEF ServerOK, BrokenDone
<1>6. ClientOK(i)' BY <1>1, <1>2, DownOK DEF ClientOK, BrokenDone
<1>7. \A m \in Slaves \ {i} : Logged(m) BY DEF Logged
<1>8. \A m \in Slaves \ {i} : kick[m] = "idle" => kick'[m] = "idle"
  BY <1>2, NodeFacts DEF BrokenDone
<1>9. \A k \in Kicks : kick[k] = "held" /\ Home(k) # i => kick'[k] = "held" BY <1>2 DEF BrokenDone
<1> QED BY <1>2, <1>3, <1>5, <1>6, <1>7, <1>8, <1>9, StepOK DEF BrokenDone

(* The invariant when a line, or an OK nobody waits for, was read.         *)
LEMMA BufType ==
  ASSUME TypeInv, NEW i \in Slaves, cl[i].pc = "scarf", ScarfRead(i), cl' = [cl EXCEPT ![i].buf = Tail(Src(i))],
         db' \in [Nodes -> Lists], srv' \in [Slaves -> Threads], srv'[i] = srv[i],
         \A m \in Slaves : Logged(m),
         UNCHANGED <<ready, up, alive, kick, ops, faults, had, fresh, doubt, missed>>
  PROVE  TypeInv'
<1>1. Types /\ ServerOK(i) /\ ClientOK(i) /\ cl[i] \in Clients BY InvParts, TypesDef
<1>2. /\ down' \in [Slaves -> Seq(Messages)] /\ \A m \in Slaves \ {i} : down'[m] = down[m]
      /\ Tail(Src(i)) \in Seq(Messages)
  BY <1>1, ReadOK
<1>3. /\ cl' \in [Slaves -> Clients] /\ cl'[i].pc = "scarf" /\ cl'[i].held = cl[i].held
      /\ \A m \in Slaves \ {i} : cl'[m] = cl[m]
  BY <1>1, <1>2 DEF Types, Clients
<1>4. Types' BY <1>1, <1>2, <1>3 DEF Types
<1>5. srv[i].pc = "none" \/ srv[i].streaming BY <1>1 DEF ServerOK, Asks
<1>6. ServerOK(i)' BY <1>1, <1>5 DEF ServerOK
<1>7. ClientOK(i)' BY <1>1, <1>3 DEF ClientOK
<1> QED BY <1>2, <1>3, <1>4, <1>6, <1>7, StepOK

LEMMA ScarfType == ASSUME TypeInv, NEW i \in Slaves, mupdate_scarf(i) PROVE TypeInv'
<1>1. Types /\ cl[i] \in Clients BY InvParts, TypesDef
<1>2. cl[i].pc = "scarf" /\ UNCHANGED <<ready, ops, faults, missed>> BY ScarfCases
<1>3. cl[i].kset \in BOOLEAN /\ cl[i].waiting_for_noop \in BOOLEAN BY <1>1 DEF Clients
<1>4. CASE ScarfLine(i)
  <2>1. ScarfRead(i) /\ Head(Src(i)) \notin Signs /\ cmd_change(i, Head(Src(i)))
    BY <1>4 DEF ScarfLine
  <2>2. Head(Src(i)) \in Lines BY <1>1, <2>1, ReadOK, SignFacts
  <2>3. db' \in [Nodes -> Lists] /\ srv' \in [Slaves -> Threads] /\ srv'[i] = srv[i] /\ \A m \in Slaves : Logged(m)
    BY <1>1, <2>1, <2>2, ChangeOK
  <2>4. cl' = [cl EXCEPT ![i].buf = Tail(Src(i))] /\ UNCHANGED <<up, alive, kick, had, fresh, doubt>>
    BY <1>4 DEF ScarfLine, ScarfRead
  <2> QED BY <1>2, <2>1, <2>3, <2>4, BufType
<1>5. CASE ScarfSkip(i)
  <2>1. /\ ScarfRead(i) /\ cl' = [cl EXCEPT ![i].buf = Tail(Src(i))]
        /\ UNCHANGED <<db, srv, up, alive, kick, had, fresh, doubt>>
    BY <1>5 DEF ScarfSkip, ScarfRead
  <2>2. db' \in [Nodes -> Lists] /\ srv' \in [Slaves -> Threads] /\ \A m \in Slaves : Logged(m)
    BY <1>1, <2>1 DEF Types, Logged
  <2> QED BY <1>2, <2>1, <2>2, BufType
<1>6. CASE ScarfSign(i)
  <2>1. /\ ScarfRead(i) /\ Turn(i, Tail(Src(i)), cl[i].kset) /\ UNCHANGED <<db, srv, alive>>
    BY <1>6 DEF ScarfSign, ScarfRead
  <2>2. doubt' \in BOOLEAN BY <1>1, <1>3, <1>6 DEF ScarfSign, Types
  <2>3. /\ down' \in [Slaves -> Seq(Messages)] /\ \A m \in Slaves \ {i} : down'[m] = down[m]
        /\ Tail(Src(i)) \in Seq(Messages)
    BY <1>1, <2>1, ReadOK
  <2> QED BY <1>2, <1>3, <2>1, <2>2, <2>3, TurnType
<1>7. CASE ScarfDry(i)
  <2>1. Turn(i, <<>>, cl[i].kset) /\ UNCHANGED <<db, srv, down, alive, doubt>>
    BY <1>7 DEF ScarfDry
  <2>2. down' \in [Slaves -> Seq(Messages)] /\ doubt' \in BOOLEAN BY <1>1, <2>1 DEF Types
  <2>3. <<>> \in Seq(Messages) OBVIOUS
  <2> QED BY <1>2, <1>3, <2>1, <2>2, <2>3, TurnType
<1>8. CASE ScarfBroken(i)
  <2>1. faults' \in Nat BY <1>1, <1>2 DEF Types
  <2> QED BY <1>2, <1>8, <2>1, BrokenType DEF ScarfBroken
<1> QED BY <1>4, <1>5, <1>6, <1>7, <1>8, ScarfCases

LEMMA KickType == ASSUME TypeInv, NEW k \in Kickers, kick_mupdate(k) PROVE TypeInv'
<1>1. Types BY DEF TypeInv
<1>2. /\ kick[k] = "idle" /\ kick' = [kick EXCEPT ![k] = "wait"]
      /\ had' = [had EXCEPT ![k] = [n \in Names |-> {db[Master][n]}]]
      /\ UNCHANGED <<db, ready, cl, srv, up, down, alive, ops, faults, fresh, doubt, missed>>
  BY DEF kick_mupdate, conns, counters
<1>3. \A n \in Names : db[Master][n] \in Entries BY <1>1, TypesDef, NodeFacts
<1>4. had' \in [Kickers -> [Names -> SUBSET Entries]] BY <1>1, <1>2, <1>3 DEF Types
<1>5. k \in Kicks /\ k \notin Slaves BY NodeFacts DEF Kicks
<1>6. /\ kick' \in [Kicks -> {"idle", "wait", "held", "ok", "failed"}]
      /\ \A j \in Kicks : j # k => kick'[j] = kick[j]
  BY <1>1, <1>2 DEF Types
<1>7. Types' BY <1>1, <1>2, <1>4, <1>6 DEF Types
<1>8. \A m \in Slaves : Logged(m) BY <1>2 DEF Logged
<1>9. \A m \in Slaves : kick'[m] = kick[m] BY <1>5, <1>6, NodeFacts
<1>10. \A j \in Kicks : kick[j] = "held" => kick'[j] = "held" BY <1>2, <1>6
<1>11. Master \notin Slaves BY NodeFacts
<1> QED BY <1>2, <1>7, <1>8, <1>9, <1>10, <1>11, StepOK

LEMMA LoseType == ASSUME TypeInv, NEW i \in Slaves, lose(i) PROVE TypeInv'
<1>1. Types /\ ServerOK(i) /\ ClientOK(i) BY InvParts
<1>2. /\ alive[i] /\ faults' = faults + 1 /\ alive' = [alive EXCEPT ![i] = FALSE] /\ up' = [up EXCEPT ![i] = <<>>]
      /\ UNCHANGED <<db, ready, cl, srv, kick, ops, had, fresh, doubt, missed>>
  BY DEF lose, Fault, history, asked
<1>3. PICK j \in 0..Len(down[i]) : down' = [down EXCEPT ![i] = SubSeq(@, 1, j)] BY DEF lose
<1>4. down[i] \in Seq(Messages) /\ faults \in Nat BY <1>1, TypesDef DEF Types
<1>5. SubSeq(down[i], 1, j) \in Seq(Messages) /\ (down[i] = <<>> => SubSeq(down[i], 1,
    j) = <<>>) BY <1>4
<1>6. /\ down' \in [Slaves -> Seq(Messages)] /\ (\A m \in Slaves \ {i} : down'[m] = down[m])
      /\ down[i] = <<>> => down'[i] = <<>>
  BY <1>1, <1>3, <1>5 DEF Types
<1>7. /\ alive' \in [Slaves -> BOOLEAN] /\ ~alive'[i]
      /\ up' \in [Slaves -> Seq({"UPDATE", "NOOP"})] /\ up'[i] = <<>>
      /\ \A m \in Slaves \ {i} : up'[m] = up[m] /\ alive'[m] = alive[m]
  BY <1>1, <1>2 DEF Types
<1>8. faults' \in Nat BY <1>2, <1>4
<1>9. Types' BY <1>1, <1>2, <1>6, <1>7, <1>8 DEF Types
<1>10. ServerOK(i)' BY <1>1, <1>2, <1>6, <1>7 DEF ServerOK, Asks
<1>11. ClientOK(i)' BY <1>1, <1>2, <1>7 DEF ClientOK
<1>12. \A m \in Slaves \ {i} : Logged(m) BY <1>2 DEF Logged
<1> QED BY <1>2, <1>6, <1>7, <1>9, <1>10, <1>11, <1>12, StepOK

LEMMA TimeOutType == ASSUME TypeInv, NEW i \in Slaves, time_out(i) PROVE TypeInv'
<1>1. Types BY DEF TypeInv
<1>2. /\ cl[i].pc = "listen" /\ Broken(i) /\ faults' = faults + 1
      /\ UNCHANGED <<db, ready, srv, ops, had, fresh, doubt, missed>>
  BY DEF time_out, Fault, history, asked
<1>3. faults' \in Nat BY <1>1, <1>2 DEF Types
<1> QED BY <1>2, <1>3, BrokenType

(* What a crash does.                                                      *)
CrashDone(i) ==
  /\ cl' \in [Slaves -> Clients] /\ cl'[i] = Down /\ \A m \in Slaves \ {i} : cl'[m] = cl[m]
  /\ ready' \in [Nodes -> BOOLEAN] /\ alive' \in [Slaves -> BOOLEAN]
  /\ up' \in [Slaves -> Seq({"UPDATE", "NOOP"})]
  /\ \A m \in Slaves : /\ alive'[m] = (alive[m] /\ m # i /\ Up(m) # i)
                       /\ up'[m] = IF m = i \/ Up(m) = i THEN <<>> ELSE up[m]
                       /\ srv'[m] = IF Up(m) = i THEN NoConn ELSE srv[m]
                       /\ down'[m] = IF m = i THEN <<>> ELSE down[m]
  /\ down' \in [Slaves -> Seq(Messages)] /\ srv' \in [Slaves -> Threads]
  /\ kick' \in [Kicks -> {"idle", "wait", "held", "ok", "failed"}]
  /\ \A k \in Kicks : kick'[k] = IF k \in Slaves /\ Up(k) = i THEN "idle"
                                 ELSE IF Home(k) = i /\ kick[k] \in {"wait", "held"} THEN "failed" ELSE kick[k]
  /\ UNCHANGED <<db, ops, had, fresh, doubt, missed>> /\ faults' \in Nat

LEMMA CrashOK == ASSUME Types, NEW i \in Slaves, crash(i) PROVE CrashDone(i)
<1>1. /\ cl' = [cl EXCEPT ![i] = Down] /\ ready' = [ready EXCEPT ![i] = FALSE]
      /\ alive' = [j \in Slaves |-> alive[j] /\ j # i /\ Up(j) # i]
      /\ up' = [j \in Slaves |-> IF j = i \/ Up(j) = i THEN <<>> ELSE up[j]]
      /\ down' = [down EXCEPT ![i] = <<>>]
      /\ srv' = [j \in Slaves |-> IF Up(j) = i THEN NoConn ELSE srv[j]]
      /\ kick' = [k \in DOMAIN kick |-> IF k \in Slaves /\ Up(k) = i THEN "idle"
                                        ELSE IF Home(k) = i /\ kick[k] \in {"wait", "held"} THEN "failed"
                                        ELSE kick[k]]
      /\ UNCHANGED <<db, ops, had, fresh, doubt, missed>> /\ faults' = faults + 1
  BY DEF crash, Fault, history, asked
<1>2. cl' \in [Slaves -> Clients] /\ cl'[i] = Down /\ \A m \in Slaves \ {i} : cl'[m] = cl[m]
  BY <1>1, DownOK DEF Types
<1>3. ready' \in [Nodes -> BOOLEAN] /\ alive' \in [Slaves -> BOOLEAN] /\ faults' \in Nat
  <2>1. ready' \in [Nodes -> BOOLEAN] BY <1>1 DEF Types
  <2>2. alive' \in [Slaves -> BOOLEAN]
    <3>1. \A j \in Slaves : (alive[j] /\ j # i /\ Up(j) # i) \in BOOLEAN BY Zenon
    <3> QED BY ONLY <1>1, <3>1
  <2>3. faults' \in Nat BY <1>1 DEF Types
  <2> QED BY <2>1, <2>2, <2>3
<1>4. up' \in [Slaves -> Seq({"UPDATE", "NOOP"})] BY <1>1 DEF Types
<1>5. down' \in [Slaves -> Seq(Messages)] BY <1>1 DEF Types
<1>6. srv' \in [Slaves -> Threads] BY <1>1, NoConnOK DEF Types
<1>7. /\ kick' \in [Kicks -> {"idle", "wait", "held", "ok", "failed"}]
      /\ \A k \in Kicks : kick'[k] = IF k \in Slaves /\ Up(k) = i THEN "idle"
                                     ELSE IF Home(k) = i /\ kick[k] \in {"wait", "held"} THEN "failed" ELSE kick[k]
  BY <1>1 DEF Types
<1>8. \A m \in Slaves : /\ alive'[m] = (alive[m] /\ m # i /\ Up(m) # i)
                        /\ up'[m] = IF m = i \/ Up(m) = i THEN <<>> ELSE up[m]
                        /\ srv'[m] = IF Up(m) = i THEN NoConn ELSE srv[m]
                        /\ down'[m] = IF m = i THEN <<>> ELSE down[m]
  BY <1>1 DEF Types
<1> QED BY <1>1, <1>2, <1>3, <1>4, <1>5, <1>6, <1>7, <1>8 DEF CrashDone

LEMMA CrashType == ASSUME TypeInv, NEW i \in Slaves, crash(i) PROVE TypeInv'
<1>1. Types BY DEF TypeInv
<1>2. CrashDone(i) BY <1>1, CrashOK
<1>3. Types' BY <1>1, <1>2 DEF Types, CrashDone
<1> SUFFICES ASSUME NEW m \in Slaves PROVE ServerOK(m)' /\ ClientOK(m)' BY <1>3 DEF TypeInv
<1>4. ServerOK(m) /\ ClientOK(m) /\ cl[m] \in Clients /\ m \in Kicks
  BY <1>1, InvParts, TypesDef, NodeFacts
<1>5. CASE Up(m) = i
  <2>1. m # i BY <1>5, NodeFacts
  <2>2. srv'[m] = NoConn /\ ~alive'[m] /\ cl'[m] = cl[m] /\ kick'[m] = "idle"
    BY <1>2, <1>4, <1>5, <2>1 DEF CrashDone
  <2>3. ServerOK(m)' BY <2>2, NoConnOK DEF ServerOK
  <2>4. \A k \in cl[m].held : kick'[k] = "held" /\ Home(k) = m
    <3> SUFFICES ASSUME NEW k \in cl[m].held PROVE kick'[k] = "held" /\ Home(k) = m OBVIOUS
    <3>1. k \in Kicks /\ Home(k) = m /\ kick[k] = "held" BY <1>4 DEF ClientOK, Clients
    <3>2. ~(k \in Slaves /\ Up(k) = i) BY <2>1, <3>1, NodeFacts
    <3> QED BY <1>2, <2>1, <3>1, <3>2 DEF CrashDone
  <2>5. ClientOK(m)' BY <1>4, <2>2, <2>4 DEF ClientOK
  <2> QED BY <2>3, <2>5
<1>6. CASE Up(m) # i
  <2>1. srv'[m] = srv[m] BY <1>2, <1>6 DEF CrashDone
  <2>2. kick'[m] = kick[m]
    <3>1. Home(m) # i BY <1>6, NodeFacts
    <3> QED BY <1>2, <1>4, <1>6, <3>1 DEF CrashDone
  <2>3. CASE m = i
    <3>1. cl'[m] = Down /\ ~alive'[m] /\ up'[m] = <<>> /\ down'[m] = <<>>
      BY <1>2, <2>3 DEF CrashDone
    <3>2. ServerOK(m)' BY <1>4, <2>1, <3>1, DownOK DEF ServerOK, Asks
    <3>3. ClientOK(m)' BY <1>4, <2>1, <2>2, <3>1, DownOK DEF ClientOK
    <3> QED BY <3>2, <3>3
  <2>4. CASE m # i
    <3>1. cl'[m] = cl[m] /\ up'[m] = up[m] /\ down'[m] = down[m] BY <1>2, <1>6, <2>4 DEF CrashDone
    <3>2. alive'[m] = alive[m]
      <4>1. alive[m] \in BOOLEAN BY <1>1, TypesDef
      <4> QED BY <1>2, <1>6, <2>4, <4>1 DEF CrashDone
    <3>3. ServerOK(m)' BY <1>4, <2>1, <3>1, <3>2 DEF ServerOK, Asks
    <3>4. \A k \in cl[m].held : kick'[k] = "held" /\ Home(k) = m
      <4> SUFFICES ASSUME NEW k \in cl[m].held PROVE kick'[k] = "held" /\ Home(k) = m OBVIOUS
      <4>1. k \in Kicks /\ Home(k) = m /\ kick[k] = "held" BY <1>4 DEF ClientOK, Clients
      <4>2. ~(k \in Slaves /\ Up(k) = i) BY <2>4, <4>1, NodeFacts
      <4> QED BY <1>2, <2>4, <4>1, <4>2 DEF CrashDone
    <3>5. ClientOK(m)' BY <1>4, <2>1, <2>2, <3>1, <3>2, <3>4 DEF ClientOK
    <3> QED BY <3>3, <3>5
  <2> QED BY <2>3, <2>4
<1> QED BY <1>5, <1>6

LEMMA InitType == Init => TypeInv
<1> SUFFICES ASSUME Init PROVE TypeInv OBVIOUS
<1>1. Types
  <2>1. MaxOps \in Nat BY BoundAssumption
  <2>2. Entry("MAILBOX", 0) \in Entries BY <2>1 DEF Entry, Entries
  <2>3. db \in [Nodes -> Lists] BY <2>2, EntryFacts DEF Init, Lists
  <2>4. cl \in [Slaves -> Clients] /\ srv \in [Slaves -> Threads] BY DownOK, NoConnOK DEF Init
  <2>5. kick \in [Kicks -> {"idle", "wait", "held", "ok", "failed"}] BY DEF Init, Kicks
  <2>6. had \in [Kickers -> [Names -> SUBSET Entries]] BY DEF Init
  <2>7. ready \in [Nodes -> BOOLEAN] BY DEF Init
  <2>8. up \in [Slaves -> Seq({"UPDATE", "NOOP"})] /\ down \in [Slaves -> Seq(Messages)]
    BY DEF Init
  <2>9. alive \in [Slaves -> BOOLEAN] /\ fresh \in [Kickers -> BOOLEAN] BY DEF Init
  <2>10. ops \in 0..MaxOps /\ faults \in Nat BY <2>1 DEF Init
  <2>11. doubt \in BOOLEAN /\ missed \subseteq Slaves BY DEF Init
  <2> QED BY <2>3, <2>4, <2>5, <2>6, <2>7, <2>8, <2>9, <2>10, <2>11 DEF Types
<1>2. ASSUME NEW i \in Slaves PROVE ServerOK(i) /\ ClientOK(i)
  <2>1. cl[i] = Down /\ srv[i] = NoConn /\ ~alive[i] /\ kick[i] = "idle"
    BY NodeFacts DEF Init, Kicks
  <2> QED BY <2>1, DownOK, NoConnOK DEF ServerOK, ClientOK
<1> QED BY <1>1, <1>2 DEF TypeInv

LEMMA NextType == TypeInv /\ [Next]_vars => TypeInv'
<1> SUFFICES ASSUME TypeInv, [Next]_vars PROVE TypeInv' OBVIOUS
<1>1. ASSUME NEW t \in {"reserve", "activate", "deactivate", "delete"}, NEW n \in Names, cmd_set(t, n)
      PROVE  TypeInv'
  BY <1>1, SetType
<1>2. ASSUME NEW i \in Slaves, Serve(i) PROVE TypeInv'
  BY <1>2, StartupdateType, NoopType, EvtType, FindType, SendType, KickedType, FreeType DEF Serve
<1>3. ASSUME NEW i \in Slaves, Follow(i) PROVE TypeInv'
  BY <1>3, ConnectType, SyncType, ReadyType, OpenType, InputType, SelectKickType, TimeoutType,
     ScarfType DEF Follow
<1>4. ASSUME NEW i \in Slaves, drop_idle(i) \/ lose(i) \/ time_out(i) \/ crash(i) PROVE TypeInv'
  BY <1>4, DropType, LoseType, TimeOutType, CrashType
<1>5. ASSUME NEW k \in Kickers, kick_mupdate(k) PROVE TypeInv' BY <1>5, KickType
<1>6. CASE UNCHANGED vars
  BY <1>6 DEF vars, conns, counters, history, asked, TypeInv, Types, ServerOK, ClientOK, Asks
<1> QED BY <1>1, <1>2, <1>3, <1>4, <1>5, <1>6 DEF Next

LEMMA TypeAlways == Spec => []TypeInv
<1>1. Init => TypeInv BY InitType
<1>2. TypeInv /\ [Next]_vars => TypeInv' BY NextType
<1> QED BY <1>1, <1>2, PTL DEF Spec

(* Entries, queues, threads and kicks have their types; a queue exists     *)
(* only with its stream (update_done, log_update), the kicks a client      *)
(* thread holds are not answered yet, and a client thread that gave up has *)
(* closed its connection.                                                  *)
THEOREM TypeCorrect == Spec => []TypeOK
<1>1. TypeInv => TypeOK
  <2> SUFFICES ASSUME TypeInv PROVE TypeOK OBVIOUS
  <2>1. Types BY DEF TypeInv
  <2>2. \A i \in Nodes, n \in Names : db[i][n].t \in {"none", "RESERVE", "MAILBOX"} /\ db[i][n].v \in 0..MaxOps
    BY <2>1, TypesDef DEF Entries
  <2>3. ASSUME NEW i \in Slaves
        PROVE  /\ srv[i].plist \cup srv[i].todo \subseteq Names
               /\ srv[i].plist \cup srv[i].todo # {} => srv[i].streaming
               /\ cl[i].held \subseteq {k \in DOMAIN kick : kick[k] = "held"}
               /\ cl[i].pc = "down" => ~alive[i]
    <3>1. ServerOK(i) /\ ClientOK(i) /\ srv[i] \in Threads /\ cl[i] \in Clients
      BY <2>1, InvParts, TypesDef
    <3>2. srv[i].plist \cup srv[i].todo \subseteq Names BY <3>1 DEF Threads
    <3>3. DOMAIN kick = Kicks BY <2>1 DEF Types
    <3>4. cl[i].held \subseteq {k \in DOMAIN kick : kick[k] = "held"}
      BY <3>1, <3>3 DEF ClientOK, Clients
    <3> QED BY <3>1, <3>2, <3>4 DEF ServerOK, ClientOK
  <2>4. ready \in [Nodes -> BOOLEAN] BY <2>1 DEF Types
  <2> QED BY <2>2, <2>3, <2>4 DEF TypeOK
<1> QED BY <1>1, TypeAlways, PTL

-----------------------------------------------------------------------------
(* No change is lost.                                                      *)

Queue(m) == srv[m].plist \cup srv[m].todo
Base(m) == IF cl[m].pc = "sync" THEN Empty ELSE db[m]

LEMMA ConcatFacts ==
  ASSUME NEW S, NEW a \in Seq(S), NEW b \in Seq(S), NEW c \in Seq(S)
  PROVE  /\ a \o b \in Seq(S) /\ (a \o b) \o c = a \o (b \o c)
         /\ <<>> \o b = b /\ b \o <<>> = b
  OBVIOUS

LEMMA StreamParts ==
  ASSUME StreamInv, NEW m \in Slaves
  PROVE  /\ TypeInv /\ Types /\ ServerOK(m) /\ ClientOK(m) /\ CopyOK(m)
         /\ m \notin missed => InStep(m)
  BY InvParts DEF StreamInv, Streamed

LEMMA SentOK ==
  ASSUME Types, NEW m \in Slaves
  PROVE  /\ cl[m].buf \in Seq(Messages) /\ down[m] \in Seq(Messages) /\ Sent(m) \in Seq(Messages)
         /\ cl[m].buf = <<>> => Sent(m) = down[m]
         /\ Base(m) \in Lists /\ db[m] \in Lists /\ db[Up(m)] \in Lists
<1>1. cl[m] \in Clients /\ down[m] \in Seq(Messages) /\ db[m] \in Lists /\ db[Up(m)] \in Lists
  BY TypesDef, NodeFacts
<1>2. cl[m].buf \in Seq(Messages) BY <1>1 DEF Clients
<1>3. Sent(m) \in Seq(Messages) /\ (cl[m].buf = <<>> => Sent(m) = down[m])
  <2> DEFINE a == cl[m].buf
             b == down[m]
  <2>1. a \in Seq(Messages) /\ b \in Seq(Messages) BY <1>1, <1>2
  <2>2. Sent(m) = a \o b BY DEF Sent
  <2> HIDE DEF a, b
  <2>3. a \o b \in Seq(Messages) /\ <<>> \o b = b BY ONLY <2>1, ConcatFacts
  <2> QED BY <2>2, <2>3 DEF a, b
<1>4. Base(m) \in Lists BY <1>1, EntryFacts DEF Base
<1> QED BY <1>1, <1>2, <1>3, <1>4

(* A stream whose lines stay as they are, when what changed is queued.     *)
LEMMA KeptStep ==
  ASSUME NEW m \in Slaves, InStep(m),
         alive'[m] /\ srv'[m].streaming /\ cl'[m].pc # "down" =>
           /\ alive[m] /\ srv[m].streaming /\ cl[m].pc # "down"
           /\ \A n \in Names : Predicted(m)'[n] = Predicted(m)[n]
           /\ Queue(m) \subseteq Queue(m)'
           /\ \A n \in Names : db'[Up(m)][n] # db[Up(m)][n] => n \in Queue(m)'
  PROVE  InStep(m)'
  BY DEF InStep, Queue

LEMMA CopyKept ==
  ASSUME NEW m \in Slaves, CopyOK(m),
         cl'[m].pc = "sync" => /\ cl[m].pc = "sync" /\ down'[m] = down[m]
                               /\ alive'[m] /\ srv'[m].streaming => alive[m] /\ srv[m].streaming
  PROVE  CopyOK(m)'
  BY DEF CopyOK

(* To show the invariant after a step of node i.                           *)
LEMMA StreamStep ==
  ASSUME StreamInv, TypeInv', NEW i,
         \A m \in Slaves \ {i} : /\ cl'[m] = cl[m] /\ down'[m] = down[m] /\ alive'[m] = alive[m]
                                 /\ db'[m] = db[m] /\ Logged(m),
         \A m \in Slaves \ {i} : m \notin missed' =>
           m \notin missed /\ (srv[m].streaming =>
                                 \A n \in Names : db'[Up(m)][n] # db[Up(m)][n] => n \in srv'[m].plist),
         i \in Slaves => CopyOK(i)' /\ (i \notin missed' => InStep(i)')
  PROVE  StreamInv'
<1>1. ASSUME NEW m \in Slaves \ {i} PROVE CopyOK(m)' /\ (m \notin missed' => InStep(m)')
  <2>1. Types /\ CopyOK(m) /\ (m \notin missed => InStep(m)) /\ srv[m] \in Threads
    BY StreamParts, TypesDef
  <2>2. srv'[m].streaming = srv[m].streaming /\ Queue(m) \subseteq Queue(m)'
    <3>1. CASE srv'[m] = srv[m] BY <3>1 DEF Queue
    <3>2. ASSUME NEW n \in Names, srv'[m] = [srv[m] EXCEPT !.plist = @ \cup {n}]
          PROVE  srv'[m].streaming = srv[m].streaming /\ Queue(m) \subseteq Queue(m)'
      <4>1. /\ srv'[m].streaming = srv[m].streaming /\ srv'[m].todo = srv[m].todo
            /\ srv'[m].plist = srv[m].plist \cup {n}
        BY <2>1, <3>2 DEF Threads
      <4> QED BY <4>1 DEF Queue
    <3>3. Logged(m) OBVIOUS
    <3> QED BY <3>1, <3>2, <3>3 DEF Logged
  <2>3. CopyOK(m)' BY <2>1, <2>2, CopyKept
  <2>4. Predicted(m)' = Predicted(m) BY DEF Predicted, Sent
  <2>5. ASSUME m \notin missed' PROVE InStep(m)'
    <3>1. InStep(m) BY <2>1, <2>5
    <3>2. srv'[m].streaming => \A n \in Names : db'[Up(m)][n] # db[Up(m)][n] => n \in Queue(m)'
      BY <2>2, <2>5 DEF Queue
    <3> QED BY <2>2, <2>4, <3>1, <3>2, KeptStep
  <2> QED BY <2>3, <2>5
<1>2. \A m \in Slaves : CopyOK(m)' /\ (m \notin missed' => InStep(m)') BY <1>1
<1>3. Streamed' BY <1>2 DEF Streamed
<1> QED BY <1>2, <1>3 DEF StreamInv

(* A step that changes no list.                                            *)
LEMMA QuietStep ==
  ASSUME StreamInv, TypeInv', NEW i,
         \A m \in Slaves \ {i} : /\ cl'[m] = cl[m] /\ down'[m] = down[m] /\ alive'[m] = alive[m]
                                 /\ srv'[m] = srv[m],
         db' = db, missed' \cup {i} = missed \cup {i},
         i \in Slaves => CopyOK(i)' /\ (i \notin missed' => InStep(i)')
  PROVE  StreamInv'
<1>1. \A m \in Slaves \ {i} : Logged(m) BY DEF Logged
<1>2. \A m \in Slaves \ {i} : m \notin missed' => m \notin missed OBVIOUS
<1> QED BY <1>1, <1>2, StreamStep

(* A step that changes neither a list nor the lines.                       *)
LEMMA StillStep ==
  ASSUME StreamInv, TypeInv', NEW i \in Slaves,
         \A m \in Slaves \ {i} : cl'[m] = cl[m] /\ srv'[m] = srv[m],
         UNCHANGED <<db, down, missed>>, \A m \in Slaves : alive'[m] = alive[m],
         cl'[i].pc = "sync" <=> cl[i].pc = "sync", cl[i].pc = "down" => cl'[i].pc = "down",
         cl'[i].pc # "down" => cl'[i].buf = cl[i].buf,
         srv'[i].streaming => srv[i].streaming /\ Queue(i) \subseteq Queue(i)'
  PROVE  StreamInv'
<1>1. CopyOK(i) /\ (i \notin missed => InStep(i)) BY StreamParts
<1>2. CopyOK(i)' BY <1>1, CopyKept
<1>3. cl'[i].pc # "down" => Predicted(i)' = Predicted(i) BY DEF Predicted, Sent
<1>4. i \notin missed' => InStep(i)'
  <2> SUFFICES ASSUME i \notin missed' PROVE InStep(i)' OBVIOUS
  <2>1. InStep(i) BY <1>1
  <2> QED BY <1>3, <2>1, KeptStep
<1> QED BY <1>2, <1>4, QuietStep

(* What is sent behind the lines of a stream.                              *)
LEMMA PredictedAfter ==
  ASSUME Types, NEW m \in Slaves, NEW t \in Seq(Messages), down'[m] = down[m] \o t,
         cl'[m] = cl[m], db'[m] = db[m], NEW n \in Names
  PROVE  Predicted(m)'[n] = Apply(Predicted(m), t)[n]
<1>1. cl[m].buf \in Seq(Messages) /\ down[m] \in Seq(Messages) /\ Sent(m) \in Seq(Messages)
  BY SentOK
<1>2. Sent(m)' = Sent(m) \o t
  <2> DEFINE a == cl[m].buf
             b == down[m]
  <2>1. Sent(m) = a \o b /\ Sent(m)' = a \o (b \o t) /\ a \in Seq(Messages) /\ b \in Seq(Messages) BY <1>1 DEF Sent
  <2> HIDE DEF a, b
  <2>2. (a \o b) \o t = a \o (b \o t) BY ONLY <2>1, t \in Seq(Messages), ConcatFacts
  <2> QED BY <2>1, <2>2
<1>3. Predicted(m) = Apply(Base(m), Sent(m)) BY DEF Predicted, Base
<1>4. Predicted(m)' = Apply(Base(m), Sent(m) \o t) BY <1>2 DEF Predicted, Base
<1>5. Apply(Base(m), Sent(m) \o t)[n] = Apply(Apply(Base(m), Sent(m)), t)[n] BY <1>1, ApplyConcat
<1> QED BY <1>3, <1>4, <1>5

LEMMA ApplySigns ==
  ASSUME NEW d, NEW t \in Seq(Messages), \A j \in 1..Len(t) : t[j] \in Signs, NEW n \in Names
  PROVE  Apply(d, t)[n] = d[n]
<1>1. \A j \in 1..Len(t) : t[j].n # n BY SignFacts
<1> QED BY <1>1, ApplyLast

LEMMA CopyAfter ==
  ASSUME TypeInv, NEW m \in Slaves, NEW t \in Seq(Messages), down'[m] = down[m] \o t,
         CopyOK(m), cl'[m] = cl[m], alive[m], srv[m].streaming \/ (t # <<>> /\ t[1] \in Signs),
         srv'[m].streaming => srv[m].streaming, srv[m].pc # "none"
  PROVE  CopyOK(m)'
<1> SUFFICES ASSUME cl[m].pc = "sync" PROVE CopyOK(m)' BY DEF CopyOK
<1> DEFINE s == down[m]
           st == down'[m]
<1>1. s \in Seq(Messages) BY InvParts, TypesDef
<1>2. /\ st = s \o t /\ Len(st) = Len(s) + Len(t) /\ Len(s) \in Nat /\ Len(t) \in Nat
      /\ \A j \in 1..Len(s) : st[j] = s[j] /\ j \in 1..Len(st)
  BY <1>1
<1>3. /\ \A j \in 1..Len(s) : Plain(s, j) =>
           s[j].e # None /\ \A k \in 1..j - 1 : Place(Order, s[k].n) < Place(Order, s[j].n)
      /\ srv[m].streaming => Ends(s) # {}
  BY DEF CopyOK
<1>4. \E j \in 1..Len(st) : st[j] \in Signs /\ j <= Len(s) + 1 /\ (j <= Len(s) \/ ~srv[m].streaming)
  <2>1. CASE srv[m].streaming
    <3>1. PICK j \in 1..Len(s) : s[j] \in Signs BY <1>3, <2>1 DEF Ends, Signs
    <3> QED BY <1>2, <3>1
  <2>2. CASE ~srv[m].streaming
    <3>1. t # <<>> /\ t[1] \in Signs BY <2>2
    <3>2. Len(t) > 0 /\ 1 \in 1..Len(t) BY <3>1
    <3>3. st[Len(s) + 1] = t[1] /\ Len(s) + 1 \in 1..Len(st)
      <4> HIDE DEF s, st
      <4>1. Len(s) + 1 \in 1..Len(st) BY <1>2, <3>2
      <4>2. (s \o t)[Len(s) + 1] = t[1] BY <1>1, <3>2
      <4> QED BY <1>2, <4>1, <4>2
    <3> HIDE DEF s, st
    <3> DEFINE k == Len(s) + 1
    <3>4. k \in 1..Len(st) /\ st[k] \in Signs /\ k <= Len(s) + 1 BY <1>2, <3>1, <3>3
    <3> HIDE DEF k
    <3> QED BY <2>2, <3>4
  <2> QED BY <2>1, <2>2
<1> HIDE DEF s, st
<1>5. ASSUME NEW j \in 1..Len(st), Plain(st, j)
      PROVE  st[j].e # None /\ \A k \in 1..j - 1 : Place(Order, st[k].n) < Place(Order, st[j].n)
  <2>1. j \in 1..Len(s)
    <3>1. PICK k \in 1..Len(st) : st[k] \in Signs /\ k <= Len(s) + 1 BY <1>4
    <3>2. ~(k <= j) BY <1>5, <3>1 DEF Plain
    <3> QED BY <1>2, <3>1, <3>2
  <2>2. Plain(s, j)
    <3>1. \A k \in 1..j : k \in 1..Len(s) BY <1>2, <2>1
    <3> QED BY <1>2, <1>5, <3>1 DEF Plain
  <2>3. s[j].e # None /\ \A k \in 1..j - 1 : Place(Order, s[k].n) < Place(Order, s[j].n)
    BY <1>3, <2>1, <2>2
  <2>4. \A k \in 1..j - 1 : k \in 1..Len(s) BY <1>2, <2>1
  <2> QED BY <1>2, <2>1, <2>3, <2>4
<1>6. srv'[m].streaming => Ends(st) # {}
  <2>1. PICK j \in 1..Len(st) : st[j] \in Signs BY <1>4
  <2> QED BY <2>1 DEF Ends, Signs
<1> QED BY <1>5, <1>6 DEF CopyOK, st

LEMMA ApplySame ==
  ASSUME NEW c, NEW d, NEW t \in Seq(Messages), \A k \in Names : c[k] = d[k], NEW n \in Names
  PROVE  Apply(c, t)[n] = Apply(d, t)[n]
  BY DEF Apply

(* A list, cut behind the element at j.                                    *)
LEMMA SplitAt ==
  ASSUME NEW S, NEW s \in Seq(S), NEW j \in 1..Len(s)
  PROVE  s = SubSeq(s, 1, j - 1) \o (<<s[j]>> \o SubSeq(s, j + 1, Len(s)))
<1> DEFINE p == SubSeq(s, 1, j - 1)
           q == SubSeq(s, j + 1, Len(s))
           o == <<s[j]>>
           r == o \o q
<1>1. Len(s) \in Nat /\ j \in Nat /\ j >= 1 /\ j <= Len(s) OBVIOUS
<1>2. p \in Seq(S) /\ Len(p) = j - 1 /\ \A k \in 1..j - 1 : p[k] = s[k] BY <1>1
<1>3. q \in Seq(S) /\ Len(q) = Len(s) - j /\ \A k \in 1..Len(s) - j : q[k] = s[j + k] BY <1>1
<1>4. o \in Seq(S) /\ Len(o) = 1 /\ o[1] = s[j] OBVIOUS
<1> HIDE DEF p, q, o
<1>5. /\ r \in Seq(S) /\ Len(r) = 1 + Len(q) /\ r[1] = o[1] /\ Len(q) \in Nat
      /\ \A k \in 1..Len(q) : r[1 + k] = q[k]
  <2>1. /\ o \o q \in Seq(S) /\ Len(o \o q) = Len(o) + Len(q) /\ Len(o) \in Nat /\ Len(q) \in Nat
        /\ \A k \in 1..Len(o) : (o \o q)[k] = o[k]
        /\ \A k \in 1..Len(q) : (o \o q)[Len(o) + k] = q[k]
    <3>1. o \in Seq(S) /\ q \in Seq(S) BY <1>3, <1>4
    <3> QED BY ONLY <3>1
  <2> QED BY <1>4, <2>1
<1> HIDE DEF r
<1> DEFINE t == p \o r
<1>6. /\ t \in Seq(S) /\ Len(t) = Len(p) + Len(r)
      /\ \A k \in 1..Len(p) : t[k] = p[k]
      /\ \A k \in 1..Len(r) : t[Len(p) + k] = r[k]
  <2>1. p \in Seq(S) /\ r \in Seq(S) BY <1>2, <1>5
  <2> QED BY <2>1
<1> HIDE DEF t
<1>7. Len(t) = Len(s) BY <1>1, <1>2, <1>3, <1>5, <1>6
<1>8. ASSUME NEW k \in 1..Len(s) PROVE t[k] = s[k]
  <2>1. CASE k < j
    <3>1. k \in 1..j - 1 BY <1>1, <2>1
    <3> QED BY <1>2, <1>6, <3>1
  <2>2. CASE k = j
    <3>1. 1 \in 1..Len(r) /\ Len(p) + 1 = k BY <1>1, <1>2, <1>5, <2>2
    <3>2. t[Len(p) + 1] = r[1] BY <1>6, <3>1
    <3> QED BY <1>4, <1>5, <2>2, <3>1, <3>2
  <2>3. CASE k > j
    <3> DEFINE h == k - j
    <3>1. h \in 1..Len(s) - j /\ j + h = k /\ Len(p) + (1 + h) = k /\ h \in 1..Len(q) /\ 1 + h \in 1..Len(r)
      BY <1>1, <1>2, <1>3, <1>5, <2>3
    <3> HIDE DEF h
    <3>2. t[Len(p) + (1 + h)] = r[1 + h] BY <1>6, <3>1
    <3>3. r[1 + h] = q[h] BY <1>5, <3>1
    <3>4. q[h] = s[j + h] BY <1>3, <3>1
    <3> QED BY <3>1, <3>2, <3>3, <3>4
  <2>4. k < j \/ k = j \/ k > j BY <1>1
  <2> QED BY <2>1, <2>2, <2>3, <2>4
<1>9. t = s BY <1>1, <1>6, <1>7, <1>8
<1> QED BY <1>9 DEF t, r, p, q, o

(* The servers.                                                            *)
LEMMA SetStream ==
  ASSUME StreamInv, TypeInv', NEW t \in {"reserve", "activate", "deactivate", "delete"}, NEW n \in Names, cmd_set(t, n)
  PROVE  StreamInv'
<1> DEFINE e == Set(t, ops + 1)
<1>1. TypeInv /\ Types BY DEF StreamInv, TypeInv
<1>2. /\ db' = [db EXCEPT ![Master][n] = e] /\ srv' = log_update(Master, n)
      /\ UNCHANGED <<cl, down, alive, missed>>
  BY DEF cmd_set, conns
<1> HIDE DEF e
<1>3. \A m \in Slaves : db'[m] = db[m] BY <1>1, <1>2, NodeFacts DEF Types
<1>4. \A m \in Slaves : Logged(m) BY <1>1, <1>2, LogUpdateLogged
<1>5. ASSUME NEW m \in Slaves, srv[m].streaming, NEW p \in Names, db'[Up(m)][p] # db[Up(m)][p]
      PROVE  p \in srv'[m].plist
  <2>1. Up(m) \in Nodes /\ Master \in Nodes /\ db[Master] \in Lists BY <1>1, NodeFacts, TypesDef
  <2>2. Up(m) = Master BY <1>1, <1>2, <1>5, <2>1 DEF Types
  <2>3. p = n BY <1>1, <1>2, <1>5, <2>1, <2>2 DEF Types, Lists
  <2>4. srv'[m] = [srv[m] EXCEPT !.plist = @ \cup {n}] BY <1>1, <1>2, <1>5, <2>2, LogUpdateOK
  <2>5. srv[m] \in Threads BY <1>1, TypesDef
  <2> QED BY <2>3, <2>4, <2>5 DEF Threads
<1>6. Master \notin Slaves BY NodeFacts
<1> QED BY <1>2, <1>3, <1>4, <1>5, <1>6, StreamStep

LEMMA StartupdateStream == ASSUME StreamInv, TypeInv', NEW i \in Slaves, cmd_startupdate(i) PROVE StreamInv'
<1> DEFINE dump == Dump(Up(i))
           lines == Append(dump, OK)
<1>1. TypeInv /\ Types /\ ServerOK(i) /\ ClientOK(i) BY StreamParts
<1>2. /\ srv[i].pc \in {"idle", "docmd"} /\ up[i] # <<>> /\ Head(up[i]) = "UPDATE"
      /\ up' = [up EXCEPT ![i] = Tail(@)] /\ Leave(i, lines) /\ missed' = missed \ {i} /\ UNCHANGED <<db, cl>>
  BY DEF cmd_startupdate
<1>3. /\ dump \in Seq(Lines) /\ SortedLines(dump) /\ dump \in Seq(Messages)
      /\ \A j \in 1..Len(dump) : dump[j].e = db[Up(i)][dump[j].n] /\ dump[j].e # None
      /\ \A n \in Names : db[Up(i)][n] # None => \E j \in 1..Len(dump) : dump[j].n = n
  BY <1>1, DumpOK, NodeFacts DEF Messages
<1>4. down[i] = <<>> /\ cl[i].pc = "sync" /\ alive[i] /\ cl[i].buf = <<>> /\ srv[i].pc # "none"
  BY <1>1, <1>2, UpdateAsks
<1> HIDE DEF dump
<1>5. OK \in Messages /\ OK \in Signs /\ BYE \in Signs /\ BYE \in Messages BY SignFacts
<1>6. lines \in Seq(Messages) BY <1>3, <1>5
<1> DEFINE bye == up'[i] = <<>> /\ ~ready[Up(i)]
           all == IF bye THEN Append(lines, BYE) ELSE lines
<1> HIDE DEF lines
<1>7. /\ \A m \in Slaves \ {i} : srv'[m] = srv[m] /\ alive'[m] = alive[m] /\ down'[m] = down[m]
      /\ srv'[i].streaming = ~bye /\ all \in Seq(Messages)
      /\ alive'[i] = (alive[i] /\ ~bye) /\ down'[i] = IF alive[i] THEN down[i] \o all ELSE down[i]
  BY <1>1, <1>2, <1>6, LeaveOK
<1>8. down'[i] = all
  <2> HIDE DEF all
  <2>1. <<>> \o all = all BY ONLY <1>7, ConcatFacts
  <2> QED BY <1>4, <1>7, <2>1
<1>9. /\ Len(all) \in Nat /\ Len(dump) \in Nat /\ Len(dump) + 1 \in 1..Len(all) /\ all[Len(dump) + 1] = OK
      /\ \A j \in 1..Len(dump) : all[j] = dump[j] /\ dump[j] \in Lines
  <2>1. /\ Len(lines) = Len(dump) + 1 /\ Len(dump) \in Nat /\ lines[Len(dump) + 1] = OK
        /\ \A j \in 1..Len(dump) : lines[j] = dump[j] /\ dump[j] \in Lines
    BY <1>3, <1>5 DEF lines
  <2>2. CASE bye
    <3>1. all = Append(lines, BYE) BY <2>2
    <3>2. Len(all) = Len(lines) + 1 /\ \A j \in 1..Len(lines) : all[j] = lines[j]
      BY <1>5, <1>6, <3>1
    <3> QED BY <2>1, <3>2
  <2>3. CASE ~bye BY <2>1, <2>3
  <2> QED BY <2>2, <2>3
<1> DEFINE k1 == Len(dump) + 1
<1>10. k1 \in 1..Len(all) /\ all[k1] \in Signs /\ \A j \in 1..Len(all) : j < k1 => j \in 1..Len(dump)
  BY <1>5, <1>9
<1> HIDE DEF all, k1
<1>11. CopyOK(i)'
  <2>1. Ends(down'[i]) # {} BY <1>8, <1>10 DEF Ends, Signs
  <2>2. ASSUME NEW j \in 1..Len(all), Plain(all, j)
        PROVE  all[j].e # None /\ \A k \in 1..j - 1 : Place(Order, all[k].n) < Place(Order, all[j].n)
    <3>1. j < k1 BY <1>10, <2>2 DEF Plain
    <3>2. j \in 1..Len(dump) /\ \A k \in 1..j - 1 : k \in 1..Len(dump) /\ k < j
      BY <1>9, <1>10, <3>1
    <3> QED BY <1>3, <1>9, <3>2 DEF SortedLines
  <2> QED BY <1>8, <2>1, <2>2 DEF CopyOK
<1>12. InStep(i)'
  <2> SUFFICES ASSUME ~bye, NEW n \in Names PROVE Predicted(i)'[n] = db'[Up(i)][n]
    BY <1>7 DEF InStep
  <2>1. Sent(i)' = all /\ all = lines
    <3>1. all = lines BY DEF all
    <3>2. <<>> \o all = all BY ONLY <1>7, ConcatFacts
    <3> QED BY <1>2, <1>4, <1>8, <3>1, <3>2 DEF Sent
  <2>2. Predicted(i)' = Apply(Empty, lines) BY <1>2, <1>4, <2>1 DEF Predicted
  <2>3. lines = dump \o <<OK>> BY <1>3, <1>5 DEF lines
  <2>4. Apply(Empty, lines)[n] = Apply(Apply(Empty, dump), <<OK>>)[n]
    <3> DEFINE ok == <<OK>>
    <3>1. ok \in Seq(Messages) BY <1>5
    <3> HIDE DEF ok
    <3>2. Apply(Empty, dump \o ok)[n] = Apply(Apply(Empty, dump), ok)[n]
      BY ONLY <1>3, <3>1, n \in Names, ApplyConcat
    <3> QED BY <2>3, <3>2 DEF ok
  <2>5. Apply(Apply(Empty, dump), <<OK>>)[n] = Apply(Empty, dump)[n]
    <3> DEFINE ok == <<OK>>
               d == Apply(Empty, dump)
    <3>1. ok \in Seq(Messages) /\ \A j \in 1..Len(ok) : ok[j] \in Signs BY <1>5
    <3> HIDE DEF ok, d
    <3>2. Apply(d, ok)[n] = d[n] BY ONLY <3>1, n \in Names, ApplySigns
    <3> QED BY <3>2 DEF ok, d
  <2>6. Apply(Empty, dump)[n] = db[Up(i)][n]
    <3>1. CASE \A j \in 1..Len(dump) : dump[j].n # n
      <4>1. Apply(Empty, dump)[n] = Empty[n] BY ONLY <1>3, <3>1, n \in Names, ApplyLast
      <4>2. db[Up(i)][n] = None BY <1>3, <3>1
      <4> QED BY <4>1, <4>2 DEF Empty
    <3>2. ASSUME NEW j \in 1..Len(dump), dump[j].n = n, \A k \in j + 1..Len(dump) : dump[k].n # n
          PROVE  Apply(Empty, dump)[n] = db[Up(i)][n]
      <4>1. Apply(Empty, dump)[n] = dump[j].e BY ONLY <1>3, <3>2, n \in Names, ApplyLast
      <4> QED BY <1>3, <3>2, <4>1
    <3> QED BY <1>3, <3>1, <3>2, LastLine
  <2> QED BY <1>2, <2>2, <2>4, <2>5, <2>6
<1>13. missed' \cup {i} = missed \cup {i} BY <1>2
<1> QED BY <1>2, <1>7, <1>11, <1>12, <1>13, QuietStep

LEMMA NoopStream == ASSUME StreamInv, TypeInv', NEW i \in Slaves, cmd_noop(i) PROVE StreamInv'
<1>1. TypeInv /\ Types /\ ServerOK(i) BY StreamParts
<1>2. srv[i].pc \in {"idle", "docmd"} /\ srv' = Grab(i, "noop") /\ UNCHANGED <<db, cl, down, alive, missed>>
  BY DEF cmd_noop, history
<1>3. srv[i].todo = {} BY <1>1, <1>2 DEF ServerOK
<1>4. (\A m \in Slaves \ {i} : srv'[m] = srv[m]) /\ srv'[i].streaming = srv[i].streaming /\ Queue(i)' = Queue(i)
  BY <1>1, <1>2, <1>3, GrabOK DEF Queue
<1> QED BY <1>2, <1>4, StillStep

LEMMA EvtStream == ASSUME StreamInv, TypeInv', NEW i \in Slaves, sendupdates_evt(i) PROVE StreamInv'
<1>1. TypeInv /\ Types /\ ServerOK(i) BY StreamParts
<1> DEFINE pc == IF srv[i].plist = {} THEN "docmd" ELSE "event"
<1>2. srv[i].pc \in {"idle", "docmd"} /\ srv' = Grab(i, pc) /\ UNCHANGED <<db, cl, down, alive, missed>>
  BY DEF sendupdates_evt, history, conns
<1>3. srv[i].todo = {} BY <1>1, <1>2 DEF ServerOK
<1>4. pc \in {"noop", "noop2", "event", "docmd"} OBVIOUS
<1> HIDE DEF pc
<1>5. (\A m \in Slaves \ {i} : srv'[m] = srv[m]) /\ srv'[i].streaming = srv[i].streaming /\ Queue(i)' = Queue(i)
  BY <1>1, <1>2, <1>3, <1>4, GrabOK DEF Queue
<1> QED BY <1>2, <1>5, StillStep

LEMMA FindStream == ASSUME StreamInv, TypeInv', NEW i \in Slaves, cmd_find(i) PROVE StreamInv'
<1>1. TypeInv /\ Types /\ ServerOK(i) /\ CopyOK(i) /\ (i \notin missed => InStep(i)) /\ srv[i] \in Threads
  BY StreamParts, TypesDef
<1>2. srv[i].pc \in {"noop", "noop2", "event"} /\ UNCHANGED <<db, cl, alive, missed>>
  BY DEF cmd_find, history
<1>3. PICK n \in srv[i].todo :
        /\ n \in Names /\ Line(n, db[Up(i)][n]) \in Lines
        /\ \A m \in Slaves \ {i} : srv'[m] = srv[m] /\ down'[m] = down[m]
        /\ srv'[i] = [srv[i] EXCEPT !.todo = @ \ {n}]
        /\ down'[i] = IF alive[i] THEN Append(down[i], Line(n, db[Up(i)][n])) ELSE down[i]
  BY <1>1, FindDoes
<1> DEFINE x == Line(n, db[Up(i)][n])
           t == <<x>>
<1>4. srv'[i].streaming = srv[i].streaming /\ srv'[i].plist = srv[i].plist /\ srv'[i].todo = srv[i].todo \ {n}
  BY <1>1, <1>3 DEF Threads
<1>5. srv[i].streaming BY <1>1, <1>2 DEF ServerOK
<1>6. x \in Messages /\ x \notin Signs /\ x.n = n /\ x.e = db[Up(i)][n]
  <2>1. db[Up(i)][n] \in Entries BY <1>1, <1>3, NodeFacts, TypesDef
  <2> QED BY <1>3, <2>1, EntryFacts, SignFacts
<1> HIDE DEF x
<1>7. t \in Seq(Messages) BY <1>6
<1>8. CASE ~alive[i]
  <2>1. CopyOK(i)' BY <1>1, <1>2, <1>3, <1>8, CopyKept
  <2>2. InStep(i)' BY <1>2, <1>8 DEF InStep
  <2> QED BY <1>2, <1>3, <2>1, <2>2, QuietStep
<1>9. CASE alive[i]
  <2>1. down'[i] = down[i] \o t
    <3>1. down[i] \in Seq(Messages) BY <1>1, SentOK
    <3>2. down'[i] = Append(down[i], x) BY <1>3, <1>9 DEF x
    <3>3. Append(down[i], x) = down[i] \o <<x>> BY <1>6, <3>1
    <3> QED BY <3>2, <3>3
  <2> HIDE DEF t
  <2>2. CopyOK(i)' BY <1>1, <1>2, <1>4, <1>5, <1>7, <1>9, <2>1, CopyAfter
  <2>3. ASSUME NEW p \in Names
        PROVE  /\ p # n => Predicted(i)'[p] = Predicted(i)[p]
               /\ p = n => Predicted(i)'[p] = db[Up(i)][p]
    <3>1. Predicted(i)'[p] = Apply(Predicted(i), t)[p] BY <1>1, <1>2, <1>7, <2>1, PredictedAfter
    <3>2. Len(t) = 1 /\ t[1] = x BY DEF t
    <3>3. 1 \in 1..Len(t) /\ 1 + 1..Len(t) = {} /\ 1..Len(t) = {1} BY <3>2
    <3>4. ASSUME p # n PROVE Apply(Predicted(i), t)[p] = Predicted(i)[p]
      <4>1. \A j \in 1..Len(t) : t[j].n # p BY <1>6, <3>2, <3>3, <3>4
      <4> QED BY ONLY <1>7, <4>1, p \in Names, ApplyLast
    <3>5. ASSUME p = n PROVE Apply(Predicted(i), t)[p] = x.e
      <4>1. t[1].n = p /\ \A k \in 1 + 1..Len(t) : t[k].n # p BY <1>6, <3>2, <3>3, <3>5
      <4>2. Apply(Predicted(i), t)[p] = t[1].e BY ONLY <1>7, <3>3, <4>1, p \in Names, ApplyLast
      <4> QED BY <3>2, <4>2
    <3> QED BY <1>6, <3>1, <3>4, <3>5
  <2>4. i \notin missed' => InStep(i)'
    <3> SUFFICES ASSUME i \notin missed', alive[i], srv[i].streaming, cl[i].pc # "down", NEW p \in Names,
                        Predicted(i)'[p] # db[Up(i)][p]
                 PROVE  p \in srv'[i].plist \cup srv'[i].todo
      BY <1>2, <1>4 DEF InStep
    <3>1. p # n /\ Predicted(i)[p] # db[Up(i)][p] BY <2>3
    <3>2. p \in srv[i].plist \cup srv[i].todo BY <1>1, <1>2, <3>1 DEF InStep
    <3> QED BY <1>4, <3>1, <3>2
  <2> QED BY <1>2, <1>3, <2>2, <2>4, QuietStep
<1> QED BY <1>8, <1>9

LEMMA SendStream == ASSUME StreamInv, TypeInv', NEW i \in Slaves, sendupdates(i) PROVE StreamInv'
<1>1. TypeInv /\ Types /\ ServerOK(i) /\ CopyOK(i) /\ (i \notin missed => InStep(i)) /\ srv[i] \in Threads
  BY StreamParts, TypesDef
<1>2. srv[i].pc \in {"noop", "noop2", "event"} /\ srv[i].todo = {} /\ UNCHANGED <<db, cl, missed>>
  BY DEF sendupdates
<1>3. CASE (\E pc \in {"docmd", "kick"} : srv' = [srv EXCEPT ![i].pc = pc]) /\ UNCHANGED <<down, alive>>
  <2>1. /\ \A m \in Slaves \ {i} : srv'[m] = srv[m]
        /\ srv'[i].todo = srv[i].todo /\ srv'[i].plist = srv[i].plist /\ srv'[i].streaming = srv[i].streaming
    BY <1>1, <1>3 DEF Threads, Types
  <2>2. Queue(i)' = Queue(i) BY <2>1 DEF Queue
  <2> QED BY <1>2, <1>3, <2>1, <2>2, StillStep
<1>4. CASE srv' = Grab(i, "noop2") /\ UNCHANGED <<down, alive>>
  <2>1. (\A m \in Slaves \ {i} : srv'[m] = srv[m]) /\ srv'[i].streaming = srv[i].streaming /\ Queue(i)' = Queue(i)
    BY <1>1, <1>2, <1>4, GrabOK DEF Queue
  <2> QED BY <1>2, <1>4, <2>1, StillStep
<1>5. CASE Leave(i, <<OK>>)
  <2> DEFINE bye == up'[i] = <<>> /\ ~ready[Up(i)]
             lines == <<OK>>
             all == IF bye THEN Append(lines, BYE) ELSE lines
  <2>1. OK \in Messages /\ OK \in Signs /\ BYE \in Signs /\ BYE \in Messages BY SignFacts
  <2>2. lines \in Seq(Messages) /\ \A j \in 1..Len(lines) : lines[j] \in Signs BY <2>1
  <2> HIDE DEF lines
  <2>3. /\ \A m \in Slaves \ {i} : srv'[m] = srv[m] /\ alive'[m] = alive[m] /\ down'[m] = down[m]
        /\ srv'[i].streaming = ~bye /\ srv'[i].plist = IF bye THEN {} ELSE srv[i].plist
        /\ srv'[i].todo = srv[i].todo /\ alive'[i] = (alive[i] /\ ~bye) /\ all \in Seq(Messages)
        /\ down'[i] = IF alive[i] THEN down[i] \o all ELSE down[i]
    BY <1>1, <1>5, <2>2, LeaveOK DEF lines
  <2>4. \A j \in 1..Len(all) : all[j] \in Signs
    <3>1. CASE bye
      <4>1. all = Append(lines, BYE) BY <3>1
      <4> QED BY <2>1, <2>2, <4>1
    <3> QED BY <2>2, <3>1
  <2> HIDE DEF all
  <2>5. srv[i].streaming BY <1>1, <1>2 DEF ServerOK
  <2>6. CASE ~alive[i]
    <3>1. ~alive'[i] /\ down'[i] = down[i] BY <2>3, <2>6
    <3>2. CopyOK(i)' BY <1>1, <1>2, <3>1, CopyKept
    <3>3. InStep(i)' BY <3>1 DEF InStep
    <3> QED BY <1>2, <2>3, <3>2, <3>3, QuietStep
  <2>7. CASE alive[i]
    <3>1. down'[i] = down[i] \o all BY <2>3, <2>7
    <3>2. CopyOK(i)' BY <1>1, <1>2, <2>3, <2>5, <2>7, <3>1, CopyAfter
    <3>3. \A n \in Names : Predicted(i)'[n] = Predicted(i)[n]
      <4> SUFFICES ASSUME NEW n \in Names PROVE Predicted(i)'[n] = Predicted(i)[n] OBVIOUS
      <4>1. Predicted(i)'[n] = Apply(Predicted(i), all)[n]
        BY <1>1, <1>2, <2>3, <3>1, PredictedAfter
      <4>2. Apply(Predicted(i), all)[n] = Predicted(i)[n]
        BY ONLY <2>3, <2>4, n \in Names, ApplySigns
      <4> QED BY <4>1, <4>2
    <3>4. i \notin missed' => InStep(i)'
      <4> SUFFICES ASSUME i \notin missed' PROVE InStep(i)' OBVIOUS
      <4>1. InStep(i) BY <1>1, <1>2
      <4>2. srv'[i].streaming => Queue(i)' = Queue(i) BY <2>3 DEF Queue
      <4> QED BY <1>2, <2>3, <2>5, <3>3, <4>1, <4>2, KeptStep
    <3> QED BY <1>2, <2>3, <3>2, <3>4, QuietStep
  <2> QED BY <2>6, <2>7
<1> QED BY <1>3, <1>4, <1>5 DEF sendupdates

LEMMA KickedStream == ASSUME StreamInv, TypeInv', NEW i \in Slaves, kicked(i) PROVE StreamInv'
<1>1. TypeInv /\ Types /\ ServerOK(i) BY StreamParts
<1>2. srv[i].pc = "kick" /\ srv' = Grab(i, "noop2") /\ UNCHANGED <<db, cl, down, alive, missed>>
  BY DEF kicked, conns
<1>3. srv[i].todo = {} BY <1>1, <1>2 DEF ServerOK
<1>4. (\A m \in Slaves \ {i} : srv'[m] = srv[m]) /\ srv'[i].streaming = srv[i].streaming /\ Queue(i)' = Queue(i)
  BY <1>1, <1>2, <1>3, GrabOK DEF Queue
<1> QED BY <1>2, <1>4, StillStep

LEMMA DropStream == ASSUME StreamInv, TypeInv', NEW i \in Slaves, drop_idle(i) PROVE StreamInv'
<1>1. TypeInv /\ Types /\ ServerOK(i) /\ CopyOK(i) BY StreamParts
<1> DEFINE lines == <<BYE>>
<1>2. /\ srv[i].pc = "idle" /\ Put(i, lines) /\ alive' = [alive EXCEPT ![i] = FALSE]
      /\ srv' = [srv EXCEPT ![i] = NoConn] /\ UNCHANGED <<db, cl, missed>>
  BY DEF drop_idle, history
<1>3. lines \in Seq(Messages) /\ lines # <<>> /\ lines[1] \in Signs
  <2>1. BYE \in Messages /\ BYE \in Signs BY SignFacts
  <2> QED BY <2>1
<1> HIDE DEF lines
<1>4. /\ \A m \in Slaves \ {i} : down'[m] = down[m]
      /\ down'[i] = IF alive[i] THEN down[i] \o lines ELSE down[i]
  BY <1>1, <1>2, <1>3, PutOK
<1>5. srv'[i] = NoConn /\ ~srv'[i].streaming /\ \A m \in Slaves \ {i} : srv'[m] = srv[m]
  BY <1>1, <1>2, NoConnOK DEF Types
<1>6. ~alive'[i] /\ \A m \in Slaves \ {i} : alive'[m] = alive[m] BY <1>1, <1>2 DEF Types
<1>7. CopyOK(i)'
  <2>1. CASE alive[i] BY <1>1, <1>2, <1>3, <1>4, <1>5, <2>1, CopyAfter
  <2>2. CASE ~alive[i] BY <1>1, <1>2, <1>4, <1>6, <2>2, CopyKept
  <2> QED BY <2>1, <2>2
<1>8. InStep(i)' BY <1>6 DEF InStep
<1> QED BY <1>2, <1>4, <1>5, <1>6, <1>7, <1>8, QuietStep

LEMMA FreeStream == ASSUME StreamInv, TypeInv', NEW i \in Slaves, conn_free(i) PROVE StreamInv'
<1>1. TypeInv /\ Types BY StreamParts
<1>2. srv' = [srv EXCEPT ![i] = NoConn] /\ UNCHANGED <<db, cl, down, alive, missed>>
  BY DEF conn_free, history, conns
<1>3. ~srv'[i].streaming /\ \A m \in Slaves \ {i} : srv'[m] = srv[m]
  BY <1>1, <1>2, NoConnOK DEF Types
<1> QED BY <1>2, <1>3, StillStep

(* The client thread.                                                      *)
LEMMA ConnectStream == ASSUME StreamInv, TypeInv', NEW i \in Slaves, mupdate_connect(i) PROVE StreamInv'
<1>1. TypeInv /\ Types /\ ServerOK(i) /\ srv[i] \in Threads BY StreamParts, TypesDef
<1> DEFINE c == [Down EXCEPT !.pc = "sync"]
<1>2. /\ srv[i].pc = "none" /\ cl' = [cl EXCEPT ![i] = c] /\ srv' = [srv EXCEPT ![i].pc = "idle"]
      /\ down' = [down EXCEPT ![i] = <<>>] /\ alive' = [alive EXCEPT ![i] = TRUE]
      /\ UNCHANGED <<db, missed>>
  BY DEF mupdate_connect, history
<1> HIDE DEF c
<1>3. \A m \in Slaves \ {i} : cl'[m] = cl[m] /\ srv'[m] = srv[m] /\ down'[m] = down[m] /\ alive'[m] = alive[m]
  BY <1>1, <1>2 DEF Types
<1>4. ~srv'[i].streaming
  <2>1. srv'[i].streaming = srv[i].streaming BY <1>1, <1>2 DEF Types, Threads
  <2> QED BY <1>1, <1>2, <2>1, NoConnOK DEF ServerOK
<1>5. down'[i] = <<>> BY <1>1, <1>2 DEF Types
<1>6. CopyOK(i)' BY <1>4, <1>5 DEF CopyOK
<1>7. InStep(i)' BY <1>4 DEF InStep
<1> QED BY <1>2, <1>3, <1>6, <1>7, QuietStep

(* The merge makes the list what the lines before OK say.                  *)
LEMMA SyncMerges ==
  ASSUME Strcmp = Order, StreamInv, NEW i \in Slaves, cl[i].pc = "sync", Ends(down[i]) # {}
  PROVE  LET p == SubSeq(down[i], 1, Upto(down[i]) - 1)
         IN \A n \in Names : Merged(There(i), p, db[i])[n] = Apply(Empty, p)[n]
<1> DEFINE s == down[i]
           j == Upto(s)
           p == SubSeq(s, 1, j - 1)
           loc == There(i)
           d == db[i]
<1>1. Types /\ CopyOK(i) BY StreamParts
<1>2. s \in Seq(Messages) /\ d \in Lists BY <1>1, SentOK
<1>3. /\ j \in 1..Len(s) /\ (\A k \in 1..j - 1 : s[k] \notin Signs)
      /\ p \in Seq(Lines)
  BY <1>2, UptoOK
<1>4. /\ loc \in Seq(Names) /\ Sorted(loc)
      /\ \A n \in Names : d[n] # None => \E k \in 1..Len(loc) : loc[k] = n
  BY <1>1, ThereOK, NodeFacts
<1>5. \A k \in 1..Len(s) : Plain(s, k) =>
        s[k].e # None /\ \A a \in 1..k - 1 : Place(Order, s[a].n) < Place(Order, s[k].n)
  BY <1>1 DEF CopyOK
<1> HIDE DEF j, s, loc, d
<1>6. Len(p) = j - 1 /\ (\A k \in 1..j - 1 : p[k] = s[k] /\ k \in 1..Len(s)) /\ j \in Nat
  BY <1>2, <1>3
<1> HIDE DEF p
<1>7. SortedLines(p)
  <2> SUFFICES ASSUME NEW a \in 1..Len(p), NEW b \in 1..Len(p), a < b
               PROVE  Place(Order, p[a].n) < Place(Order, p[b].n)
    BY DEF SortedLines
  <2>1. a \in 1..j - 1 /\ b \in 1..j - 1 /\ a \in 1..b - 1 /\ \A k \in 1..b : k \in 1..j - 1
    BY <1>6
  <2>2. Plain(s, b) BY <1>3, <2>1 DEF Plain
  <2>3. b \in 1..Len(s) /\ p[a] = s[a] /\ p[b] = s[b] BY <1>6, <2>1
  <2>4. Place(Order, s[a].n) < Place(Order, s[b].n) BY <1>5, <2>1, <2>2, <2>3
  <2> QED BY <2>3, <2>4
<1>8. \A n \in Names : Merged(loc, p, d)[n] = Apply(Empty, p)[n]
  BY ONLY Strcmp = Order, <1>2, <1>3, <1>4, <1>7, MergedOK
<1> QED BY <1>8 DEF p, j, s, loc, d

LEMMA SyncStream ==
  ASSUME Strcmp = Order, StreamInv, TypeInv', NEW i \in Slaves, mupdate_synchronize(i)
  PROVE  StreamInv'
<1>1. TypeInv /\ Types /\ ClientOK(i) /\ (i \notin missed => InStep(i)) BY StreamParts
<1> DEFINE j == Upto(down[i])
           s == down[i]
           p == SubSeq(s, 1, j - 1)
           q == SubSeq(s, j + 1, Len(s))
<1>2. cl[i].pc = "sync" /\ cl[i].buf = <<>> /\ UNCHANGED <<srv, alive>>
  BY <1>1 DEF mupdate_synchronize, ClientOK
<1>3. CASE /\ Ends(down[i]) # {}
           /\ db' = [db EXCEPT ![i] = Merged(There(i), SubSeq(down[i], 1, j - 1), @)]
           /\ missed' = missed \cup {m \in Slaves : Up(m) = i /\ srv[m].streaming /\ db'[i] # db[i]}
           /\ cl' = [cl EXCEPT ![i].pc = "synced", ![i].buf = SubSeq(down[i], j + 1, Len(down[i]))]
           /\ down' = [down EXCEPT ![i] = <<>>]
  <2>1. /\ \A m \in Nodes \ {i} : db'[m] = db[m]
        /\ \A m \in Slaves \ {i} : cl'[m] = cl[m] /\ down'[m] = down[m]
        /\ db'[i] = Merged(There(i), p, db[i])
        /\ cl'[i].pc = "synced" /\ cl'[i].buf = q /\ down'[i] = <<>>
    BY <1>1, <1>3, SyncDoes
  <2>2. s \in Seq(Messages) /\ db[i] \in Lists BY <1>1, SentOK
  <2>3. /\ j \in 1..Len(s) /\ s[j] \in Signs /\ (\A k \in 1..j - 1 : s[k] \notin Signs)
        /\ p \in Seq(Lines) /\ q \in Seq(Messages)
    BY <1>3, <2>2, UptoOK
  <2>4. \A n \in Names : Merged(There(i), p, db[i])[n] = Apply(Empty, p)[n]
    BY <1>2, <1>3, SyncMerges
  <2> HIDE DEF j, s, p, q
  <2>8. \A n \in Names : db'[i][n] = Apply(Empty, p)[n] BY <2>1, <2>4
  <2>9. i \notin missed' => InStep(i)'
    <3> SUFFICES ASSUME i \notin missed' PROVE InStep(i)' OBVIOUS
    <3>a. i \notin missed BY <1>3
    <3>b. InStep(i) /\ cl[i].pc # "down" BY <1>1, <1>2, <3>a
    <3> SUFFICES ASSUME NEW n \in Names PROVE Predicted(i)'[n] = Predicted(i)[n] /\ db'[Up(i)] = db[Up(i)]
      BY <1>2, <3>b DEF InStep
    <3>1. db'[Up(i)] = db[Up(i)] BY <2>1, NodeFacts
    <3> DEFINE o == <<s[j]>>
    <3>2. o \in Seq(Messages) /\ \A k \in 1..Len(o) : o[k] \in Signs BY <2>2, <2>3
    <3>3. s = p \o (o \o q)
      <4>1. s = SubSeq(s, 1, j - 1) \o (<<s[j]>> \o SubSeq(s, j + 1, Len(s)))
        BY ONLY <2>2, <2>3, SplitAt
      <4> QED BY <4>1 DEF p, q
    <3> HIDE DEF o
    <3>4. p \in Seq(Messages) BY <2>3 DEF Messages
    <3>5. o \o q \in Seq(Messages) BY ONLY <2>3, <3>2, ConcatFacts
    <3>6. Predicted(i)[n] = Apply(Empty, p \o (o \o q))[n]
      <4>1. Sent(i) = s BY <1>1, <1>2, SentOK DEF s
      <4> QED BY <1>2, <3>3, <4>1 DEF Predicted
    <3>7. Predicted(i)'[n] = Apply(db'[i], q)[n]
      <4>1. q \o <<>> = q BY ONLY <2>3, ConcatFacts
      <4>2. Sent(i)' = q BY <2>1, <4>1 DEF Sent
      <4> QED BY <2>1, <4>2 DEF Predicted
    <3>8. Apply(Empty, p \o (o \o q))[n] = Apply(Apply(Empty, p), o \o q)[n]
      BY ONLY <3>4, <3>5, n \in Names, ApplyConcat
    <3>9. Apply(Apply(Empty, p), o \o q)[n] = Apply(Apply(Apply(Empty, p), o), q)[n]
      BY ONLY <2>3, <3>2, n \in Names, ApplyConcat
    <3>10. Apply(Apply(Apply(Empty, p), o), q)[n] = Apply(db'[i], q)[n]
      <4>1. \A k \in Names : Apply(Apply(Empty, p), o)[k] = Apply(Empty, p)[k]
        BY ONLY <3>2, ApplySigns
      <4>2. \A k \in Names : Apply(Apply(Empty, p), o)[k] = db'[i][k] BY <2>8, <4>1
      <4> QED BY ONLY <2>3, <4>2, n \in Names, ApplySame
    <3> QED BY <3>1, <3>6, <3>7, <3>8, <3>9, <3>10
  <2>10. CopyOK(i)' BY <2>1 DEF CopyOK
  <2>11. \A m \in Slaves \ {i} : Logged(m) /\ db'[m] = db[m] BY <1>2, <2>1, NodeFacts DEF Logged
  <2>12. ASSUME NEW m \in Slaves \ {i}, m \notin missed'
         PROVE  m \notin missed /\ (srv[m].streaming => db'[Up(m)] = db[Up(m)])
    BY <1>3, <2>1, <2>12, NodeFacts
  <2> QED BY <1>2, <2>1, <2>9, <2>10, <2>11, <2>12, StreamStep
<1>4. CASE /\ ~alive[i] /\ cl' = [cl EXCEPT ![i] = Down]
           /\ down' = [down EXCEPT ![i] = <<>>] /\ UNCHANGED <<db, missed>>
  <2>1. cl'[i] = Down /\ \A m \in Slaves \ {i} : cl'[m] = cl[m] /\ down'[m] = down[m]
    BY <1>1, <1>4 DEF Types
  <2>2. CopyOK(i)' BY <2>1, DownOK DEF CopyOK
  <2>3. InStep(i)' BY <1>2, <1>4 DEF InStep
  <2> QED BY <1>2, <1>4, <2>1, <2>2, <2>3, QuietStep
<1> QED BY <1>3, <1>4 DEF mupdate_synchronize

LEMMA PlaceStream ==
  ASSUME StreamInv, TypeInv', NEW i \in Slaves,
         \A m \in Slaves \ {i} : cl'[m] = cl[m],
         UNCHANGED <<db, srv, down, alive, missed>>, cl[i].pc \notin {"sync", "down"}, cl'[i].pc # "sync",
         cl'[i].buf = cl[i].buf
  PROVE  StreamInv'
  BY StillStep DEF Queue

LEMMA ReadyStream == ASSUME StreamInv, TypeInv', NEW i \in Slaves, mupdate_ready(i) PROVE StreamInv'
<1>1. Types /\ cl[i] \in Clients BY StreamParts, TypesDef
<1>2. cl[i].pc = "synced" /\ cl' = [cl EXCEPT ![i].pc = "ready"] /\ UNCHANGED <<db, srv, down, alive, missed>>
  BY DEF mupdate_ready, history, conns
<1>3. cl'[i].pc = "ready" /\ cl'[i].buf = cl[i].buf /\ \A m \in Slaves \ {i} : cl'[m] = cl[m]
  BY <1>1, <1>2 DEF Types, Clients
<1> QED BY <1>2, <1>3, PlaceStream

LEMMA OpenStream == ASSUME StreamInv, TypeInv', NEW i \in Slaves, open_kick_socket(i) PROVE StreamInv'
<1>1. Types /\ cl[i] \in Clients BY StreamParts, TypesDef
<1>2. cl[i].pc = "ready" /\ cl' = [cl EXCEPT ![i].pc = "listen"] /\ UNCHANGED <<db, srv, down, alive, missed>>
  BY DEF open_kick_socket, history, conns
<1>3. cl'[i].pc = "listen" /\ cl'[i].buf = cl[i].buf /\ \A m \in Slaves \ {i} : cl'[m] = cl[m]
  BY <1>1, <1>2 DEF Types, Clients
<1> QED BY <1>2, <1>3, PlaceStream

LEMMA InputStream == ASSUME StreamInv, TypeInv', NEW i \in Slaves, select_input(i) PROVE StreamInv'
<1>1. Types /\ cl[i] \in Clients BY StreamParts, TypesDef
<1> DEFINE b == Waiting(i) # {}
<1>2. /\ cl[i].pc = "listen" /\ cl' = [cl EXCEPT ![i].pc = "scarf", ![i].kset = b]
      /\ UNCHANGED <<db, srv, down, alive, missed>>
  BY DEF select_input, history, conns
<1> HIDE DEF b
<1>3. cl'[i].pc = "scarf" /\ cl'[i].buf = cl[i].buf /\ \A m \in Slaves \ {i} : cl'[m] = cl[m]
  BY <1>1, <1>2 DEF Types, Clients
<1> QED BY <1>2, <1>3, PlaceStream

LEMMA TimeoutStream == ASSUME StreamInv, TypeInv', NEW i \in Slaves, select_timeout(i) PROVE StreamInv'
<1>1. Types /\ cl[i] \in Clients BY StreamParts, TypesDef
<1>2. /\ cl[i].pc = "listen" /\ cl' = [cl EXCEPT ![i].waiting_for_noop = TRUE]
      /\ UNCHANGED <<db, srv, down, alive, missed>>
  BY DEF select_timeout
<1>3. cl'[i].pc = "listen" /\ cl'[i].buf = cl[i].buf /\ \A m \in Slaves \ {i} : cl'[m] = cl[m]
  BY <1>1, <1>2 DEF Types, Clients
<1> QED BY <1>2, <1>3, PlaceStream

LEMMA SelectKickStream == ASSUME StreamInv, TypeInv', NEW i \in Slaves, select_kick(i) PROVE StreamInv'
<1>1. TypeInv /\ Types /\ cl[i].buf \in Seq(Messages) BY StreamParts, SentOK
<1>2. cl[i].pc = "listen" /\ Turn(i, cl[i].buf, TRUE) /\ UNCHANGED <<db, srv, down, alive,
    missed>> BY DEF select_kick
<1>3. TurnDone(i, cl[i].buf, TRUE) BY <1>1, <1>2, TurnOK
<1>4. cl'[i].pc = "listen" /\ cl'[i].buf = cl[i].buf /\ \A m \in Slaves \ {i} : cl'[m] = cl[m]
  BY <1>3 DEF TurnDone
<1> QED BY <1>2, <1>4, PlaceStream

(* One message was read: what is left says the same.                       *)
LEMMA PredictedRead ==
  ASSUME Types, NEW i \in Slaves, cl[i].pc = "scarf", ScarfRead(i), cl'[i].buf = Tail(Src(i)), cl'[i].pc # "sync",
         Head(Src(i)) \in Signs => db'[i] = db[i],
         Head(Src(i)) \notin Signs => db'[i] = [db[i] EXCEPT ![Head(Src(i)).n] = Head(Src(i)).e],
         NEW n \in Names
  PROVE  Predicted(i)'[n] = Predicted(i)[n]
<1> DEFINE x == Head(Src(i))
           r == Tail(Src(i)) \o down'[i]
           o == <<x>>
<1>1. /\ x \in Messages /\ Tail(Src(i)) \in Seq(Messages) /\ Sent(i) = o \o r /\ down' \in [Slaves -> Seq(Messages)]
  BY ReadOK
<1>2. db[i] \in Lists BY SentOK
<1>3. Sent(i)' = r BY DEF Sent
<1>4. r \in Seq(Messages) /\ o \in Seq(Messages)
  <2>1. down'[i] \in Seq(Messages) BY <1>1
  <2> QED BY <1>1, <2>1
<1>5. x \in Signs => db'[i] = db[i] OBVIOUS
<1>6. x \notin Signs => db'[i] = [db[i] EXCEPT ![x.n] = x.e] OBVIOUS
<1> HIDE DEF x, r
<1>7. \A k \in Names : Apply(db[i], o)[k] = db'[i][k]
  <2> SUFFICES ASSUME NEW k \in Names PROVE Apply(db[i], o)[k] = db'[i][k] OBVIOUS
  <2>1. x \in Messages BY <1>1
  <2>2. /\ x \in Signs => Apply(db[i], <<x>>)[k] = db[i][k]
        /\ x \notin Signs => Apply(db[i], <<x>>)[k] = [db[i] EXCEPT ![x.n] = x.e][k]
    BY ONLY <1>2, <2>1, k \in Names, ApplyOne
  <2> QED BY <1>5, <1>6, <2>2
<1> HIDE DEF o
<1>8. Apply(db[i], o \o r)[n] = Apply(Apply(db[i], o), r)[n]
  BY ONLY <1>4, n \in Names, ApplyConcat
<1>9. Apply(Apply(db[i], o), r)[n] = Apply(db'[i], r)[n]
  BY ONLY <1>4, <1>7, n \in Names, ApplySame
<1> QED BY <1>1, <1>3, <1>8, <1>9 DEF Predicted

LEMMA BrokenStream ==
  ASSUME StreamInv, TypeInv', NEW i \in Slaves, Broken(i), UNCHANGED <<db, srv, missed>>
  PROVE  StreamInv'
<1>1. Types BY StreamParts
<1>2. BrokenDone(i) BY <1>1, BrokenOK
<1>3. CopyOK(i)' BY <1>2, DownOK DEF BrokenDone, CopyOK
<1>4. InStep(i)' BY <1>2 DEF BrokenDone, InStep
<1> QED BY <1>2, <1>3, <1>4, QuietStep DEF BrokenDone

LEMMA ScarfStream == ASSUME StreamInv, TypeInv', NEW i \in Slaves, mupdate_scarf(i) PROVE StreamInv'
<1>1. /\ TypeInv /\ Types /\ (i \notin missed => InStep(i)) /\ cl[i] \in Clients /\ cl[i].buf \in Seq(Messages)
      /\ down[i] \in Seq(Messages)
  BY StreamParts, TypesDef, SentOK
<1>2. cl[i].pc = "scarf" /\ missed' = missed BY ScarfCases
<1>3. cl[i].kset \in BOOLEAN BY <1>1 DEF Clients
<1>4. CASE ScarfLine(i)
  <2> DEFINE x == Head(Src(i))
  <2>1. /\ ScarfRead(i) /\ x \notin Signs /\ cmd_change(i, x) /\ cl' = [cl EXCEPT ![i].buf = Tail(Src(i))]
        /\ alive' = alive
    BY <1>4 DEF ScarfLine, ScarfRead
  <2>2. x \in Lines BY <1>1, <2>1, ReadOK, SignFacts
  <2>3. /\ \A m \in Nodes \ {i} : db'[m] = db[m]
        /\ db'[i] = [db[i] EXCEPT ![x.n] = x.e] /\ (\A m \in Slaves : Logged(m)) /\ srv'[i] = srv[i]
        /\ srv' = log_update(i, x.n) \/ (srv' = srv /\ db'[i] = db[i])
    BY <1>1, <2>1, <2>2, ChangeOK
  <2>4. \A m \in Slaves \ {i} : down'[m] = down[m] BY <1>1, <2>1, ReadOK
  <2>5. cl'[i].pc = "scarf" /\ cl'[i].buf = Tail(Src(i)) /\ \A m \in Slaves \ {i} : cl'[m] = cl[m]
    BY <1>1, <1>2, <2>1 DEF Types, Clients
  <2>6. \A n \in Names : Predicted(i)'[n] = Predicted(i)[n]
    BY <1>1, <1>2, <2>1, <2>3, <2>5, PredictedRead
  <2> HIDE DEF x
  <2>7. db'[Up(i)] = db[Up(i)] /\ \A m \in Slaves \ {i} : db'[m] = db[m] BY <2>3, NodeFacts
  <2>8. i \notin missed' => InStep(i)'
    <3> SUFFICES ASSUME i \notin missed' PROVE InStep(i)' OBVIOUS
    <3>1. InStep(i) /\ Queue(i)' = Queue(i) BY <1>1, <1>2, <2>3 DEF Queue
    <3> QED BY <1>2, <2>1, <2>3, <2>6, <2>7, <3>1, KeptStep
  <2>9. CopyOK(i)' BY <2>5 DEF CopyOK
  <2>10. ASSUME NEW m \in Slaves \ {i}, srv[m].streaming, NEW n \in Names, db'[Up(m)][n] # db[Up(m)][n]
         PROVE  n \in srv'[m].plist
    <3>1. Up(m) = i BY <2>3, <2>10, NodeFacts
    <3>2. srv' = log_update(i, x.n) BY <2>3, <2>10, <3>1
    <3>3. n = x.n
      <4>1. db[i] \in Lists BY <1>1, SentOK
      <4> QED BY <2>3, <2>10, <3>1, <4>1 DEF Lists
    <3>4. srv'[m] = [srv[m] EXCEPT !.plist = @ \cup {n}]
      BY <1>1, <2>10, <3>1, <3>2, <3>3, LogUpdateOK
    <3>5. srv[m] \in Threads BY <1>1, TypesDef
    <3> QED BY <3>4, <3>5 DEF Threads
  <2> QED BY <1>2, <2>1, <2>3, <2>4, <2>5, <2>7, <2>8, <2>9, <2>10, StreamStep
<1>5. CASE ScarfSkip(i) \/ ScarfSign(i)
  <2>1. ScarfRead(i) /\ Head(Src(i)) \in Signs /\ alive' = alive /\ UNCHANGED <<db, srv>>
    BY <1>5, SignFacts DEF ScarfSkip, ScarfSign, ScarfRead
  <2>2. (\A m \in Slaves \ {i} : down'[m] = down[m]) /\ Tail(Src(i)) \in Seq(Messages)
    BY <1>1, <2>1, ReadOK
  <2>3. cl'[i].pc \in {"scarf", "listen"} /\ cl'[i].buf = Tail(Src(i)) /\ \A m \in Slaves \ {i} : cl'[m] = cl[m]
    <3>1. CASE ScarfSkip(i)
      <4>1. cl' = [cl EXCEPT ![i].buf = Tail(Src(i))] BY <3>1 DEF ScarfSkip
      <4> QED BY <1>1, <1>2, <4>1 DEF Types, Clients
    <3>2. CASE ScarfSign(i)
      <4>1. Turn(i, Tail(Src(i)), cl[i].kset) BY <3>2 DEF ScarfSign
      <4>2. TurnDone(i, Tail(Src(i)), cl[i].kset) BY <1>1, <1>2, <1>3, <2>2, <4>1, TurnOK
      <4> QED BY <4>2 DEF TurnDone
    <3> QED BY <1>5, <3>1, <3>2
  <2>4. \A n \in Names : Predicted(i)'[n] = Predicted(i)[n]
    BY <1>1, <1>2, <2>1, <2>3, PredictedRead
  <2>5. i \notin missed' => InStep(i)'
    <3> SUFFICES ASSUME i \notin missed' PROVE InStep(i)' OBVIOUS
    <3>1. InStep(i) /\ Queue(i)' = Queue(i) BY <1>1, <1>2, <2>1 DEF Queue
    <3> QED BY <1>2, <2>1, <2>4, <3>1, KeptStep
  <2>6. CopyOK(i)' BY <2>3 DEF CopyOK
  <2> QED BY <1>2, <2>1, <2>2, <2>3, <2>5, <2>6, QuietStep
<1>6. CASE ScarfDry(i)
  <2>1. Src(i) = <<>> /\ Turn(i, <<>>, cl[i].kset) /\ UNCHANGED <<db, srv, down, alive>>
    BY <1>6 DEF ScarfDry
  <2>2. cl[i].buf = <<>> BY <2>1 DEF Src
  <2>3. TurnDone(i, cl[i].buf, cl[i].kset) BY <1>1, <1>2, <1>3, <2>1, <2>2, TurnOK
  <2>4. cl'[i].pc = "listen" /\ cl'[i].buf = cl[i].buf /\ \A m \in Slaves \ {i} : cl'[m] = cl[m]
    BY <2>3 DEF TurnDone
  <2> QED BY <1>2, <2>1, <2>4, PlaceStream
<1>7. CASE ScarfBroken(i)
  <2>1. Broken(i) /\ UNCHANGED <<db, srv>> BY <1>7 DEF ScarfBroken
  <2> QED BY <1>2, <2>1, BrokenStream
<1> QED BY <1>4, <1>5, <1>6, <1>7, ScarfCases

(* Failures.                                                               *)
LEMMA TimeOutStream == ASSUME StreamInv, TypeInv', NEW i \in Slaves, time_out(i) PROVE StreamInv'
<1>1. Broken(i) /\ UNCHANGED <<db, srv, missed>> BY DEF time_out, history
<1> QED BY <1>1, BrokenStream

LEMMA KickStream == ASSUME StreamInv, TypeInv', NEW k \in Kickers, kick_mupdate(k) PROVE StreamInv'
<1>1. UNCHANGED <<db, cl, srv, down, alive, missed>> BY DEF kick_mupdate, conns
<1>2. Master \notin Slaves BY NodeFacts
<1> QED BY <1>1, <1>2, QuietStep

LEMMA LoseStream == ASSUME StreamInv, TypeInv', NEW i \in Slaves, lose(i) PROVE StreamInv'
<1>1. Types /\ CopyOK(i) BY StreamParts
<1>2. alive' = [alive EXCEPT ![i] = FALSE] /\ UNCHANGED <<db, cl, srv, missed>>
  BY DEF lose, history
<1>3. PICK j \in 0..Len(down[i]) : down' = [down EXCEPT ![i] = SubSeq(@, 1, j)] BY DEF lose
<1>4. down[i] \in Seq(Messages) BY <1>1, SentOK
<1>5. ~alive'[i] /\ down'[i] = SubSeq(down[i], 1, j) /\ \A m \in Slaves \ {i} : alive'[m] = alive[m] /\ down'[m] = down[m]
  BY <1>1, <1>2, <1>3 DEF Types
<1>6. Len(down'[i]) = j /\ \A k \in 1..j : down'[i][k] = down[i][k] /\ k \in 1..Len(down[i])
  BY <1>4, <1>5
<1>7. CopyOK(i)'
  <2> SUFFICES ASSUME cl[i].pc = "sync", NEW a \in 1..j, Plain(down'[i], a)
               PROVE  /\ down'[i][a].e # None
                      /\ \A k \in 1..a - 1 : Place(Order, down'[i][k].n) < Place(Order, down'[i][a].n)
    BY <1>2, <1>5, <1>6 DEF CopyOK
  <2>1. \A k \in 1..a : k \in 1..j OBVIOUS
  <2>2. Plain(down[i], a) BY <1>6, <2>1 DEF Plain
  <2>3. /\ down[i][a].e # None
        /\ \A k \in 1..a - 1 : Place(Order, down[i][k].n) < Place(Order, down[i][a].n)
    BY <1>1, <1>6, <2>2 DEF CopyOK
  <2>4. \A k \in 1..a - 1 : k \in 1..j OBVIOUS
  <2> QED BY <1>6, <2>3, <2>4
<1>8. InStep(i)' BY <1>5 DEF InStep
<1> QED BY <1>2, <1>5, <1>7, <1>8, QuietStep

LEMMA CrashStream == ASSUME StreamInv, TypeInv', NEW i \in Slaves, crash(i) PROVE StreamInv'
<1>1. TypeInv /\ Types BY StreamParts
<1>2. CrashDone(i) BY <1>1, CrashOK
<1> SUFFICES ASSUME NEW m \in Slaves PROVE CopyOK(m)' /\ (m \notin missed' => InStep(m)')
  BY DEF StreamInv, Streamed
<1>3. CopyOK(m) /\ (m \notin missed => InStep(m)) /\ alive[m] \in BOOLEAN
  BY <1>1, StreamParts, TypesDef
<1>4. /\ alive'[m] = (alive[m] /\ m # i /\ Up(m) # i) /\ (srv'[m] = IF Up(m) = i THEN NoConn ELSE srv[m])
      /\ (down'[m] = IF m = i THEN <<>> ELSE down[m]) /\ missed' = missed /\ db' = db
      /\ (m = i => cl'[m] = Down) /\ (m # i => cl'[m] = cl[m])
  BY <1>2 DEF CrashDone
<1>5. CASE m = i
  <2>1. CopyOK(m)' BY <1>4, <1>5, DownOK DEF CopyOK
  <2>2. InStep(m)' BY <1>4, <1>5 DEF InStep
  <2> QED BY <2>1, <2>2
<1>6. CASE m # i
  <2>1. cl'[m] = cl[m] /\ down'[m] = down[m] /\ (alive'[m] => alive[m] /\ srv'[m] = srv[m])
    BY <1>3, <1>4, <1>6
  <2>2. CopyOK(m)' BY <1>3, <2>1, CopyKept
  <2>3. Predicted(m)' = Predicted(m) BY <1>4, <2>1 DEF Predicted, Sent
  <2>4. ASSUME m \notin missed' PROVE InStep(m)'
    <3>1. InStep(m) BY <1>3, <1>4, <2>4
    <3>2. alive'[m] => Queue(m)' = Queue(m) BY <2>1 DEF Queue
    <3> QED BY <1>4, <2>1, <2>3, <3>1, <3>2, KeptStep
  <2> QED BY <2>2, <2>4
<1> QED BY <1>5, <1>6

LEMMA InitStream == Init => StreamInv
<1> SUFFICES ASSUME Init PROVE StreamInv OBVIOUS
<1>1. TypeInv BY InitType
<1>2. \A i \in Slaves : cl[i] = Down /\ ~alive[i] BY DEF Init
<1>3. Streamed BY <1>2 DEF Streamed, InStep
<1>4. \A i \in Slaves : CopyOK(i) BY <1>2, DownOK DEF CopyOK
<1> QED BY <1>1, <1>3, <1>4 DEF StreamInv

LEMMA NextStream == ASSUME Strcmp = Order PROVE StreamInv /\ [Next]_vars => StreamInv'
<1> SUFFICES ASSUME StreamInv, [Next]_vars PROVE StreamInv' OBVIOUS
<1>0. TypeInv' BY NextType DEF StreamInv
<1>1. ASSUME NEW t \in {"reserve", "activate", "deactivate", "delete"}, NEW n \in Names, cmd_set(t, n)
      PROVE  StreamInv'
  BY <1>0, <1>1, SetStream
<1>2. ASSUME NEW i \in Slaves, Serve(i) PROVE StreamInv'
  BY <1>0, <1>2, StartupdateStream, NoopStream, EvtStream, FindStream, SendStream, KickedStream,
     FreeStream DEF Serve
<1>3. ASSUME NEW i \in Slaves, Follow(i) PROVE StreamInv'
  BY <1>0, <1>3, ConnectStream, SyncStream, ReadyStream, OpenStream, InputStream,
     SelectKickStream, TimeoutStream, ScarfStream DEF Follow
<1>4. ASSUME NEW i \in Slaves, drop_idle(i) \/ lose(i) \/ time_out(i) \/ crash(i) PROVE StreamInv'
  BY <1>0, <1>4, DropStream, LoseStream, TimeOutStream, CrashStream
<1>5. ASSUME NEW k \in Kickers, kick_mupdate(k) PROVE StreamInv' BY <1>0, <1>5, KickStream
<1>6. CASE UNCHANGED vars
  <2>1. UNCHANGED <<db, cl, srv, down, alive, missed>> BY <1>6 DEF vars, conns, history
  <2>2. Master \notin Slaves BY NodeFacts
  <2> QED BY <1>0, <2>1, <2>2, QuietStep
<1> QED BY <1>1, <1>2, <1>3, <1>4, <1>5, <1>6 DEF Next

LEMMA StreamAlways == ASSUME Strcmp = Order PROVE Spec => []StreamInv
<1>1. Init => StreamInv BY InitStream
<1>2. StreamInv /\ [Next]_vars => StreamInv' BY NextStream
<1> QED BY <1>1, <1>2, PTL DEF Spec

(* In the standard configuration, where the database is in the order of    *)
(* strcmp, no change is lost between two servers: a slave that has read    *)
(* all that was sent to it has the list of the server above it, but for    *)
(* the names in its queue, whatever connections break and slaves crash.    *)
THEOREM NoChangeLost == ASSUME Strcmp = Order PROVE Spec => []Streamed
<1>1. StreamInv => Streamed BY DEF StreamInv
<1> QED BY <1>1, StreamAlways, PTL

-----------------------------------------------------------------------------
(* Who was told "ok" finds a list not older than the kick.                 *)

(* H gives for each name the entries that the master had since the kick:   *)
(* the list d has one of them for each name, the lines from j on bring     *)
(* only such, the first j lines leave such in d, and what they do not name *)
(* may be missing.                                                         *)
Current(H, d) == \A n \in Names : d[n] \in H[n]
KnownFrom(H, s, j) == \A a \in j..Len(s) : s[a].n \in Names => s[a].e \in H[s[a].n]
LastFor(s, j, n, a) == s[a].n = n /\ \A b \in a + 1..j : s[b].n # n
Brings(H, d, s, j) ==
  \A n \in Names : \/ d[n] \in H[n] /\ \A a \in 1..j : s[a].n # n
                   \/ \E a \in 1..j : LastFor(s, j, n, a) /\ s[a].e \in H[n]
NoneLeft(H, s, j) == \A n \in Names : (\A a \in 1..j : s[a].n # n) => None \in H[n]

(* The kicks a client thread holds.                                        *)
HoldOK(i) ==
  /\ \A k \in Kicks : Home(k) = i /\ kick[k] = "held" => k \in cl[i].held
  /\ cl[i].held # {} => cl[i].waiting_for_noop /\ cl[i].pc \in {"listen", "scarf"}
MasterOK(k) == kick[k] \in {"wait", "held"} => Current(had[k], db[Master])
HoldInv == /\ missed # {} => doubt
           /\ \A i \in Slaves : HoldOK(i)
           /\ \A k \in Kickers : MasterOK(k)

(* At most one NOOP is on the way: as a command, at the server, or as the  *)
(* OK for it.                                                              *)
Busy(i) == srv[i].pc \in {"noop", "kick", "noop2"}
Oks(s) == {j \in 1..Len(s) : s[j] = OK}
Silent(i) == up[i] = <<>> /\ ~Busy(i) /\ Oks(Sent(i)) = {}
One(i) == \/ up[i] = <<"NOOP">> /\ ~Busy(i) /\ Oks(Sent(i)) = {}
          \/ up[i] = <<>> /\ Busy(i) /\ Oks(Sent(i)) = {}
          \/ up[i] = <<>> /\ ~Busy(i) /\ \E j \in Oks(Sent(i)) : Oks(Sent(i)) = {j}
Copying(i) == /\ ~Busy(i) /\ \A j \in 1..Len(up[i]) : up[i][j] # "NOOP"
              /\ \A j \in Oks(Sent(i)) : up[i] = <<>> /\ Plain(Sent(i), j - 1)
NoopOK(i) ==
  /\ cl[i].pc = "sync" => Copying(i)
  /\ cl[i].pc \in {"synced", "ready"} => Silent(i)
  /\ cl[i].pc \in {"listen", "scarf"} => Silent(i) \/ (cl[i].waiting_for_noop /\ One(i))

(* What node u and those above it have, and what is on the way to them,    *)
(* was at the master after the kick k.                                     *)
CleanAt(k, v) ==
  /\ Current(had[k], db[v])
  /\ v # Master => /\ KnownFrom(had[k], Sent(v), 1)
                   /\ cl[v].pc = "sync" => \A j \in Oks(Sent(v)) : NoneLeft(had[k], Sent(v), j)
Clean(k, u) == \A v \in 1..u : CleanAt(k, v)

(* The NOOP of node i is for the kick k.  When the servers above were      *)
(* asked, their lists are as new as the kick; then the queue is sent, and  *)
(* when the OK comes, so is the list of node i.                            *)
Reached(k, i) == kick[k] = "held" /\ \A j \in i + 1..N : kick[j] = "held"
Flushes(i) == srv[i].pc = "noop2" /\ alive[i]
Past(i) == (srv[i].pc = "kick" /\ kick[i] = "ok") \/ Flushes(i) \/ Oks(Sent(i)) # {}
Flushed(k, i) == \A n \in Names \ srv[i].todo : Predicted(i)[n] \in had[k][n]
Confirmed(k, i) == \A j \in Oks(Sent(i)) : /\ Brings(had[k], db[i], Sent(i), j)
                                           /\ KnownFrom(had[k], Sent(i), j)
Stage(k, i) ==
  Reached(k, i) => /\ Past(i) => Clean(k, Up(i))
                   /\ Flushes(i) => Flushed(k, i)
                   /\ Confirmed(k, i)

KickInv == /\ StreamInv /\ HoldInv /\ KickFresh
           /\ ~doubt => \A i \in Slaves : NoopOK(i) /\ \A k \in Kickers : Stage(k, i)

(* The pieces of a sequence.                                               *)
LEMMA ConcatIndex ==
  ASSUME NEW S, NEW s \in Seq(S), NEW t \in Seq(S)
  PROVE  /\ s \o t \in Seq(S) /\ Len(s \o t) = Len(s) + Len(t) /\ Len(s) \in Nat /\ Len(t) \in Nat
         /\ \A j \in 1..Len(s) : (s \o t)[j] = s[j] /\ j \in 1..Len(s \o t)
         /\ \A j \in 1..Len(t) : (s \o t)[Len(s) + j] = t[j] /\ Len(s) + j \in 1..Len(s \o t)
         /\ \A j \in 1..Len(s \o t) :
              j \in 1..Len(s) \/ (j > Len(s) /\ j - Len(s) \in 1..Len(t) /\ (s \o t)[j] = t[j - Len(s)])
  OBVIOUS

LEMMA FrontIndex ==
  ASSUME NEW S, NEW x \in S, NEW r \in Seq(S)
  PROVE  /\ Len(<<x>> \o r) = Len(r) + 1 /\ Len(r) \in Nat /\ (<<x>> \o r)[1] = x
         /\ \A j \in 1..Len(r) : (<<x>> \o r)[j + 1] = r[j] /\ j + 1 \in 1..Len(<<x>> \o r)
         /\ \A j \in 1..Len(<<x>> \o r) : j = 1 \/ (j - 1 \in 1..Len(r) /\ (<<x>> \o r)[j] = r[j - 1])
<1> DEFINE o == <<x>>
<1>1. o \in Seq(S) /\ Len(o) = 1 /\ o[1] = x OBVIOUS
<1> HIDE DEF o
<1> DEFINE s == o \o r
<1>2. /\ Len(s) = 1 + Len(r) /\ Len(r) \in Nat /\ s[1] = o[1]
      /\ \A j \in 1..Len(r) : s[1 + j] = r[j]
  <2>1. o \in Seq(S) /\ r \in Seq(S) BY <1>1
  <2>2. /\ Len(s) = Len(o) + Len(r) /\ Len(r) \in Nat
        /\ \A j \in 1..Len(o) : s[j] = o[j]
        /\ \A j \in 1..Len(r) : s[Len(o) + j] = r[j]
    BY ONLY <2>1, ConcatIndex DEF s
  <2> HIDE DEF s
  <2>3. 1 \in 1..Len(o) BY <1>1
  <2> QED BY <1>1, <2>2, <2>3
<1> HIDE DEF s
<1>3. \A j \in 1..Len(r) : s[j + 1] = r[j] /\ j + 1 \in 1..Len(s)
  <2> SUFFICES ASSUME NEW j \in 1..Len(r) PROVE s[j + 1] = r[j] /\ j + 1 \in 1..Len(s) OBVIOUS
  <2>1. 1 + j = j + 1 OBVIOUS
  <2> QED BY <1>2, <2>1
<1>4. ASSUME NEW j \in 1..Len(s) PROVE j = 1 \/ (j - 1 \in 1..Len(r) /\ s[j] = r[j - 1])
  <2>1. j # 1 => j - 1 \in 1..Len(r) /\ (j - 1) + 1 = j BY <1>2
  <2> QED BY <1>3, <2>1
<1> QED BY <1>1, <1>2, <1>3, <1>4 DEF s, o

(* What is known and brought, when more entries, more lines or fewer lines *)
(* are there, and when the first line was read.                            *)
Grown(H, G) == \A n \in Names : H[n] \subseteq G[n]
FromList(t, d) == \A j \in 1..Len(t) : t[j].n \in Names => t[j].e = d[t[j].n]

LEMMA KnownGrown ==
  ASSUME NEW H, NEW G, Grown(H, G), NEW d, NEW s, NEW j
  PROVE  /\ Current(H, d) => Current(G, d)
         /\ KnownFrom(H, s, j) => KnownFrom(G, s, j)
         /\ NoneLeft(H, s, j) => NoneLeft(G, s, j)
  BY DEF Grown, Current, KnownFrom, NoneLeft

LEMMA BringsGrown ==
  ASSUME NEW H, NEW G, Grown(H, G), NEW d, NEW s, NEW j \in 1..Len(s), Brings(H, d, s, j)
  PROVE  Brings(G, d, s, j)
<1> SUFFICES ASSUME NEW n \in Names
             PROVE  \/ d[n] \in G[n] /\ \A a \in 1..j : s[a].n # n
                    \/ \E a \in 1..j : LastFor(s, j, n, a) /\ s[a].e \in G[n]
  BY DEF Brings
<1>1. H[n] \subseteq G[n] BY DEF Grown
<1>2. CASE d[n] \in H[n] /\ \A a \in 1..j : s[a].n # n BY <1>1, <1>2
<1>3. ASSUME NEW a \in 1..j, LastFor(s, j, n, a) /\ s[a].e \in H[n]
      PROVE  \E b \in 1..j : LastFor(s, j, n, b) /\ s[b].e \in G[n]
  BY <1>1, <1>3
<1> QED BY <1>2, <1>3 DEF Brings

LEMMA KnownMore ==
  ASSUME NEW H, NEW s \in Seq(Messages), NEW t \in Seq(Messages), NEW d, NEW j \in 1..Len(s) + 1,
         KnownFrom(H, s, j), Current(H, d), FromList(t, d)
  PROVE  KnownFrom(H, s \o t, j)
<1> DEFINE st == s \o t
<1>1. /\ Len(st) = Len(s) + Len(t) /\ Len(s) \in Nat /\ Len(t) \in Nat
      /\ \A a \in 1..Len(s) : st[a] = s[a]
      /\ \A a \in 1..Len(st) : a \in 1..Len(s) \/ (a - Len(s) \in 1..Len(t) /\ st[a] = t[a - Len(s)])
  BY ConcatIndex
<1> HIDE DEF st
<1>2. ASSUME NEW a \in j..Len(st), st[a].n \in Names PROVE st[a].e \in H[st[a].n]
  <2>1. a \in 1..Len(st) BY <1>1
  <2>2. CASE a \in 1..Len(s)
    <3>1. a \in j..Len(s) /\ st[a] = s[a] BY <1>1, <2>2
    <3> QED BY <1>2, <3>1 DEF KnownFrom
  <2>3. CASE a - Len(s) \in 1..Len(t) /\ st[a] = t[a - Len(s)]
    <3> DEFINE b == a - Len(s)
    <3>1. b \in 1..Len(t) /\ st[a] = t[b] BY <2>3
    <3> HIDE DEF b
    <3>2. t[b].e = d[t[b].n] BY <1>2, <3>1 DEF FromList
    <3> QED BY <1>2, <3>1, <3>2 DEF Current
  <2> QED BY <1>1, <2>1, <2>2, <2>3
<1> QED BY <1>2 DEF KnownFrom, st

(* What the first j lines say is said by them in a longer sequence too.    *)
LEMMA SamePart ==
  ASSUME NEW H, NEW d, NEW s, NEW r, NEW j \in Nat, \A a \in 1..j : r[a] = s[a]
  PROVE  /\ Brings(H, d, s, j) => Brings(H, d, r, j)
         /\ NoneLeft(H, s, j) => NoneLeft(H, r, j)
         /\ Plain(s, j) => Plain(r, j)
<1>1. ASSUME Brings(H, d, s, j), NEW n \in Names
      PROVE  \/ d[n] \in H[n] /\ \A a \in 1..j : r[a].n # n
             \/ \E a \in 1..j : LastFor(r, j, n, a) /\ r[a].e \in H[n]
  <2>1. CASE d[n] \in H[n] /\ \A a \in 1..j : s[a].n # n BY <2>1
  <2>2. ASSUME NEW a \in 1..j, LastFor(s, j, n, a), s[a].e \in H[n]
        PROVE  \E b \in 1..j : LastFor(r, j, n, b) /\ r[b].e \in H[n]
    <3>1. \A b \in a + 1..j : b \in 1..j OBVIOUS
    <3> QED BY <2>2, <3>1 DEF LastFor
  <2> QED BY <1>1, <2>1, <2>2 DEF Brings
<1>2. Brings(H, d, s, j) => Brings(H, d, r, j) BY <1>1 DEF Brings
<1>3. NoneLeft(H, s, j) => NoneLeft(H, r, j) BY DEF NoneLeft
<1>4. Plain(s, j) => Plain(r, j) BY DEF Plain
<1> QED BY <1>2, <1>3, <1>4

(* The OK behind the lines, when what they make of d is current.           *)
LEMMA BringsEnd ==
  ASSUME NEW H, NEW d, NEW s \in Seq(Messages), NEW t \in Seq(Messages),
         \A n \in Names : Apply(d, s)[n] \in H[n], \A j \in 1..Len(t) : t[j] \in Signs,
         NEW j \in 1..Len(t)
  PROVE  Brings(H, d, s \o t, Len(s) + j) /\ KnownFrom(H, s \o t, Len(s) + j)
<1> DEFINE st == s \o t
           i == Len(s) + j
<1>1. /\ Len(st) = Len(s) + Len(t) /\ Len(s) \in Nat /\ Len(t) \in Nat
      /\ \A a \in 1..Len(s) : st[a] = s[a]
      /\ \A a \in 1..Len(st) : a \in 1..Len(s) \/ (a > Len(s) /\ a - Len(s) \in 1..Len(t) /\ st[a] = t[a - Len(s)])
  BY ConcatIndex
<1>2. i \in 1..Len(st) /\ i > Len(s) BY <1>1
<1> HIDE DEF st, i
<1>3. \A a \in Len(s) + 1..Len(st) : st[a].n \notin Names
  <2> SUFFICES ASSUME NEW a \in Len(s) + 1..Len(st) PROVE st[a].n \notin Names OBVIOUS
  <2>1. a \in 1..Len(st) /\ a \notin 1..Len(s) BY <1>1
  <2>2. a - Len(s) \in 1..Len(t) /\ st[a] = t[a - Len(s)] BY <1>1, <2>1
  <2>3. st[a] \in Signs BY <2>2
  <2> QED BY <2>3, SignFacts
<1>4. KnownFrom(H, st, i)
  <2>1. \A a \in i..Len(st) : a \in Len(s) + 1..Len(st) BY <1>1, <1>2
  <2> QED BY <1>3, <2>1 DEF KnownFrom
<1>5. ASSUME NEW n \in Names
      PROVE  \/ d[n] \in H[n] /\ \A a \in 1..i : st[a].n # n
             \/ \E a \in 1..i : LastFor(st, i, n, a) /\ st[a].e \in H[n]
  <2>0. Apply(d, s)[n] \in H[n] OBVIOUS
  <2>1. \A a \in 1..i : a \in 1..Len(s) \/ a \in Len(s) + 1..Len(st) BY <1>1, <1>2
  <2>2. CASE \A a \in 1..Len(s) : s[a].n # n
    <3>1. Apply(d, s)[n] = d[n] BY ONLY <2>2, s \in Seq(Messages), n \in Names, ApplyLast
    <3>2. \A a \in 1..i : st[a].n # n BY <1>1, <1>3, <2>1, <2>2
    <3> QED BY <2>0, <3>1, <3>2
  <2>3. ASSUME NEW a \in 1..Len(s), s[a].n = n, \A b \in a + 1..Len(s) : s[b].n # n
        PROVE  \E b \in 1..i : LastFor(st, i, n, b) /\ st[b].e \in H[n]
    <3>1. Apply(d, s)[n] = s[a].e BY ONLY <2>3, s \in Seq(Messages), n \in Names, ApplyLast
    <3>2. a \in 1..i /\ st[a] = s[a] BY <1>1, <1>2
    <3>3. \A b \in a + 1..i : b \in a + 1..Len(s) \/ b \in Len(s) + 1..Len(st) BY <1>1, <1>2
    <3>4. \A b \in a + 1..Len(s) : st[b] = s[b] BY <1>1
    <3>5. \A b \in a + 1..i : st[b].n # n BY <1>3, <2>3, <3>3, <3>4
    <3>6. LastFor(st, i, n, a) /\ st[a].e \in H[n] BY <2>0, <2>3, <3>1, <3>2, <3>5 DEF LastFor
    <3> QED BY <3>2, <3>6
  <2> QED BY <2>2, <2>3, LastLine
<1>6. Brings(H, d, st, i) BY <1>5 DEF Brings
<1> QED BY <1>4, <1>6 DEF st, i

(* The first line was read.                                                *)
ReadInto(d, x, c) == /\ x \in Signs => c = d
                     /\ x \notin Signs => c = [d EXCEPT ![x.n] = x.e]

LEMMA ReadFirst ==
  ASSUME NEW H, NEW x \in Messages, NEW r \in Seq(Messages), NEW d \in Lists, NEW c, ReadInto(d, x, c)
  PROVE  /\ KnownFrom(H, <<x>> \o r, 1) /\ Current(H, d) => Current(H, c)
         /\ \A j \in 1..Len(r) + 1 : KnownFrom(H, <<x>> \o r, j + 1) => KnownFrom(H, r, j)
         /\ KnownFrom(H, <<x>> \o r, 1) => KnownFrom(H, r, 1)
         /\ \A j \in 1..Len(r) : Brings(H, d, <<x>> \o r, j + 1) => Brings(H, c, r, j)
<1> DEFINE s == <<x>> \o r
<1>1. /\ Len(s) = Len(r) + 1 /\ Len(r) \in Nat /\ s[1] = x
      /\ \A j \in 1..Len(r) : s[j + 1] = r[j] /\ j + 1 \in 1..Len(s)
      /\ \A j \in 1..Len(s) : j = 1 \/ (j - 1 \in 1..Len(r) /\ s[j] = r[j - 1])
  BY FrontIndex
<1> HIDE DEF s
<1>2. \A n \in Names : c[n] = IF x.n = n THEN x.e ELSE d[n]
  <2>1. CASE x \in Signs
    <3>1. x.n \notin Names BY <2>1, SignFacts
    <3> QED BY <2>1, <3>1 DEF ReadInto
  <2>2. CASE x \notin Signs BY <2>2 DEF ReadInto, Lists
  <2> QED BY <2>1, <2>2
<1>3. KnownFrom(H, s, 1) /\ Current(H, d) => Current(H, c)
  <2>1. 1 \in 1..Len(s) BY <1>1
  <2> QED BY <1>1, <1>2, <2>1 DEF KnownFrom, Current
<1>4. ASSUME NEW j \in 1..Len(r) + 1, KnownFrom(H, s, j + 1) PROVE KnownFrom(H, r, j)
  <2>1. \A a \in j..Len(r) : a + 1 \in j + 1..Len(s) /\ s[a + 1] = r[a] BY <1>1
  <2> QED BY <1>4, <2>1 DEF KnownFrom
<1>5. KnownFrom(H, s, 1) => KnownFrom(H, r, 1)
  <2>1. \A a \in 1..Len(r) : a + 1 \in 1..Len(s) /\ s[a + 1] = r[a] BY <1>1
  <2> QED BY <2>1 DEF KnownFrom
<1>6. ASSUME NEW j \in 1..Len(r), Brings(H, d, s, j + 1), NEW n \in Names
      PROVE  \/ c[n] \in H[n] /\ \A a \in 1..j : r[a].n # n
             \/ \E a \in 1..j : LastFor(r, j, n, a) /\ r[a].e \in H[n]
  <2>1. \A a \in 1..j : a + 1 \in 1..j + 1 /\ s[a + 1] = r[a] BY <1>1
  <2>2. 1 \in 1..j + 1 OBVIOUS
  <2>3. CASE d[n] \in H[n] /\ \A a \in 1..j + 1 : s[a].n # n
    <3>1. x.n # n BY <1>1, <2>2, <2>3
    <3> QED BY <1>2, <2>1, <2>3, <3>1
  <2>4. ASSUME NEW a \in 1..j + 1, LastFor(s, j + 1, n, a), s[a].e \in H[n]
        PROVE  \/ c[n] \in H[n] /\ \A b \in 1..j : r[b].n # n
               \/ \E b \in 1..j : LastFor(r, j, n, b) /\ r[b].e \in H[n]
    <3>1. CASE a = 1
      <4>1. x.n = n /\ x.e \in H[n] BY <1>1, <2>4, <3>1 DEF LastFor
      <4>2. \A b \in 1..j : b + 1 \in a + 1..j + 1 BY <3>1
      <4>3. \A b \in 1..j : r[b].n # n BY <2>1, <2>4, <4>2 DEF LastFor
      <4> QED BY <1>2, <4>1, <4>3
    <3>2. CASE a # 1
      <4> DEFINE e == a - 1
      <4>1. e \in 1..j /\ e + 1 = a /\ \A b \in e + 1..j : b + 1 \in a + 1..j + 1 /\ b \in 1..j
        BY <3>2
      <4> HIDE DEF e
      <4>2. r[e].n = n /\ r[e].e \in H[n] BY <2>1, <2>4, <4>1 DEF LastFor
      <4>3. \A b \in e + 1..j : r[b].n # n BY <2>1, <2>4, <4>1 DEF LastFor
      <4> QED BY <4>1, <4>2, <4>3 DEF LastFor
    <3> QED BY <3>1, <3>2
  <2> QED BY <1>6, <2>3, <2>4 DEF Brings
<1>7. \A j \in 1..Len(r) : Brings(H, d, s, j + 1) => Brings(H, c, r, j) BY <1>6 DEF Brings
<1> QED BY <1>3, <1>4, <1>5, <1>7 DEF s

(* The OK is the first: the list is current.                               *)
LEMMA BringsFirst ==
  ASSUME NEW H, NEW d, NEW s, s[1] \in Signs, Brings(H, d, s, 1)
  PROVE  Current(H, d)
<1>1. s[1].n \notin Names BY SignFacts
<1>2. 1 \in 1..1 /\ \A a \in 1..1 : a = 1 OBVIOUS
<1> QED BY <1>1, <1>2 DEF Brings, LastFor, Current

(* The OKs in longer and shorter sequences.                                *)
LEMMA OksMore ==
  ASSUME NEW s \in Seq(Messages), NEW t \in Seq(Messages)
  PROVE  /\ Oks(s) \subseteq Oks(s \o t) /\ Oks(s) \subseteq 1..Len(s)
         /\ \A j \in Oks(s \o t) : j \in Oks(s) \/ (j - Len(s) \in Oks(t) /\ Len(s) + (j - Len(s)) = j)
         /\ \A j \in Oks(t) : Len(s) + j \in Oks(s \o t)
<1> DEFINE st == s \o t
<1>1. /\ Len(st) = Len(s) + Len(t) /\ Len(s) \in Nat /\ Len(t) \in Nat
      /\ \A j \in 1..Len(s) : st[j] = s[j] /\ j \in 1..Len(st)
      /\ \A j \in 1..Len(t) : st[Len(s) + j] = t[j] /\ Len(s) + j \in 1..Len(st)
      /\ \A j \in 1..Len(st) : j \in 1..Len(s) \/ (j > Len(s) /\ j - Len(s) \in 1..Len(t) /\ st[j] = t[j - Len(s)])
  BY ConcatIndex
<1> HIDE DEF st
<1>2. Oks(s) \subseteq Oks(st) /\ Oks(s) \subseteq 1..Len(s) BY <1>1 DEF Oks
<1>3. ASSUME NEW j \in Oks(st) PROVE j \in Oks(s) \/ (j - Len(s) \in Oks(t) /\ Len(s) + (j - Len(s)) = j)
  <2>1. j \in 1..Len(st) /\ st[j] = OK BY DEF Oks
  <2>2. Len(s) + (j - Len(s)) = j BY <1>1, <2>1
  <2>3. CASE j \in 1..Len(s) BY <1>1, <2>1, <2>3 DEF Oks
  <2>4. CASE j - Len(s) \in 1..Len(t) /\ st[j] = t[j - Len(s)] BY <2>1, <2>2, <2>4 DEF Oks
  <2> QED BY <1>1, <2>1, <2>3, <2>4
<1>4. \A j \in Oks(t) : Len(s) + j \in Oks(st) BY <1>1 DEF Oks
<1> QED BY <1>2, <1>3, <1>4 DEF st

LEMMA OksFront ==
  ASSUME NEW x \in Messages, NEW r \in Seq(Messages)
  PROVE  /\ Len(<<x>> \o r) = Len(r) + 1 /\ Len(r) \in Nat /\ (<<x>> \o r)[1] = x /\ Oks(r) \subseteq 1..Len(r)
         /\ \A j \in Oks(r) : j + 1 \in Oks(<<x>> \o r)
         /\ \A j \in Oks(<<x>> \o r) : j = 1 \/ (j - 1 \in Oks(r) /\ (j - 1) + 1 = j)
         /\ x = OK => 1 \in Oks(<<x>> \o r)
         /\ x # OK => 1 \notin Oks(<<x>> \o r)
<1> DEFINE s == <<x>> \o r
<1>1. /\ Len(s) = Len(r) + 1 /\ Len(r) \in Nat /\ s[1] = x
      /\ \A j \in 1..Len(r) : s[j + 1] = r[j] /\ j + 1 \in 1..Len(s)
      /\ \A j \in 1..Len(s) : j = 1 \/ (j - 1 \in 1..Len(r) /\ s[j] = r[j - 1])
  BY FrontIndex
<1> HIDE DEF s
<1>2. \A j \in Oks(r) : j + 1 \in Oks(s) BY <1>1 DEF Oks
<1>3. ASSUME NEW j \in Oks(s) PROVE j = 1 \/ (j - 1 \in Oks(r) /\ (j - 1) + 1 = j)
  <2>1. j \in 1..Len(s) /\ s[j] = OK BY DEF Oks
  <2>2. (j - 1) + 1 = j BY <2>1
  <2> QED BY <1>1, <2>1, <2>2 DEF Oks
<1>4. (x = OK => 1 \in Oks(s)) /\ (x # OK => 1 \notin Oks(s))
  <2>1. 1 \in 1..Len(s) BY <1>1
  <2> QED BY <1>1, <2>1 DEF Oks
<1>5. Oks(r) \subseteq 1..Len(r) BY DEF Oks
<1> QED BY <1>1, <1>2, <1>3, <1>4, <1>5 DEF s

(* A node and its connection stay as they are, but for a name that is      *)
(* queued, or their server died.                                           *)
Stay(m) == up'[m] = up[m] /\ alive'[m] = alive[m] /\ Logged(m)
Cut(m) == up'[m] = <<>> /\ ~alive'[m] /\ srv'[m] = NoConn
Kept(m) == /\ cl'[m] = cl[m] /\ down'[m] = down[m] /\ db'[m] = db[m]
           /\ Stay(m) \/ Cut(m)

LEMMA KeptFacts ==
  ASSUME Types, NEW m \in Slaves, Kept(m)
  PROVE  /\ Sent(m)' = Sent(m) /\ Predicted(m)' = Predicted(m)
         /\ Stay(m) => srv'[m].pc = srv[m].pc /\ srv'[m].todo = srv[m].todo /\ (Busy(m)' <=> Busy(m))
         /\ Cut(m) => ~Busy(m)' /\ ~Flushes(m)' /\ srv'[m].pc = "none"
<1>1. Sent(m)' = Sent(m) BY DEF Kept, Sent
<1>2. Predicted(m)' = Predicted(m) BY <1>1 DEF Kept, Predicted, Empty
<1>3. ASSUME Stay(m) PROVE srv'[m].pc = srv[m].pc /\ srv'[m].todo = srv[m].todo
  <2>1. srv[m] \in Threads BY TypesDef
  <2> QED BY <1>3, <2>1 DEF Stay, Logged, Threads
<1>4. Stay(m) => (Busy(m)' <=> Busy(m)) BY <1>3 DEF Busy
<1>5. Cut(m) => ~Busy(m)' /\ ~Flushes(m)' /\ srv'[m].pc = "none"
  BY NoConnOK DEF Cut, Busy, Flushes
<1> QED BY <1>1, <1>2, <1>3, <1>4, <1>5

LEMMA KeptNoop ==
  ASSUME Types, NEW m \in Slaves, Kept(m), NoopOK(m)
  PROVE  NoopOK(m)'
<1> DEFINE O == Oks(Sent(m))
<1>0. Oks(Sent(m))' = O /\ cl'[m] = cl[m] BY KeptFacts DEF Kept, Oks
<1>1. Copying(m) => Copying(m)'
  <2>1. CASE Stay(m)
    <3>1. up'[m] = up[m] /\ Sent(m)' = Sent(m) /\ (Busy(m)' <=> Busy(m))
      BY <2>1, KeptFacts DEF Stay
    <3> QED BY <1>0, <3>1 DEF Copying, Plain, Signs
  <2>2. CASE Cut(m)
    <3>1. up'[m] = <<>> /\ Sent(m)' = Sent(m) /\ ~Busy(m)' BY <2>2, KeptFacts DEF Cut
    <3>2. 1..Len(up'[m]) = {} BY <3>1
    <3> QED BY <1>0, <3>1, <3>2 DEF Copying, Plain, Signs
  <2> QED BY <2>1, <2>2 DEF Kept
<1>2. Silent(m) => Silent(m)'
  <2>1. CASE Stay(m) BY <1>0, <2>1, KeptFacts DEF Silent, Stay
  <2>2. CASE Cut(m) BY <1>0, <2>2, KeptFacts DEF Silent, Cut
  <2> QED BY <2>1, <2>2 DEF Kept
<1>3. One(m) => One(m)' \/ Silent(m)'
  <2> HIDE DEF O
  <2>1. CASE Stay(m)
    <3>1. up'[m] = up[m] /\ (Busy(m)' <=> Busy(m)) BY <2>1, KeptFacts DEF Stay
    <3> QED BY <1>0, <3>1 DEF One, O
  <2>2. CASE Cut(m)
    <3>1. up'[m] = <<>> /\ ~Busy(m)' BY <2>2, KeptFacts DEF Cut
    <3> QED BY <1>0, <3>1 DEF One, Silent, O
  <2> QED BY <2>1, <2>2 DEF Kept
<1> QED BY <1>0, <1>1, <1>2, <1>3 DEF NoopOK

LEMMA KeptClean ==
  ASSUME Types, NEW m \in Slaves, Kept(m), NEW k, Grown(had[k], had'[k]), CleanAt(k, m)
  PROVE  CleanAt(k, m)'
<1>1. Sent(m)' = Sent(m) /\ cl'[m] = cl[m] /\ db'[m] = db[m] /\ Oks(Sent(m))' = Oks(Sent(m))
  BY KeptFacts DEF Kept, Oks
<1>2. m # Master BY NodeFacts
<1>3. Current(had'[k], db[m]) /\ KnownFrom(had'[k], Sent(m), 1) BY <1>2, KnownGrown DEF CleanAt
<1>4. ASSUME cl[m].pc = "sync", NEW j \in Oks(Sent(m)) PROVE NoneLeft(had'[k], Sent(m), j)
  BY <1>2, <1>4, KnownGrown DEF CleanAt
<1>5. Current(had[k], db[m])' BY <1>1, <1>3 DEF Current
<1>6. KnownFrom(had[k], Sent(m), 1)' BY <1>1, <1>3 DEF KnownFrom
<1>7. ASSUME cl'[m].pc = "sync", NEW j \in Oks(Sent(m))' PROVE NoneLeft(had[k], Sent(m), j)'
  <2>1. NoneLeft(had'[k], Sent(m), j) BY <1>1, <1>4, <1>7
  <2> QED BY <1>1, <2>1 DEF NoneLeft
<1> QED BY <1>5, <1>6, <1>7 DEF CleanAt

LEMMA KeptStage ==
  ASSUME Types, NEW m \in Slaves, Kept(m), NEW k \in Kickers, Grown(had[k], had'[k]),
         Reached(k, m)' => Reached(k, m) /\ (kick'[m] = "ok" => kick[m] = "ok" \/ Clean(k, Up(m))),
         Stage(k, m), Reached(k, m) /\ Clean(k, Up(m)) => Clean(k, Up(m))'
  PROVE  Stage(k, m)'
<1> SUFFICES ASSUME Reached(k, m)'
             PROVE  /\ Past(m)' => Clean(k, Up(m))'
                    /\ Flushes(m)' => Flushed(k, m)'
                    /\ Confirmed(k, m)'
  BY DEF Stage
<1>0. Reached(k, m) OBVIOUS
<1>1. /\ Sent(m)' = Sent(m) /\ Oks(Sent(m))' = Oks(Sent(m)) /\ db'[m] = db[m]
      /\ Predicted(m)' = Predicted(m)
  BY KeptFacts DEF Kept, Oks
<1>2. Flushes(m)' => Flushes(m) /\ srv'[m].todo = srv[m].todo
  <2>1. CASE Stay(m) BY <2>1, KeptFacts DEF Flushes, Stay
  <2>2. CASE Cut(m) BY <2>2, KeptFacts
  <2> QED BY <2>1, <2>2 DEF Kept
<1>3. srv'[m].pc = "kick" => srv[m].pc = "kick" BY KeptFacts DEF Kept
<1>4. Past(m)' => Past(m) \/ Clean(k, Up(m)) BY <1>1, <1>2, <1>3 DEF Past
<1>5. Past(m)' => Clean(k, Up(m))' BY <1>0, <1>4 DEF Stage
<1>6. Flushes(m)' => Flushed(k, m)' BY <1>0, <1>1, <1>2 DEF Stage, Flushed, Grown
<1>7. ASSUME NEW j \in Oks(Sent(m))
      PROVE  Brings(had'[k], db[m], Sent(m), j) /\ KnownFrom(had'[k], Sent(m), j)
  <2>1. Brings(had[k], db[m], Sent(m), j) /\ KnownFrom(had[k], Sent(m), j)
    BY <1>0 DEF Stage, Confirmed
  <2>2. j \in 1..Len(Sent(m)) BY DEF Oks
  <2> QED BY <2>1, <2>2, KnownGrown, BringsGrown
<1>8. Confirmed(k, m)' BY <1>1, <1>7 DEF Confirmed, Brings, LastFor, KnownFrom
<1> QED BY <1>5, <1>6, <1>8

(* What the invariant says, for one kick and one node.                     *)
LEMMA KickParts ==
  ASSUME KickInv
  PROVE  /\ StreamInv /\ TypeInv /\ Types /\ HoldInv /\ KickFresh
         /\ \A i \in Slaves : ServerOK(i) /\ ClientOK(i) /\ HoldOK(i)
         /\ \A k \in Kickers : MasterOK(k) /\ k \in Kicks
         /\ ~doubt => missed = {} /\ \A i \in Slaves : /\ InStep(i) /\ NoopOK(i)
                                                       /\ \A k \in Kickers : Stage(k, i)
<1>1. /\ StreamInv /\ TypeInv /\ Types /\ HoldInv /\ KickFresh
      /\ \A i \in Slaves : ServerOK(i) /\ ClientOK(i) /\ HoldOK(i)
      /\ \A k \in Kickers : MasterOK(k) /\ k \in Kicks
  BY DEF KickInv, StreamInv, TypeInv, HoldInv, Kicks
<1>2. ~doubt => missed = {} BY <1>1 DEF HoldInv
<1>3. ~doubt => \A i \in Slaves : NoopOK(i) /\ \A k \in Kickers : Stage(k, i) BY DEF KickInv
<1>4. missed = {} => \A i \in Slaves : InStep(i) BY <1>1 DEF StreamInv, Streamed
<1> QED BY <1>1, <1>2, <1>3, <1>4

(* What a step of node i must show.                                        *)
HeldKept(i) == /\ \A k \in Kicks : kick'[k] = "held" /\ Home(k) # i => kick[k] = "held"
               /\ \A k \in Kickers : kick'[k] = "held" => Grown(had[k], had'[k])
ReachKept(i) == \A k \in Kickers, m \in Slaves \ {i} :
                  Reached(k, m)' => Reached(k, m) /\ (kick'[m] = "ok" => kick[m] = "ok" \/ Clean(k, Up(m)))
NodeStep(i) ==
  /\ NoopOK(i)'
  /\ \A k \in Kickers : kick[k] = "held" /\ kick'[k] = "held" /\ CleanAt(k, i) /\ CleanAt(k, Up(i)) => CleanAt(k, i)'
  /\ \A k \in Kickers : /\ Reached(k, i)'
                        /\ kick[k] = "held" /\ Clean(k, Up(i)) => Clean(k, Up(i))'
                        => Stage(k, i)'

LEMMA CleanStep ==
  ASSUME Types, NEW i, \A m \in Slaves \ {i} : Kept(m), NEW k \in Kickers, MasterOK(k)',
         kick'[k] = "held", kick[k] = "held", Grown(had[k], had'[k]),
         i \in Slaves => (CleanAt(k, i) /\ CleanAt(k, Up(i)) => CleanAt(k, i)'),
         NEW u \in Nodes, Clean(k, u)
  PROVE  Clean(k, u)'
<1> SUFFICES ASSUME NEW v \in 1..u PROVE CleanAt(k, v)'
  BY DEF Clean
<1>0. v \in Nodes /\ CleanAt(k, v) BY NodeAssumption DEF Clean, Nodes
<1>1. CASE v = Master BY <1>1 DEF CleanAt, MasterOK
<1>2. CASE v # Master
  <2>1. v \in Slaves BY <1>0, <1>2 DEF Slaves, Nodes, Master
  <2>2. CASE v # i BY <1>0, <2>1, <2>2, KeptClean
  <2>3. CASE v = i
    <3>1. Up(v) \in 1..u BY <2>1, NodeAssumption DEF Slaves, Nodes, Up
    <3>2. CleanAt(k, Up(v)) BY <3>1 DEF Clean
    <3> QED BY <1>0, <2>1, <2>3, <3>2
  <2> QED BY <2>2, <2>3
<1> QED BY <1>1, <1>2

LEMMA KickStep ==
  ASSUME KickInv, StreamInv', NEW i, \A m \in Slaves \ {i} : Kept(m),
         doubt => doubt', missed' # {} => missed # {} \/ doubt',
         HeldKept(i), \A k \in Kickers : MasterOK(k)', KickFresh',
         i \in Slaves => HoldOK(i)', ~doubt' => ReachKept(i) /\ (i \in Slaves => NodeStep(i))
  PROVE  KickInv'
<1>0. Types BY KickParts
<1>1. ASSUME NEW m \in Slaves PROVE HoldOK(m)'
  <2>1. CASE m = i BY <2>1
  <2>2. CASE m # i
    <3>1. cl'[m] = cl[m] /\ HoldOK(m) BY <2>2, KickParts DEF Kept
    <3>2. ASSUME NEW k \in Kicks, Home(k) = m, kick'[k] = "held" PROVE k \in cl'[m].held
      <4>1. kick[k] = "held" BY <2>2, <3>2 DEF HeldKept
      <4> QED BY <3>1, <3>2, <4>1 DEF HoldOK
    <3> QED BY <3>1, <3>2 DEF HoldOK
  <2> QED BY <2>1, <2>2
<1>2. HoldInv'
  <2>1. missed' # {} => doubt' BY KickParts DEF HoldInv
  <2> QED BY <1>1, <2>1 DEF HoldInv
<1>3. ASSUME ~doubt', NEW m \in Slaves PROVE NoopOK(m)'
  <2>0. ~doubt BY <1>3
  <2>1. CASE m = i BY <1>3, <2>1 DEF NodeStep
  <2>2. CASE m # i BY <1>0, <2>0, <2>2, KickParts, KeptNoop
  <2> QED BY <2>1, <2>2
<1>4. ASSUME ~doubt', NEW m \in Slaves, NEW k \in Kickers PROVE Stage(k, m)'
  <2> SUFFICES ASSUME Reached(k, m)' PROVE Stage(k, m)'
    BY DEF Stage
  <2>1. ~doubt /\ Stage(k, m) BY <1>4, KickParts
  <2>2. kick'[k] = "held" /\ Grown(had[k], had'[k]) BY DEF Reached, HeldKept
  <2>3. i \in Slaves /\ kick[k] = "held" => (CleanAt(k, i) /\ CleanAt(k, Up(i)) => CleanAt(k, i)')
    BY <1>4, <2>2 DEF NodeStep
  <2>4. kick[k] = "held" /\ Clean(k, Up(m)) => Clean(k, Up(m))'
    <3>1. Up(m) \in Nodes BY NodeFacts
    <3> QED BY <1>0, <2>2, <2>3, <3>1, CleanStep
  <2>5. CASE m = i BY <1>4, <2>4, <2>5 DEF NodeStep
  <2>6. CASE m # i
    <3>1. Reached(k, m) /\ (kick'[m] = "ok" => kick[m] = "ok" \/ Clean(k, Up(m)))
      BY <1>4, <2>6 DEF ReachKept
    <3>2. kick[k] = "held" BY <3>1 DEF Reached
    <3> QED BY <1>0, <2>1, <2>2, <2>4, <2>6, <3>1, <3>2, KeptStage
  <2> QED BY <2>5, <2>6
<1> QED BY <1>2, <1>3, <1>4 DEF KickInv

(* The node that the kick reached waits for its OK.                        *)
LEMMA ReachedListens ==
  ASSUME KickInv, NEW i \in Slaves, NEW k \in Kickers, Reached(k, i)
  PROVE  /\ cl[i].waiting_for_noop /\ cl[i].pc \in {"listen", "scarf"} /\ kick[k] = "held"
         /\ \E m \in Kicks : Home(m) = i /\ m \in cl[i].held
<1>1. HoldOK(i) BY KickParts
<1>2. i \in Int /\ i <= N /\ N \in Nat BY NodeAssumption DEF Slaves
<1>3. \E m \in Kicks : Home(m) = i /\ kick[m] = "held"
  <2>1. CASE i = N
    <3>1. k \in Kicks /\ Home(k) = N BY NodeFacts DEF Kicks
    <3> QED BY <2>1, <3>1 DEF Reached
  <2>2. CASE i # N
    <3>1. i + 1 \in i + 1..N /\ i + 1 \in Slaves /\ Up(i + 1) = i BY <1>2, <2>2 DEF Slaves, Up
    <3>2. i + 1 \in Kicks /\ Home(i + 1) = i BY <3>1, NodeFacts DEF Kicks
    <3> QED BY <3>1, <3>2 DEF Reached
  <2> QED BY <2>1, <2>2
<1>4. PICK m \in Kicks : Home(m) = i /\ kick[m] = "held" BY <1>3
<1>5. m \in cl[i].held BY <1>1, <1>4 DEF HoldOK
<1> QED BY <1>1, <1>4, <1>5 DEF HoldOK, Reached

(* A step that takes no kick and tells none "ok".                          *)
QuietKicks == /\ \A k \in Kicks : kick'[k] \in {"held", "ok"} => kick'[k] = kick[k]
              /\ \A k \in Kickers : kick'[k] = "wait" => kick[k] = "wait"
              /\ had' = had /\ fresh' = fresh /\ db'[Master] = db[Master]

LEMMA ReachedBefore ==
  ASSUME QuietKicks, NEW k \in Kickers, NEW m \in Slaves
  PROVE  /\ Reached(k, m)' => Reached(k, m) /\ kick'[k] = "held"
         /\ kick'[m] = "ok" => kick[m] = "ok"
<1>1. k \in Kicks /\ m \in Kicks BY DEF Kicks
<1>2. \A j \in m + 1..N : j \in Kicks BY NodeAssumption DEF Kicks, Slaves
<1> QED BY <1>1, <1>2 DEF QuietKicks, Reached

LEMMA FrameStep ==
  ASSUME KickInv, StreamInv', NEW i \in Slaves, \A m \in Slaves \ {i} : Kept(m), QuietKicks,
         doubt => doubt', missed' # {} => missed # {} \/ doubt', HoldOK(i)', ~doubt' => NodeStep(i)
  PROVE  KickInv'
<1>1. HeldKept(i) BY DEF HeldKept, QuietKicks, Grown, Kicks
<1>2. \A k \in Kickers : MasterOK(k)'
  <2>1. \A k \in Kickers : MasterOK(k) /\ k \in Kicks BY KickParts
  <2> QED BY <2>1 DEF MasterOK, QuietKicks, Current
<1>3. KickFresh'
  <2>1. KickFresh BY KickParts
  <2>2. \A k \in Kickers : kick'[k] = "ok" => kick[k] = "ok" BY DEF QuietKicks, Kicks
  <2> QED BY <2>1, <2>2 DEF KickFresh, QuietKicks
<1>4. ReachKept(i) BY ReachedBefore DEF ReachKept
<1> QED BY <1>1, <1>2, <1>3, <1>4, KickStep

(* The steps of the server of a stream: t is sent behind the lines.        *)
Ending(i) == Flushes(i) /\ srv[i].todo = {}
Answers(i, t) ==
  /\ NoopOK(i)'
  /\ cl[i].pc = "sync" =>
       \A j \in Oks(t), n \in Names : (\A a \in 1..j : t[a].n # n) => db[Up(i)][n] = None
  /\ Oks(t) # {} /\ cl[i].pc # "sync" => Ending(i) /\ \A a \in 1..Len(t) : t[a] \in Signs
  /\ \A k \in Kickers : Reached(k, i) =>
       /\ Past(i)' => Past(i) \/ Clean(k, Up(i))
       /\ Flushes(i)' /\ Current(had[k], db[Up(i)]) => Flushed(k, i)'

LEMMA UpClean ==
  ASSUME NEW i \in Slaves, NEW k, Clean(k, Up(i))
  PROVE  CleanAt(k, Up(i)) /\ Current(had[k], db[Up(i)])
<1>1. Up(i) \in 1..Up(i) BY NodeAssumption DEF Slaves, Up
<1> QED BY <1>1 DEF Clean, CleanAt

LEMMA ServerStep ==
  ASSUME KickInv, StreamInv', NEW i \in Slaves, \A m \in Slaves \ {i} : Kept(m), QuietKicks,
         doubt => doubt', missed' \subseteq missed, cl' = cl, db' = db,
         NEW t \in Seq(Messages), FromList(t, db[Up(i)]), Sent(i)' = Sent(i) \o t,
         ~doubt' => Answers(i, t)
  PROVE  KickInv'
<1> DEFINE s == Sent(i)
<1>0. Types /\ s \in Seq(Messages) BY KickParts, SentOK
<1>1. HoldOK(i)'
  <2>1. HoldOK(i) BY KickParts
  <2> QED BY <2>1 DEF HoldOK, QuietKicks
<1>2. ASSUME ~doubt', NEW k \in Kickers, CleanAt(k, i), CleanAt(k, Up(i)) PROVE CleanAt(k, i)'
  <2>1. i # Master /\ Current(had[k], db[i]) /\ KnownFrom(had[k], s, 1) /\ Current(had[k], db[Up(i)])
    BY <1>2, NodeFacts DEF CleanAt
  <2>2. KnownFrom(had[k], s \o t, 1)
    <3>1. 1 \in 1..Len(s) + 1 BY <1>0
    <3> HIDE DEF s
    <3> QED BY <1>0, <2>1, <3>1, KnownMore
  <2>3. ASSUME cl[i].pc = "sync", NEW j \in Oks(s \o t) PROVE NoneLeft(had[k], s \o t, j)
    <3>1. CASE j \in Oks(s)
      <4>1. NoneLeft(had[k], s, j) BY <1>2, <2>1, <2>3, <3>1 DEF CleanAt
      <4> HIDE DEF s
      <4>2. j \in Nat /\ \A a \in 1..j : (s \o t)[a] = s[a]
        <5>1. j \in 1..Len(s) /\ Len(s) \in Nat BY <1>0, <3>1 DEF Oks
        <5>2. \A a \in 1..j : a \in 1..Len(s) BY <5>1
        <5> QED BY <1>0, <5>1, <5>2, ConcatIndex
      <4> QED BY <4>1, <4>2, SamePart
    <3>2. CASE j - Len(s) \in Oks(t) /\ Len(s) + (j - Len(s)) = j
      <4> DEFINE b == j - Len(s)
      <4>1. \A n \in Names : (\A a \in 1..b : t[a].n # n) => db[Up(i)][n] = None
        BY <1>2, <2>3, <3>2 DEF Answers
      <4>2. b \in 1..Len(t) /\ Len(s) + b = j BY <3>2 DEF Oks
      <4> HIDE DEF b, s
      <4>3. \A a \in 1..b : Len(s) + a \in 1..j /\ (s \o t)[Len(s) + a] = t[a]
        <5>1. \A a \in 1..b : a \in 1..Len(t) BY <1>0, <4>2
        <5>2. \A a \in 1..b : (s \o t)[Len(s) + a] = t[a] BY <1>0, <5>1, ConcatIndex
        <5>3. \A a \in 1..b : Len(s) + a \in 1..j BY <1>0, <4>2
        <5> QED BY <5>2, <5>3
      <4> QED BY <2>1, <4>1, <4>3 DEF NoneLeft, Current
    <3> QED BY <1>0, <2>3, <3>1, <3>2, OksMore
  <2>4. Sent(i)' = s \o t /\ Oks(Sent(i))' = Oks(s \o t) /\ db'[i] = db[i] /\ cl'[i] = cl[i] /\ had' = had
    BY DEF QuietKicks, Oks
  <2> HIDE DEF s
  <2> QED BY <2>1, <2>2, <2>3, <2>4 DEF CleanAt, Current, KnownFrom, NoneLeft
<1>3. ASSUME ~doubt', NEW k \in Kickers, Reached(k, i)', kick[k] = "held" /\ Clean(k, Up(i)) => Clean(k, Up(i))'
      PROVE  Stage(k, i)'
  <2>1. Reached(k, i) /\ kick[k] = "held" BY <1>3, ReachedBefore DEF Reached
  <2>2. Stage(k, i) BY <1>3, KickParts
  <2>3. Past(i)' => Clean(k, Up(i)) BY <1>3, <2>1, <2>2 DEF Answers, Stage
  <2>4. Flushes(i)' => Flushed(k, i)' BY <1>3, <2>1, <2>3, UpClean DEF Answers, Past
  <2>5. ASSUME NEW j \in Oks(s \o t)
        PROVE  Brings(had[k], db[i], s \o t, j) /\ KnownFrom(had[k], s \o t, j)
    <3>1. CASE j \in Oks(s)
      <4>1. Brings(had[k], db[i], s, j) /\ KnownFrom(had[k], s, j) /\ Past(i)
        BY <2>1, <2>2, <3>1 DEF Stage, Confirmed, Past
      <4>2. Current(had[k], db[Up(i)]) BY <2>1, <2>2, <4>1, UpClean DEF Stage
      <4> HIDE DEF s
      <4>3. j \in Nat /\ j \in 1..Len(s) + 1 /\ \A a \in 1..j : (s \o t)[a] = s[a]
        <5>1. j \in 1..Len(s) /\ Len(s) \in Nat BY <1>0, <3>1 DEF Oks
        <5>2. \A a \in 1..j : a \in 1..Len(s) BY <5>1
        <5> QED BY <1>0, <5>1, <5>2, ConcatIndex
      <4>4. Brings(had[k], db[i], s \o t, j) BY <4>1, <4>3, SamePart
      <4>5. KnownFrom(had[k], s \o t, j) BY <1>0, <4>1, <4>2, <4>3, KnownMore
      <4> QED BY <4>4, <4>5
    <3>2. CASE j - Len(s) \in Oks(t) /\ Len(s) + (j - Len(s)) = j
      <4>1. cl[i].pc # "sync" BY <2>1, ReachedListens
      <4>2. Ending(i) /\ \A a \in 1..Len(t) : t[a] \in Signs BY <1>3, <3>2, <4>1 DEF Answers
      <4>3. \A n \in Names : Apply(db[i], s)[n] \in had[k][n]
        BY <2>1, <2>2, <4>1, <4>2 DEF Stage, Ending, Flushed, Predicted
      <4> DEFINE b == j - Len(s)
      <4>4. b \in 1..Len(t) /\ Len(s) + b = j BY <3>2 DEF Oks
      <4> HIDE DEF b, s
      <4>5. Brings(had[k], db[i], s \o t, Len(s) + b) /\ KnownFrom(had[k], s \o t, Len(s) + b)
        BY <1>0, <4>2, <4>3, <4>4, BringsEnd
      <4> QED BY <4>4, <4>5
    <3> QED BY <1>0, <3>1, <3>2, OksMore
  <2>6. Sent(i)' = s \o t /\ Oks(Sent(i))' = Oks(s \o t) /\ db'[i] = db[i] /\ had' = had
    BY DEF QuietKicks, Oks
  <2> HIDE DEF s
  <2>7. ASSUME NEW j \in Oks(Sent(i))'
        PROVE  Brings(had[k], db[i], Sent(i), j)' /\ KnownFrom(had[k], Sent(i), j)'
    <3> DEFINE st == s \o t
    <3>1. j \in Oks(st) /\ Sent(i)' = st BY <2>6, <2>7
    <3>2. Brings(had[k], db[i], st, j) /\ KnownFrom(had[k], st, j) BY <2>5, <3>1
    <3> HIDE DEF st
    <3>3. Brings(had[k], db[i], Sent(i), j)' BY <2>6, <3>1, <3>2 DEF Brings, LastFor
    <3>4. KnownFrom(had[k], Sent(i), j)' BY <2>6, <3>1, <3>2 DEF KnownFrom
    <3> QED BY <3>3, <3>4
  <2>8. Confirmed(k, i)' BY <2>7 DEF Confirmed
  <2> QED BY <1>3, <2>1, <2>3, <2>4, <2>8 DEF Stage
<1>4. ~doubt' => NodeStep(i) BY <1>2, <1>3 DEF NodeStep, Answers
<1> QED BY <1>1, <1>4, FrameStep

(* A step of the server that sends no OK and takes no command.             *)
LEMMA OksSame ==
  ASSUME NEW s \in Seq(Messages), NEW t \in Seq(Messages), Oks(t) = {}
  PROVE  /\ Oks(s \o t) = Oks(s) /\ \A j \in Oks(s) : j \in 1..Len(s) /\ (Plain(s, j - 1) => Plain(s \o t, j - 1))
<1>1. Oks(s \o t) = Oks(s)
  <2> DEFINE st == s \o t
  <2>1. Oks(s) \subseteq Oks(st) /\ \A j \in Oks(st) : j \in Oks(s) \/ j - Len(s) \in Oks(t)
    BY OksMore
  <2> HIDE DEF st
  <2>2. \A j \in Oks(st) : j \in Oks(s) BY <2>1
  <2> QED BY <2>1, <2>2 DEF st
<1>2. ASSUME NEW j \in Oks(s) PROVE j \in 1..Len(s) /\ (Plain(s, j - 1) => Plain(s \o t, j - 1))
  <2>1. j \in 1..Len(s) /\ Len(s) \in Nat BY DEF Oks
  <2>2. j - 1 \in Nat /\ \A a \in 1..j - 1 : a \in 1..Len(s) BY <2>1
  <2>3. \A a \in 1..j - 1 : (s \o t)[a] = s[a] BY <2>2, ConcatIndex
  <2>4. \A a \in 1..j - 1 : s[a] \notin Signs => (s \o t)[a] \notin Signs BY <2>3
  <2> QED BY <2>1, <2>4 DEF Plain
<1> QED BY <1>1, <1>2

LEMMA NoopMove ==
  ASSUME NEW i \in Slaves, NoopOK(i), cl'[i] = cl[i],
         Copying(i) => Copying(i)', Silent(i) => Silent(i)', One(i) => One(i)' \/ Silent(i)'
  PROVE  NoopOK(i)'
BY DEF NoopOK

LEMMA NoopStays ==
  ASSUME Types, NEW i \in Slaves, NoopOK(i), cl'[i] = cl[i], up'[i] = up[i], Busy(i)' <=> Busy(i),
         NEW t \in Seq(Messages), Sent(i)' = Sent(i) \o t, Oks(t) = {}
  PROVE  NoopOK(i)'
<1> DEFINE s == Sent(i)
<1>1. s \in Seq(Messages) BY SentOK
<1>2. Sent(i)' = s \o t /\ Oks(Sent(i))' = Oks(s) BY <1>1, OksSame DEF Oks
<1>3. \A j \in Oks(s) : Plain(s, j - 1) => Plain(s \o t, j - 1) BY <1>1, OksSame
<1> HIDE DEF s
<1>4. Copying(i) => Copying(i)'
  <2> SUFFICES ASSUME Copying(i), NEW j \in Oks(s), up[i] = <<>> PROVE Plain(Sent(i), j - 1)'
    BY <1>2 DEF Copying, s
  <2>1. Plain(s \o t, j - 1) BY <1>3 DEF Copying, s
  <2> QED BY <1>2, <2>1 DEF Plain, Signs
<1>5. Silent(i) => Silent(i)' BY <1>2 DEF Silent, s
<1>6. One(i) => One(i)' BY <1>2 DEF One, s
<1> QED BY <1>4, <1>5, <1>6, NoopMove

LEMMA NothingSent ==
  ASSUME Types, NEW i \in Slaves, cl'[i] = cl[i], down'[i] = down[i], NEW d
  PROVE  /\ <<>> \in Seq(Messages) /\ Sent(i)' = Sent(i) \o <<>> /\ Sent(i)' = Sent(i)
         /\ Oks(<<>>) = {} /\ FromList(<<>>, d)
<1> DEFINE e == <<>>
<1>1. e \in Seq(Messages) /\ Len(e) = 0 /\ 1..Len(e) = {} OBVIOUS
<1>2. Sent(i) \in Seq(Messages) BY SentOK
<1>3. Sent(i)' = Sent(i) BY DEF Sent
<1>4. Sent(i) \o <<>> = Sent(i)
  <2> DEFINE s == Sent(i)
  <2>1. s \in Seq(Messages) BY <1>2
  <2> HIDE DEF s
  <2>2. s \o <<>> = s BY ONLY <2>1, ConcatFacts
  <2> QED BY <2>2 DEF s
<1> HIDE DEF e
<1>5. Oks(e) = {} /\ FromList(e, d) BY <1>1 DEF Oks, FromList
<1> QED BY <1>1, <1>3, <1>4, <1>5 DEF e

(* A thread that sends nothing.                                            *)
LEMMA ThreadStep ==
  ASSUME KickInv, StreamInv', NEW i \in Slaves, UNCHANGED <<db, cl, down, had, fresh, missed>>,
         \A m \in Slaves \ {i} : srv'[m] = srv[m] /\ up'[m] = up[m] /\ alive'[m] = alive[m],
         QuietKicks, doubt => doubt', ~doubt' => NoopOK(i)',
         ~doubt' => \A k \in Kickers : Reached(k, i) =>
           /\ Past(i)' => Past(i) \/ Clean(k, Up(i))
           /\ Flushes(i)' /\ Current(had[k], db[Up(i)]) => Flushed(k, i)'
  PROVE  KickInv'
<1> DEFINE e == <<>>
<1>1. /\ e \in Seq(Messages) /\ Sent(i)' = Sent(i) \o e
      /\ Oks(e) = {} /\ FromList(e, db[Up(i)])
  BY KickParts, NothingSent
<1> HIDE DEF e
<1>2. \A m \in Slaves \ {i} : Kept(m) BY DEF Kept, Stay, Logged
<1>3. ~doubt' => Answers(i, e) BY <1>1 DEF Answers
<1> QED BY <1>1, <1>2, <1>3, ServerStep

(* The queue that is taken when all that is in it is as new as the kick.   *)
LEMMA GrabFlushed ==
  ASSUME Types, StreamInv', NEW i \in Slaves, missed' = {}, srv' = Grab(i, "noop2"), srv[i].todo = {},
         srv[i].streaming, UNCHANGED <<cl, db, had>>, cl[i].pc # "down", Flushes(i)',
         NEW k, Current(had[k], db[Up(i)])
  PROVE  Flushed(k, i)'
<1>1. srv'[i].todo = srv[i].plist /\ srv'[i].plist = {} /\ srv'[i].streaming BY GrabOK
<1>2. InStep(i)' BY DEF StreamInv, Streamed
<1>3. alive'[i] BY DEF Flushes
<1>4. \A n \in Names : Predicted(i)'[n] # db'[Up(i)][n] => n \in srv'[i].todo
  BY <1>1, <1>2, <1>3 DEF InStep
<1> QED BY <1>4 DEF Flushed, Current

(* A kick that is asked for, or whose answer is read, is not held.         *)
LEMMA AskKick ==
  ASSUME Types, NEW i \in Slaves, NEW a \in {"idle", "wait"}, kick' = [kick EXCEPT ![i] = a],
         UNCHANGED <<had, fresh, db>>
  PROVE  QuietKicks
<1>1. \A k \in Kicks : kick'[k] = IF k = i THEN a ELSE kick[k] BY DEF Types
<1>2. \A k \in Kickers : k \in Kicks /\ k # i BY NodeFacts DEF Kicks
<1> QED BY <1>1, <1>2 DEF QuietKicks

LEMMA NoKick ==
  ASSUME UNCHANGED <<kick, had, fresh, db>>
  PROVE  QuietKicks
BY DEF QuietKicks

LEMMA NoopFresh == ASSUME KickInv, StreamInv', NEW i \in Slaves, cmd_noop(i) PROVE KickInv'
<1>1. TypeInv /\ Types /\ ServerOK(i) BY KickParts
<1>2. /\ srv[i].pc \in {"idle", "docmd"} /\ up[i] # <<>> /\ Head(up[i]) = "NOOP"
      /\ up' = [up EXCEPT ![i] = Tail(@)] /\ srv' = Grab(i, "noop")
      /\ UNCHANGED <<db, cl, down, alive, kick, had, fresh, doubt, missed>>
  BY DEF cmd_noop, history, asked
<1>3. srv[i].todo = {} BY <1>1, <1>2 DEF ServerOK
<1>4. (\A m \in Slaves \ {i} : srv'[m] = srv[m]) /\ srv'[i].pc = "noop"
  BY <1>1, <1>2, <1>3, GrabOK
<1>5. up'[i] = Tail(up[i]) /\ 1 \in 1..Len(up[i]) /\ up[i][1] = "NOOP" /\ \A m \in Slaves \ {i} : up'[m] = up[m]
  BY <1>1, <1>2, UpTail
<1>6. ASSUME ~doubt' PROVE NoopOK(i)'
  <2>1. NoopOK(i) BY <1>2, <1>6, KickParts
  <2>2. ~Copying(i) BY <1>5 DEF Copying
  <2>3. ~Silent(i) BY <1>2 DEF Silent
  <2>4. One(i) => One(i)'
    <3> SUFFICES ASSUME One(i) PROVE One(i)' OBVIOUS
    <3>1. up[i] = <<"NOOP">> /\ Oks(Sent(i)) = {} BY <1>2 DEF One
    <3>2. up'[i] = <<>> BY <1>5, <3>1
    <3>3. Busy(i)' BY <1>4 DEF Busy
    <3>4. Oks(Sent(i))' = {} BY <1>2, <3>1 DEF Oks, Sent
    <3> QED BY <3>2, <3>3, <3>4 DEF One
  <2> QED BY <1>2, <2>1, <2>2, <2>3, <2>4, NoopMove
<1>7. Oks(Sent(i))' = Oks(Sent(i)) BY <1>2 DEF Oks, Sent
<1>8. ~Flushes(i)' /\ (Past(i)' => Past(i)) BY <1>4, <1>7 DEF Flushes, Past
<1> QED BY <1>2, <1>4, <1>5, <1>6, <1>8, NoKick, ThreadStep

LEMMA EvtFresh == ASSUME KickInv, StreamInv', NEW i \in Slaves, sendupdates_evt(i) PROVE KickInv'
<1>1. TypeInv /\ Types /\ ServerOK(i) BY KickParts
<1> DEFINE pc == IF srv[i].plist = {} THEN "docmd" ELSE "event"
<1>2. /\ srv[i].pc \in {"idle", "docmd"} /\ srv' = Grab(i, pc)
      /\ UNCHANGED <<db, cl, up, down, alive, kick, had, fresh, doubt, missed>>
  BY DEF sendupdates_evt, history, conns, asked
<1>3. srv[i].todo = {} BY <1>1, <1>2 DEF ServerOK
<1>4. pc \in {"docmd", "event"} OBVIOUS
<1> HIDE DEF pc
<1>5. (\A m \in Slaves \ {i} : srv'[m] = srv[m]) /\ srv'[i].pc \in {"docmd", "event"}
  BY <1>1, <1>2, <1>3, <1>4, GrabOK
<1>6. ~doubt' => NoopOK(i)'
  <2>1. ~doubt => NoopOK(i) BY KickParts
  <2>2. Busy(i)' <=> Busy(i) BY <1>2, <1>5 DEF Busy
  <2> DEFINE e == <<>>
  <2>3. e \in Seq(Messages) /\ Sent(i)' = Sent(i) \o e /\ Oks(e) = {} BY <1>1, <1>2, NothingSent
  <2> HIDE DEF e
  <2> QED BY <1>1, <1>2, <2>1, <2>2, <2>3, NoopStays
<1>7. Oks(Sent(i))' = Oks(Sent(i)) BY <1>2 DEF Oks, Sent
<1>8. ~Flushes(i)' /\ (Past(i)' => Past(i)) BY <1>5, <1>7 DEF Flushes, Past
<1> QED BY <1>2, <1>5, <1>6, <1>8, NoKick, ThreadStep

LEMMA KickedFresh == ASSUME KickInv, StreamInv', NEW i \in Slaves, kicked(i) PROVE KickInv'
<1>1. TypeInv /\ Types /\ ServerOK(i) BY KickParts
<1>2. /\ srv[i].pc = "kick" /\ kick[i] \in {"ok", "failed"} /\ doubt' = (doubt \/ kick[i] = "failed")
      /\ kick' = [kick EXCEPT ![i] = "idle"] /\ srv' = Grab(i, "noop2")
      /\ UNCHANGED <<db, cl, up, down, alive, had, fresh, missed>>
  BY DEF kicked, conns
<1>3. srv[i].todo = {} /\ srv[i].streaming BY <1>1, <1>2 DEF ServerOK
<1>4. (\A m \in Slaves \ {i} : srv'[m] = srv[m]) /\ srv'[i].pc = "noop2"
  BY <1>1, <1>2, <1>3, GrabOK
<1>5. ASSUME ~doubt' PROVE NoopOK(i)'
  <2>1. NoopOK(i) BY <1>2, <1>5, KickParts
  <2>2. Busy(i)' <=> Busy(i) BY <1>2, <1>4 DEF Busy
  <2> DEFINE e == <<>>
  <2>3. e \in Seq(Messages) /\ Sent(i)' = Sent(i) \o e /\ Oks(e) = {} BY <1>1, <1>2, NothingSent
  <2> HIDE DEF e
  <2> QED BY <1>1, <1>2, <2>1, <2>2, <2>3, NoopStays
<1>6. ~doubt' => Past(i) BY <1>2 DEF Past
<1>7. ASSUME ~doubt', NEW k \in Kickers, Reached(k, i), Flushes(i)', Current(had[k], db[Up(i)])
      PROVE  Flushed(k, i)'
  <2>1. missed' = {} BY <1>2, <1>7, KickParts
  <2>2. cl[i].pc # "down" BY <1>7, ReachedListens
  <2> QED BY <1>1, <1>2, <1>3, <1>7, <2>1, <2>2, GrabFlushed
<1>8. QuietKicks BY <1>1, <1>2, AskKick
<1> QED BY <1>2, <1>4, <1>5, <1>6, <1>7, <1>8, ThreadStep

LEMMA FreeFresh == ASSUME KickInv, StreamInv', NEW i \in Slaves, conn_free(i) PROVE KickInv'
<1>1. TypeInv /\ Types BY KickParts
<1>2. /\ srv[i].pc \in {"idle", "docmd"} /\ srv' = [srv EXCEPT ![i] = NoConn]
      /\ UNCHANGED <<db, cl, up, down, alive, kick, had, fresh, doubt, missed>>
  BY DEF conn_free, history, conns, asked
<1>3. srv'[i].pc = "none" /\ \A m \in Slaves \ {i} : srv'[m] = srv[m]
  BY <1>1, <1>2, NoConnOK DEF Types
<1>4. ~doubt' => NoopOK(i)'
  <2>1. ~doubt => NoopOK(i) BY KickParts
  <2>2. Busy(i)' <=> Busy(i) BY <1>2, <1>3 DEF Busy
  <2> DEFINE e == <<>>
  <2>3. e \in Seq(Messages) /\ Sent(i)' = Sent(i) \o e /\ Oks(e) = {} BY <1>1, <1>2, NothingSent
  <2> HIDE DEF e
  <2> QED BY <1>1, <1>2, <2>1, <2>2, <2>3, NoopStays
<1>5. Oks(Sent(i))' = Oks(Sent(i)) BY <1>2 DEF Oks, Sent
<1>6. ~Flushes(i)' /\ (Past(i)' => Past(i)) BY <1>3, <1>5 DEF Flushes, Past
<1> QED BY <1>2, <1>3, <1>4, <1>6, NoKick, ThreadStep

LEMMA AppendIndex ==
  ASSUME NEW S, NEW s \in Seq(S), NEW x \in S
  PROVE  /\ Append(s, x) \in Seq(S) /\ Len(Append(s, x)) = Len(s) + 1 /\ Append(s, x)[Len(s) + 1] = x
         /\ \A j \in 1..Len(s) : Append(s, x)[j] = s[j]
  OBVIOUS

(* NOOP: the queue is sent, the server's own client thread is kicked, or   *)
(* the second queue is taken, and after it OK is sent.                     *)
LEMMA MasterClean ==
  ASSUME KickInv, NEW i \in Slaves, Up(i) = Master, NEW k \in Kickers, kick[k] = "held"
  PROVE  Clean(k, Up(i))
<1>1. Current(had[k], db[Master]) BY KickParts DEF MasterOK
<1>2. \A v \in 1..Up(i) : v = Master BY DEF Master
<1> QED BY <1>1, <1>2 DEF Clean, CleanAt

LEMMA SendFresh == ASSUME KickInv, StreamInv', NEW i \in Slaves, sendupdates(i) PROVE KickInv'
<1>1. TypeInv /\ Types /\ ServerOK(i) /\ srv[i] \in Threads BY KickParts, TypesDef
<1>2. /\ srv[i].pc \in {"noop", "noop2", "event"} /\ srv[i].todo = {}
      /\ UNCHANGED <<db, cl, up, had, fresh, missed>>
  BY DEF sendupdates
<1>3. srv[i].streaming BY <1>1, <1>2 DEF ServerOK
<1>a. ASSUME UNCHANGED <<down, alive>>, doubt => doubt', \A m \in Slaves \ {i} : srv'[m] = srv[m],
             Busy(i)' <=> Busy(i)
      PROVE  (~doubt' => NoopOK(i)') /\ Oks(Sent(i))' = Oks(Sent(i))
  <2>1. ~doubt => NoopOK(i) BY KickParts
  <2> DEFINE e == <<>>
  <2>2. e \in Seq(Messages) /\ Sent(i)' = Sent(i) \o e /\ Oks(e) = {}
    BY <1>1, <1>2, <1>a, NothingSent
  <2> HIDE DEF e
  <2>3. ~doubt' => NoopOK(i)' BY <1>1, <1>2, <1>a, <2>1, <2>2, NoopStays
  <2> QED BY <1>2, <1>a, <2>3 DEF Oks, Sent
<1>4. CASE srv[i].pc = "event" /\ srv' = [srv EXCEPT ![i].pc = "docmd"] /\ UNCHANGED <<down, alive, kick, doubt>>
  <2>1. srv'[i].pc = "docmd" /\ \A m \in Slaves \ {i} : srv'[m] = srv[m]
    BY <1>1, <1>4 DEF Threads, Types
  <2>2. Busy(i)' <=> Busy(i) BY <1>4, <2>1 DEF Busy
  <2>3. (~doubt' => NoopOK(i)') /\ Oks(Sent(i))' = Oks(Sent(i)) BY <1>4, <1>a, <2>1, <2>2
  <2>4. ~Flushes(i)' /\ (Past(i)' => Past(i)) BY <2>1, <2>3 DEF Flushes, Past
  <2> QED BY <1>2, <1>4, <2>1, <2>3, <2>4, NoKick, ThreadStep
<1>5. CASE /\ srv[i].pc = "noop" /\ srv' = [srv EXCEPT ![i].pc = "kick"] /\ kick' = [kick EXCEPT ![i] = "wait"]
           /\ UNCHANGED <<down, alive, doubt>>
  <2>1. srv'[i].pc = "kick" /\ \A m \in Slaves \ {i} : srv'[m] = srv[m]
    BY <1>1, <1>5 DEF Threads, Types
  <2>2. Busy(i)' <=> Busy(i) BY <1>5, <2>1 DEF Busy
  <2>3. (~doubt' => NoopOK(i)') /\ Oks(Sent(i))' = Oks(Sent(i)) BY <1>5, <1>a, <2>1, <2>2
  <2>4. kick'[i] # "ok" BY <1>1, <1>5, NodeFacts DEF Types
  <2>5. ~Flushes(i)' /\ (Past(i)' => Past(i)) BY <2>1, <2>3, <2>4 DEF Flushes, Past
  <2>6. QuietKicks BY <1>1, <1>2, <1>5, AskKick
  <2> QED BY <1>2, <1>5, <2>1, <2>3, <2>5, <2>6, ThreadStep
<1>6. CASE /\ srv[i].pc = "noop" /\ srv' = Grab(i, "noop2") /\ doubt' = (doubt \/ Up(i) # Master)
           /\ UNCHANGED <<down, alive, kick>>
  <2>1. srv'[i].pc = "noop2" /\ \A m \in Slaves \ {i} : srv'[m] = srv[m]
    BY <1>1, <1>2, <1>6, GrabOK
  <2>2. Busy(i)' <=> Busy(i) BY <1>6, <2>1 DEF Busy
  <2>3. (~doubt' => NoopOK(i)') /\ Oks(Sent(i))' = Oks(Sent(i)) BY <1>6, <1>a, <2>1, <2>2
  <2>4. ASSUME ~doubt', NEW k \in Kickers, Reached(k, i)
        PROVE  /\ Clean(k, Up(i))
               /\ Flushes(i)' /\ Current(had[k], db[Up(i)]) => Flushed(k, i)'
    <3>1. Clean(k, Up(i)) BY <1>6, <2>4, MasterClean DEF Reached
    <3>2. missed' = {} BY <1>2, <1>6, <2>4, KickParts
    <3>3. cl[i].pc # "down" BY <2>4, ReachedListens
    <3> QED BY <1>1, <1>2, <1>3, <1>6, <3>1, <3>2, <3>3, GrabFlushed
  <2> QED BY <1>2, <1>6, <2>1, <2>3, <2>4, NoKick, ThreadStep
<1>7. CASE srv[i].pc = "noop2" /\ Leave(i, <<OK>>) /\ UNCHANGED <<kick, doubt>>
  <2> DEFINE bye == up'[i] = <<>> /\ ~ready[Up(i)]
             lines == <<OK>>
             all == IF bye THEN Append(lines, BYE) ELSE lines
  <2>1. OK \in Messages /\ OK \in Signs /\ BYE \in Signs /\ BYE \in Messages /\ OK # BYE
    BY SignFacts
  <2>2. lines \in Seq(Messages) /\ Len(lines) = 1 /\ lines[1] = OK BY <2>1
  <2> HIDE DEF lines
  <2>3. /\ \A m \in Slaves \ {i} : srv'[m] = srv[m] /\ alive'[m] = alive[m] /\ down'[m] = down[m]
        /\ srv'[i].pc = IF up'[i] # <<>> THEN "docmd" ELSE IF bye THEN "none" ELSE "idle"
        /\ all \in Seq(Messages)
        /\ down'[i] = IF alive[i] THEN down[i] \o all ELSE down[i]
    BY <1>1, <1>7, <2>2, LeaveOK DEF lines
  <2>a. LET two == Append(lines, BYE) IN Len(two) = 2 /\ two[1] = OK /\ two[2] = BYE
    <3> DEFINE two == Append(lines, BYE)
    <3>1. Len(two) = Len(lines) + 1 /\ two[Len(lines) + 1] = BYE /\ \A j \in 1..Len(lines) : two[j] = lines[j]
      BY ONLY <2>1, <2>2, AppendIndex
    <3> HIDE DEF two
    <3>2. 1 \in 1..Len(lines) /\ Len(lines) + 1 = 2 BY <2>2
    <3>3. Len(two) = 2 /\ two[1] = OK /\ two[2] = BYE BY <2>2, <3>1, <3>2
    <3> QED BY <3>3 DEF two
  <2>4. \A j \in 1..Len(all) : all[j] \in Signs /\ (j # 1 => all[j] # OK)
    <3> SUFFICES ASSUME NEW j \in 1..Len(all) PROVE all[j] \in Signs /\ (j # 1 => all[j] # OK)
      OBVIOUS
    <3>1. CASE bye
      <4>1. Len(all) = 2 /\ all[1] = OK /\ all[2] = BYE BY <2>a, <3>1
      <4> HIDE DEF all
      <4>2. j = 1 \/ j = 2 BY <4>1
      <4> QED BY <2>1, <4>1, <4>2
    <3>2. CASE ~bye
      <4>1. Len(all) = 1 /\ all[1] = OK BY <2>2, <3>2
      <4> HIDE DEF all
      <4>2. j = 1 BY <4>1
      <4> QED BY <2>1, <4>1, <4>2
    <3> QED BY <3>1, <3>2
  <2>5. 1 \in 1..Len(all) /\ all[1] = OK
    <3>1. CASE bye
      <4>1. Len(all) = 2 /\ all[1] = OK BY <2>a, <3>1
      <4> HIDE DEF all
      <4> QED BY <4>1
    <3>2. CASE ~bye
      <4>1. Len(all) = 1 /\ all[1] = OK BY <2>2, <3>2
      <4> HIDE DEF all
      <4> QED BY <4>1
    <3> QED BY <3>1, <3>2
  <2> HIDE DEF all, bye
  <2>6. Oks(all) = {1} BY <2>4, <2>5 DEF Oks
  <2>7. Busy(i) /\ ~Busy(i)' /\ srv'[i].pc \in {"docmd", "none", "idle"} BY <1>7, <2>3 DEF Busy
  <2>8. CASE ~alive[i]
    <3>1. down' = down
      <4>1. down'[i] = down[i] BY <2>3, <2>8
      <4>2. down \in [Slaves -> Seq(Messages)] /\ down' \in [Slaves -> Seq(Messages)]
        BY <1>1 DEF StreamInv, TypeInv, Types
      <4> QED BY <2>3, <4>1, <4>2
    <3>2. Oks(Sent(i))' = Oks(Sent(i)) BY <1>2, <3>1 DEF Oks, Sent
    <3>3. ~doubt' => NoopOK(i)'
      <4>1. ~doubt => NoopOK(i) BY KickParts
      <4>2. One(i) => Silent(i)' BY <1>2, <2>7, <3>2 DEF One, Silent
      <4> QED BY <1>2, <1>7, <2>7, <4>1, <4>2, NoopMove DEF Copying, Silent
    <3>4. ~Flushes(i)' /\ (Past(i)' => Past(i)) BY <2>7, <3>2 DEF Flushes, Past
    <3> QED BY <1>2, <1>7, <2>3, <3>1, <3>3, <3>4, NoKick, ThreadStep
  <2>9. CASE alive[i]
    <3>1. Sent(i)' = Sent(i) \o all
      <4>1. cl[i].buf \in Seq(Messages) /\ down[i] \in Seq(Messages) BY <1>1, SentOK
      <4>2. down'[i] = down[i] \o all BY <2>3, <2>9
      <4> DEFINE x == cl[i].buf
                 y == down[i]
      <4>3. x \in Seq(Messages) /\ y \in Seq(Messages) BY <4>1
      <4> HIDE DEF x, y
      <4>4. (x \o y) \o all = x \o (y \o all) BY ONLY <2>3, <4>3, ConcatFacts
      <4> QED BY <1>2, <4>2, <4>4 DEF Sent, x, y
    <3>2. FromList(all, db[Up(i)]) BY <2>4, SignFacts DEF FromList
    <3>3. Ending(i) BY <1>2, <1>7, <2>9 DEF Ending, Flushes
    <3>4. ASSUME ~doubt' PROVE NoopOK(i)'
      <4>1. NoopOK(i) BY <1>7, <3>4, KickParts
      <4>2. One(i) => One(i)'
        <5> SUFFICES ASSUME One(i) PROVE One(i)' OBVIOUS
        <5>1. up'[i] = <<>> /\ Oks(Sent(i)) = {} BY <1>2, <2>7 DEF One
        <5> DEFINE s == Sent(i)
                   o == Len(s) + 1
        <5>2. s \in Seq(Messages) BY <1>1, SentOK
        <5> HIDE DEF s
        <5>3. o \in Oks(s \o all) /\ \A j \in Oks(s \o all) : j = o
          <6>1. o \in Oks(s \o all) BY <2>3, <2>6, <5>2, OksMore
          <6>2. \A j \in Oks(s \o all) : j \in Oks(s) \/ (j - Len(s) \in Oks(all) /\ Len(s) + (j - Len(s)) = j)
            BY <2>3, <5>2, OksMore
          <6>3. \A j \in Oks(s \o all) : j = o
            <7> SUFFICES ASSUME NEW j \in Oks(s \o all) PROVE j = o OBVIOUS
            <7>1. j - Len(s) \in Oks(all) /\ Len(s) + (j - Len(s)) = j BY <5>1, <6>2 DEF s
            <7>2. j - Len(s) = 1 BY <2>6, <7>1
            <7> QED BY <7>1, <7>2
          <6> QED BY <6>1, <6>3
        <5> HIDE DEF o
        <5>4. Oks(s \o all) = {o} BY <5>3
        <5>5. Oks(Sent(i))' = {o} BY <3>1, <5>4 DEF Oks, s
        <5> QED BY <2>7, <5>1, <5>5 DEF One
      <4> QED BY <1>2, <2>7, <4>1, <4>2, NoopMove DEF Copying, Silent
    <3>5. ~Flushes(i)' /\ Past(i) BY <2>7, <3>3 DEF Flushes, Past, Ending
    <3>6. ~doubt' => cl[i].pc # "sync"
      <4>1. ~doubt => NoopOK(i) BY KickParts
      <4> QED BY <1>7, <2>7, <4>1 DEF NoopOK, Copying
    <3>7. ~doubt' => Answers(i, all) BY <2>4, <3>3, <3>4, <3>5, <3>6 DEF Answers
    <3>8. \A m \in Slaves \ {i} : Kept(m) BY <1>2, <2>3 DEF Kept, Stay, Logged
    <3> QED BY <1>2, <1>7, <2>3, <3>1, <3>2, <3>7, <3>8, NoKick, ServerStep
  <2> QED BY <2>8, <2>9
<1> QED BY <1>4, <1>5, <1>6, <1>7 DEF sendupdates

LEMMA SentMore ==
  ASSUME Types, NEW i \in Slaves, NEW t \in Seq(Messages), cl'[i] = cl[i], down'[i] = down[i] \o t
  PROVE  Sent(i)' = Sent(i) \o t
<1> DEFINE x == cl[i].buf
           y == down[i]
<1>1. x \in Seq(Messages) /\ y \in Seq(Messages) BY SentOK
<1> HIDE DEF x, y
<1>2. (x \o y) \o t = x \o (y \o t) BY ONLY <1>1, t \in Seq(Messages), ConcatFacts
<1> QED BY <1>2 DEF Sent, x, y

LEMMA OneMessage ==
  ASSUME NEW x \in Messages
  PROVE  /\ <<x>> \in Seq(Messages) /\ Len(<<x>>) = 1 /\ <<x>>[1] = x /\ 1..Len(<<x>>) = {1}
         /\ x # OK => Oks(<<x>>) = {}
         /\ \A d : (x \in Signs \/ x.e = d[x.n]) => FromList(<<x>>, d)
<1> DEFINE t == <<x>>
<1>1. t \in Seq(Messages) /\ Len(t) = 1 /\ t[1] = x OBVIOUS
<1> HIDE DEF t
<1>2. 1..Len(t) = {1} BY <1>1
<1>3. x # OK => Oks(t) = {} BY <1>1, <1>2 DEF Oks
<1>4. \A d : (x \in Signs \/ x.e = d[x.n]) => FromList(t, d) BY <1>1, <1>2, SignFacts DEF FromList
<1> QED BY <1>1, <1>2, <1>3, <1>4 DEF t

LEMMA DropFresh == ASSUME KickInv, StreamInv', NEW i \in Slaves, drop_idle(i) PROVE KickInv'
<1>1. TypeInv /\ Types BY KickParts
<1> DEFINE lines == <<BYE>>
<1>2. /\ srv[i].pc = "idle" /\ Put(i, lines) /\ alive' = [alive EXCEPT ![i] = FALSE]
      /\ srv' = [srv EXCEPT ![i] = NoConn]
      /\ UNCHANGED <<db, cl, up, kick, had, fresh, doubt, missed>>
  BY DEF drop_idle, history, asked
<1>3. lines \in Seq(Messages) /\ Oks(lines) = {} /\ FromList(lines, db[Up(i)])
  BY SignFacts, OneMessage
<1> HIDE DEF lines
<1>4. /\ \A m \in Slaves \ {i} : down'[m] = down[m]
      /\ down'[i] = IF alive[i] THEN down[i] \o lines ELSE down[i]
  BY <1>1, <1>2, <1>3, PutOK
<1>5. srv'[i].pc = "none" /\ \A m \in Slaves \ {i} : srv'[m] = srv[m] /\ alive'[m] = alive[m]
  BY <1>1, <1>2, NoConnOK DEF Types
<1>6. \A m \in Slaves \ {i} : Kept(m) BY <1>2, <1>4, <1>5 DEF Kept, Stay, Logged
<1>7. ASSUME NEW t \in Seq(Messages), Oks(t) = {}, FromList(t, db[Up(i)]), Sent(i)' = Sent(i) \o t
      PROVE  KickInv'
  <2>1. Busy(i)' <=> Busy(i) BY <1>2, <1>5 DEF Busy
  <2>2. ~doubt => NoopOK(i) BY KickParts
  <2>3. ~doubt => NoopOK(i)' BY <1>1, <1>2, <1>7, <2>1, <2>2, NoopStays
  <2>4. Oks(Sent(i))' = Oks(Sent(i))
    <3>1. Sent(i) \in Seq(Messages) BY <1>1, SentOK
    <3>2. Oks(Sent(i) \o t) = Oks(Sent(i)) BY <1>7, <3>1, OksSame
    <3> QED BY <1>7, <3>2 DEF Oks
  <2>5. ~Flushes(i)' /\ (Past(i)' => Past(i)) BY <1>5, <2>4 DEF Flushes, Past
  <2>6. ~doubt => Answers(i, t) BY <1>7, <2>3, <2>5 DEF Answers
  <2> QED BY <1>2, <1>6, <1>7, <2>6, NoKick, ServerStep
<1>8. CASE alive[i]
  <2>1. Sent(i)' = Sent(i) \o lines BY <1>1, <1>2, <1>3, <1>4, <1>8, SentMore
  <2> QED BY <1>3, <1>7, <2>1
<1>9. CASE ~alive[i]
  <2> DEFINE e == <<>>
  <2>1. e \in Seq(Messages) /\ Sent(i)' = Sent(i) \o e /\ Oks(e) = {} /\ FromList(e, db[Up(i)])
    BY <1>1, <1>2, <1>4, <1>9, NothingSent
  <2> HIDE DEF e
  <2> QED BY <1>7, <2>1
<1> QED BY <1>8, <1>9

LEMMA FindFresh == ASSUME KickInv, StreamInv', NEW i \in Slaves, cmd_find(i) PROVE KickInv'
<1>1. TypeInv /\ Types /\ srv[i] \in Threads BY KickParts, TypesDef
<1>2. UNCHANGED <<db, cl, up, alive, kick, had, fresh, doubt, missed>>
  BY DEF cmd_find, history, asked
<1>3. PICK n \in srv[i].todo :
        /\ n \in Names /\ Line(n, db[Up(i)][n]) \in Lines
        /\ \A m \in Slaves \ {i} : srv'[m] = srv[m] /\ down'[m] = down[m]
        /\ srv'[i] = [srv[i] EXCEPT !.todo = @ \ {n}]
        /\ down'[i] = IF alive[i] THEN Append(down[i], Line(n, db[Up(i)][n])) ELSE down[i]
  BY <1>1, FindDoes
<1> DEFINE x == Line(n, db[Up(i)][n])
           t == <<x>>
<1>4. srv'[i].pc = srv[i].pc /\ srv'[i].todo = srv[i].todo \ {n} BY <1>1, <1>3 DEF Threads
<1>5. x \in Messages /\ x # OK /\ x.n = n /\ x.e = db[Up(i)][n]
  <2>1. db[Up(i)][n] \in Entries BY <1>1, <1>3, NodeFacts, TypesDef
  <2> QED BY <1>3, <2>1, EntryFacts, SignFacts
<1> HIDE DEF x
<1>6. t \in Seq(Messages) /\ Oks(t) = {} /\ FromList(t, db[Up(i)]) BY <1>5, OneMessage
<1>7. \A m \in Slaves \ {i} : Kept(m) BY <1>2, <1>3 DEF Kept, Stay, Logged
<1>8. Busy(i)' <=> Busy(i) BY <1>4 DEF Busy
<1>9. ~doubt => NoopOK(i) BY KickParts
<1>10. CASE ~alive[i]
  <2> DEFINE e == <<>>
  <2>1. /\ e \in Seq(Messages) /\ Sent(i)' = Sent(i) \o e /\ Oks(e) = {} /\ FromList(e, db[Up(i)])
        /\ Sent(i)' = Sent(i)
    BY <1>1, <1>2, <1>3, <1>10, NothingSent
  <2> HIDE DEF e
  <2>2. ~doubt => NoopOK(i)' BY <1>1, <1>2, <1>8, <1>9, <2>1, NoopStays
  <2>3. Oks(Sent(i))' = Oks(Sent(i)) BY <2>1 DEF Oks
  <2>4. ~Flushes(i)' /\ (Past(i)' => Past(i)) BY <1>2, <1>4, <1>10, <2>3 DEF Flushes, Past
  <2>5. ~doubt => Answers(i, e) BY <2>1, <2>2, <2>4 DEF Answers
  <2> QED BY <1>2, <1>7, <2>1, <2>5, NoKick, ServerStep
<1>11. CASE alive[i]
  <2>1. down'[i] = down[i] \o t
    <3>1. down[i] \in Seq(Messages) BY <1>1, SentOK
    <3>2. down'[i] = Append(down[i], x) BY <1>3, <1>11 DEF x
    <3>3. Append(down[i], x) = down[i] \o <<x>> BY <1>5, <3>1
    <3> QED BY <3>2, <3>3
  <2>a. Len(t) = 1 /\ t[1] = x /\ 1..Len(t) = {1} BY <1>5, OneMessage
  <2> HIDE DEF t
  <2>2. Sent(i)' = Sent(i) \o t BY <1>1, <1>2, <1>6, <2>1, SentMore
  <2>3. ~doubt => NoopOK(i)' BY <1>1, <1>2, <1>6, <1>8, <1>9, <2>2, NoopStays
  <2>4. Oks(Sent(i))' = Oks(Sent(i))
    <3>1. Sent(i) \in Seq(Messages) BY <1>1, SentOK
    <3>2. Oks(Sent(i) \o t) = Oks(Sent(i)) BY <1>6, <3>1, OksSame
    <3> QED BY <2>2, <3>2 DEF Oks
  <2>5. (Flushes(i)' => Flushes(i)) /\ (Past(i)' => Past(i)) BY <1>2, <1>4, <2>4 DEF Flushes, Past
  <2>6. ASSUME ~doubt, NEW k \in Kickers, Reached(k, i), Flushes(i)', Current(had[k], db[Up(i)])
        PROVE  Flushed(k, i)'
    <3> SUFFICES ASSUME NEW p \in Names, p \notin srv'[i].todo PROVE Predicted(i)'[p] \in had[k][p]
      BY <1>2 DEF Flushed
    <3>1. Predicted(i)'[p] = Apply(Predicted(i), t)[p] BY <1>1, <1>2, <1>6, <2>1, PredictedAfter
    <3>2. CASE p = n
      <4>1. 1 \in 1..Len(t) /\ t[1].n = p /\ \A b \in 1 + 1..Len(t) : t[b].n # p
        BY <1>5, <2>a, <3>2
      <4>2. Apply(Predicted(i), t)[p] = t[1].e BY ONLY <1>6, <4>1, p \in Names, ApplyLast
      <4> QED BY <1>5, <2>6, <2>a, <3>1, <3>2, <4>2 DEF Current
    <3>3. CASE p # n
      <4>1. \A j \in 1..Len(t) : t[j].n # p BY <1>5, <2>a, <3>3
      <4>2. Apply(Predicted(i), t)[p] = Predicted(i)[p] BY ONLY <1>6, <4>1, p \in Names, ApplyLast
      <4>3. Stage(k, i) BY <2>6, KickParts
      <4>4. Flushed(k, i) BY <2>5, <2>6, <4>3 DEF Stage
      <4> QED BY <1>4, <3>1, <3>3, <4>2, <4>4 DEF Flushed
    <3> QED BY <3>2, <3>3
  <2>7. ~doubt => Answers(i, t) BY <1>6, <2>3, <2>5, <2>6 DEF Answers
  <2> QED BY <1>2, <1>6, <1>7, <2>2, <2>7, NoKick, ServerStep
<1> QED BY <1>10, <1>11

LEMMA StartupdateFresh == ASSUME KickInv, StreamInv', NEW i \in Slaves, cmd_startupdate(i) PROVE KickInv'
<1>1. TypeInv /\ Types /\ Up(i) \in Nodes BY KickParts, NodeFacts
<1> DEFINE dump == Dump(Up(i))
           lines == Append(dump, OK)
           bye == up'[i] = <<>> /\ ~ready[Up(i)]
           all == IF bye THEN Append(lines, BYE) ELSE lines
<1>2. /\ srv[i].pc \in {"idle", "docmd"} /\ up[i] # <<>> /\ Head(up[i]) = "UPDATE"
      /\ up' = [up EXCEPT ![i] = Tail(@)] /\ Leave(i, lines) /\ missed' = missed \ {i}
      /\ UNCHANGED <<db, cl, kick, had, fresh, doubt>>
  BY DEF cmd_startupdate, asked
<1>3. /\ dump \in Seq(Lines) /\ \A j \in 1..Len(dump) : dump[j].e = db[Up(i)][dump[j].n]
      /\ \A n \in Names : db[Up(i)][n] # None => \E j \in 1..Len(dump) : dump[j].n = n
  BY <1>1, DumpOK
<1>4. /\ ~srv[i].streaming /\ down[i] = <<>> /\ cl[i].pc = "sync" /\ alive[i] /\ cl[i].buf = <<>>
      /\ Tail(up[i]) = <<>>
  BY <1>1, <1>2, UpdateAsks
<1>5. up'[i] = <<>> /\ \A m \in Slaves \ {i} : up'[m] = up[m] BY <1>1, <1>2, <1>4, UpTail
<1> HIDE DEF dump
<1>6. /\ OK \in Messages /\ OK \in Signs /\ BYE \in Signs /\ BYE \in Messages /\ OK # BYE
      /\ dump \in Seq(Messages) /\ \A j \in 1..Len(dump) : dump[j] \in Lines /\ dump[j] # OK
  BY <1>3, SignFacts
<1>7. /\ lines \in Seq(Messages) /\ Len(lines) = Len(dump) + 1 /\ lines[Len(dump) + 1] = OK
      /\ \A j \in 1..Len(dump) : lines[j] = dump[j]
  BY <1>6, AppendIndex
<1> HIDE DEF lines
<1>8. /\ \A m \in Slaves \ {i} : srv'[m] = srv[m] /\ alive'[m] = alive[m] /\ down'[m] = down[m]
      /\ srv'[i].pc \in {"none", "idle"} /\ all \in Seq(Messages)
      /\ down'[i] = down[i] \o all
  BY <1>1, <1>2, <1>4, <1>5, <1>7, LeaveOK
<1> DEFINE o == Len(dump) + 1
<1>9. /\ o \in 1..Len(all) /\ all[o] = OK
      /\ \A j \in 1..Len(dump) : all[j] = dump[j]
      /\ \A j \in 1..Len(all) : j \in 1..Len(dump) \/ j = o \/ all[j] = BYE
  <2>1. CASE bye
    <3> DEFINE two == Append(lines, BYE)
    <3>1. /\ Len(two) = Len(lines) + 1 /\ two[Len(lines) + 1] = BYE
          /\ \A j \in 1..Len(lines) : two[j] = lines[j]
      BY ONLY <1>6, <1>7, AppendIndex
    <3>2. all = two BY <2>1
    <3> HIDE DEF two, all
    <3>3. Len(dump) \in Nat BY <1>6
    <3>4. o \in 1..Len(lines) /\ \A j \in 1..Len(dump) : j \in 1..Len(lines) BY <1>7, <3>3
    <3>5. \A j \in 1..Len(all) : j \in 1..Len(dump) \/ j = o \/ j = Len(lines) + 1
      BY <1>7, <3>1, <3>2, <3>3
    <3> QED BY <1>7, <3>1, <3>2, <3>4, <3>5
  <2>2. CASE ~bye
    <3>1. all = lines BY <2>2
    <3> HIDE DEF all
    <3>2. Len(dump) \in Nat BY <1>6
    <3> QED BY <1>7, <3>1, <3>2
  <2> QED BY <2>1, <2>2
<1> HIDE DEF all, bye
<1>10. Oks(all) = {o} /\ Plain(all, o - 1)
  <2>1. Len(dump) \in Nat BY <1>6
  <2>2. o - 1 = Len(dump) BY <2>1
  <2> HIDE DEF o
  <2>3. \A j \in Oks(all) : j = o BY <1>6, <1>9 DEF Oks
  <2>4. o \in Oks(all) BY <1>9 DEF Oks
  <2>5. Plain(all, o - 1) BY <1>6, <1>9, <2>2, SignFacts DEF Plain
  <2> QED BY <2>3, <2>4, <2>5
<1>11. FromList(all, db[Up(i)])
  <2> SUFFICES ASSUME NEW j \in 1..Len(all), all[j].n \in Names PROVE all[j].e = db[Up(i)][all[j].n]
    BY DEF FromList
  <2>1. all[j] # OK /\ all[j] # BYE BY <1>6, SignFacts
  <2>2. j \in 1..Len(dump) BY <1>9, <2>1
  <2> QED BY <1>3, <1>9, <2>2
<1>12. Sent(i)' = Sent(i) \o all BY <1>1, <1>2, <1>8, SentMore
<1>13. NoopOK(i)'
  <2>1. Sent(i) = <<>>
    <3>1. <<>> \o <<>> = <<>> OBVIOUS
    <3> QED BY <1>4, <3>1 DEF Sent
  <2>2. <<>> \o all = all BY ONLY <1>8, ConcatFacts
  <2>3. Sent(i)' = all BY <1>12, <2>1, <2>2
  <2> HIDE DEF o
  <2>4. \A j \in Oks(Sent(i))' : Plain(Sent(i), j - 1)' BY <1>10, <2>3 DEF Oks, Plain, Signs
  <2>5. 1..Len(up'[i]) = {} BY <1>5
  <2>6. ~Busy(i)' BY <1>8 DEF Busy
  <2>7. Copying(i)' BY <1>5, <2>4, <2>5, <2>6 DEF Copying
  <2> QED BY <1>2, <1>4, <2>7 DEF NoopOK
<1>14. ASSUME NEW j \in Oks(all), NEW n \in Names, \A a \in 1..j : all[a].n # n
       PROVE  db[Up(i)][n] = None
  <2>1. j = o BY <1>10
  <2>2. \A a \in 1..Len(dump) : a \in 1..j
    <3>1. Len(dump) \in Nat BY <1>6
    <3> QED BY <2>1, <3>1
  <2>3. \A a \in 1..Len(dump) : dump[a].n # n BY <1>9, <1>14, <2>2
  <2> QED BY <1>3, <2>3
<1>15. \A k \in Kickers : ~Reached(k, i) BY <1>4, ReachedListens
<1>16. Answers(i, all) BY <1>4, <1>13, <1>14, <1>15 DEF Answers
<1>17. \A m \in Slaves \ {i} : Kept(m) BY <1>2, <1>5, <1>8 DEF Kept, Stay, Logged
<1>18. missed' \subseteq missed BY <1>2
<1> QED BY <1>2, <1>8, <1>11, <1>12, <1>16, <1>17, <1>18, NoKick, ServerStep

(* The steps of a client thread that waits for no OK: no kick reached it.  *)
LEMMA UnreachedStep ==
  ASSUME KickInv, StreamInv', NEW i \in Slaves, \A m \in Slaves \ {i} : Kept(m), QuietKicks,
         doubt => doubt', missed' # {} => missed # {} \/ doubt',
         ~(cl[i].waiting_for_noop /\ cl[i].pc \in {"listen", "scarf"}), cl'[i].held \subseteq cl[i].held,
         ~doubt' => NoopOK(i)',
         ~doubt' => \A k \in Kickers : CleanAt(k, i) => CleanAt(k, i)'
  PROVE  KickInv'
<1>1. \A k \in Kickers : ~Reached(k, i)' BY ReachedListens, ReachedBefore
<1>2. ~doubt' => NodeStep(i) BY <1>1 DEF NodeStep
<1>3. HoldOK(i)'
  <2>1. HoldOK(i) BY KickParts
  <2>2. \A k \in Kicks : Home(k) = i => kick'[k] # "held" BY <2>1 DEF HoldOK, QuietKicks
  <2>3. cl'[i].held = {} BY <2>1 DEF HoldOK
  <2> QED BY <2>2, <2>3 DEF HoldOK
<1> QED BY <1>2, <1>3, FrameStep

(* A step that changes nothing but the place in the client thread.         *)
LEMMA CleanPlace ==
  ASSUME NEW i \in Slaves, Sent(i)' = Sent(i), db'[i] = db[i], had' = had,
         cl'[i].pc = "sync" => cl[i].pc = "sync", NEW k, CleanAt(k, i)
  PROVE  CleanAt(k, i)'
<1>1. Oks(Sent(i))' = Oks(Sent(i)) BY DEF Oks
<1> QED BY <1>1 DEF CleanAt, Current, KnownFrom, NoneLeft

LEMMA CleanEmpty ==
  ASSUME NEW i \in Slaves, Sent(i)' = <<>>, db'[i] = db[i], had' = had, NEW k, CleanAt(k, i)
  PROVE  CleanAt(k, i)' /\ Oks(Sent(i))' = {}
<1> DEFINE e == <<>>
<1>1. Len(e) = 0 /\ 1..Len(e) = {} OBVIOUS
<1> HIDE DEF e
<1>2. Oks(Sent(i))' = {} BY <1>1 DEF Oks, e
<1>3. KnownFrom(had[k], Sent(i), 1)' BY <1>1 DEF KnownFrom, e
<1>4. Current(had[k], db[i])' BY DEF CleanAt, Current
<1> QED BY <1>2, <1>3, <1>4 DEF CleanAt

LEMMA PlaceFresh ==
  ASSUME KickInv, StreamInv', NEW i \in Slaves, UNCHANGED <<db, srv, up, down, alive, kick, had, fresh, doubt, missed>>,
         \A m \in Slaves \ {i} : cl'[m] = cl[m],
         ~(cl[i].waiting_for_noop /\ cl[i].pc \in {"listen", "scarf"}), cl'[i].held = cl[i].held,
         cl'[i].buf = cl[i].buf, cl'[i].pc # "sync", ~doubt => NoopOK(i)'
  PROVE  KickInv'
<1>1. \A m \in Slaves \ {i} : Kept(m) BY DEF Kept, Stay, Logged
<1>2. Sent(i)' = Sent(i) BY DEF Sent
<1> QED BY <1>1, <1>2, NoKick, CleanPlace, UnreachedStep

LEMMA ConnectFresh == ASSUME KickInv, StreamInv', NEW i \in Slaves, mupdate_connect(i) PROVE KickInv'
<1>1. TypeInv /\ Types /\ ServerOK(i) /\ ClientOK(i) /\ srv[i] \in Threads BY KickParts, TypesDef
<1> DEFINE c == [Down EXCEPT !.pc = "sync"]
<1>2. /\ cl[i].pc = "down" /\ cl' = [cl EXCEPT ![i] = c] /\ srv' = [srv EXCEPT ![i].pc = "idle"]
      /\ up' = [up EXCEPT ![i] = <<"UPDATE">>]
      /\ down' = [down EXCEPT ![i] = <<>>] /\ alive' = [alive EXCEPT ![i] = TRUE]
      /\ UNCHANGED <<db, kick, had, fresh, doubt, missed>>
  BY DEF mupdate_connect, history, asked
<1>3. c.pc = "sync" /\ c.buf = <<>> /\ c.held = {} BY DownOK
<1> HIDE DEF c
<1>4. /\ cl'[i] = c /\ srv'[i].pc = "idle" /\ up'[i] = <<"UPDATE">> /\ down'[i] = <<>>
      /\ \A m \in Slaves \ {i} : /\ cl'[m] = cl[m] /\ srv'[m] = srv[m] /\ up'[m] = up[m]
                                 /\ down'[m] = down[m] /\ alive'[m] = alive[m]
  BY <1>1, <1>2 DEF Types, Threads
<1>5. \A m \in Slaves \ {i} : Kept(m) BY <1>2, <1>4 DEF Kept, Stay, Logged
<1>6. Sent(i)' = <<>>
  <2>1. <<>> \o <<>> = <<>> OBVIOUS
  <2> QED BY <1>3, <1>4, <2>1 DEF Sent
<1>7. Oks(Sent(i))' = {}
  <2> DEFINE e == <<>>
  <2>1. Len(e) = 0 /\ 1..Len(e) = {} OBVIOUS
  <2> HIDE DEF e
  <2> QED BY <1>6, <2>1 DEF Oks, e
<1>8. NoopOK(i)'
  <2>1. ~Busy(i)' BY <1>4 DEF Busy
  <2>2. \A j \in 1..Len(up'[i]) : up'[i][j] # "NOOP"
    <3> DEFINE q == up'[i]
    <3>1. Len(q) = 1 /\ q[1] = "UPDATE" BY <1>4
    <3> HIDE DEF q
    <3>2. \A j \in 1..Len(q) : j = 1 BY <3>1
    <3> QED BY <3>1, <3>2 DEF q
  <2> QED BY <1>3, <1>4, <1>7, <2>1, <2>2 DEF NoopOK, Copying
<1>9. \A k \in Kickers : CleanAt(k, i) => CleanAt(k, i)' BY <1>2, <1>6, CleanEmpty
<1> QED BY <1>2, <1>3, <1>4, <1>5, <1>8, <1>9, NoKick, UnreachedStep

LEMMA CutIndex ==
  ASSUME NEW S, NEW s \in Seq(S), NEW j \in 1..Len(s)
  PROVE  LET p == SubSeq(s, 1, j - 1)
             r == SubSeq(s, j + 1, Len(s))
         IN /\ Len(s) \in Nat /\ j \in Nat
            /\ p \in Seq(S) /\ Len(p) = j - 1 /\ \A a \in 1..j - 1 : p[a] = s[a] /\ a \in 1..Len(s)
            /\ r \in Seq(S) /\ Len(r) = Len(s) - j /\ \A a \in 1..Len(r) : r[a] = s[j + a] /\ j + a \in 1..Len(s)
<1> DEFINE p == SubSeq(s, 1, j - 1)
           r == SubSeq(s, j + 1, Len(s))
<1>1. Len(s) \in Nat /\ j \in Nat OBVIOUS
<1>2. p \in Seq(S) /\ Len(p) = j - 1 /\ \A a \in 1..j - 1 : p[a] = s[a] OBVIOUS
<1>3. r \in Seq(S) /\ Len(r) = Len(s) - j OBVIOUS
<1>4. \A a \in 1..Len(r) : r[a] = s[j + a]
  <2> SUFFICES ASSUME NEW a \in 1..Len(r) PROVE r[a] = s[j + a] OBVIOUS
  <2>1. a \in 1..Len(s) - j BY <1>3
  <2>2. r[a] = s[(j + 1) + a - 1] BY <1>1, <2>1
  <2>3. (j + 1) + a - 1 = j + a BY <1>1
  <2> QED BY <2>2, <2>3
<1> HIDE DEF p, r
<1>5. (\A a \in 1..j - 1 : a \in 1..Len(s)) /\ \A a \in 1..Len(r) : j + a \in 1..Len(s)
  BY <1>1, <1>3
<1> QED BY <1>1, <1>2, <1>3, <1>4, <1>5 DEF p, r

(* The list was copied: each name has what the lines say of it, or nothing.*)
LEMMA MergedClean ==
  ASSUME NEW H, NEW s \in Seq(Messages), NEW j \in 1..Len(s), s[j] \in Signs,
         KnownFrom(H, s, 1), NoneLeft(H, s, j), NEW d,
         \A n \in Names : d[n] = Apply(Empty, SubSeq(s, 1, j - 1))[n]
  PROVE  Current(H, d) /\ KnownFrom(H, SubSeq(s, j + 1, Len(s)), 1)
<1> DEFINE p == SubSeq(s, 1, j - 1)
           r == SubSeq(s, j + 1, Len(s))
<1>1. /\ Len(s) \in Nat /\ j \in Nat
      /\ p \in Seq(Messages) /\ Len(p) = j - 1 /\ \A a \in 1..j - 1 : p[a] = s[a] /\ a \in 1..Len(s)
      /\ r \in Seq(Messages) /\ Len(r) = Len(s) - j /\ \A a \in 1..Len(r) : r[a] = s[j + a] /\ j + a \in 1..Len(s)
  BY CutIndex
<1>2. \A n \in Names : d[n] = Apply(Empty, p)[n] OBVIOUS
<1> HIDE DEF p, r
<1>3. KnownFrom(H, r, 1) BY <1>1 DEF KnownFrom
<1>4. ASSUME NEW n \in Names PROVE d[n] \in H[n]
  <2>1. CASE \A a \in 1..Len(p) : p[a].n # n
    <3>1. Apply(Empty, p)[n] = Empty[n] BY ONLY <1>1, <2>1, n \in Names, ApplyLast
    <3>2. d[n] = None BY <1>2, <3>1 DEF Empty
    <3>3. \A a \in 1..j : s[a].n # n
      <4> SUFFICES ASSUME NEW a \in 1..j PROVE s[a].n # n OBVIOUS
      <4>1. CASE a = j BY <4>1, SignFacts
      <4>2. CASE a # j
        <5>1. a \in 1..j - 1 /\ a \in 1..Len(p) BY <1>1, <4>2
        <5> QED BY <1>1, <2>1, <5>1
      <4> QED BY <4>1, <4>2
    <3> QED BY <3>2, <3>3 DEF NoneLeft
  <2>2. ASSUME NEW a \in 1..Len(p), p[a].n = n, \A b \in a + 1..Len(p) : p[b].n # n
        PROVE  d[n] \in H[n]
    <3>1. Apply(Empty, p)[n] = p[a].e BY ONLY <1>1, <2>2, n \in Names, ApplyLast
    <3>2. p[a] = s[a] /\ a \in 1..Len(s) BY <1>1
    <3> QED BY <1>2, <2>2, <3>1, <3>2 DEF KnownFrom
  <2> QED BY <1>1, <2>1, <2>2, LastLine
<1> QED BY <1>3, <1>4 DEF Current, r

LEMMA SyncFresh ==
  ASSUME Strcmp = Order, KickInv, StreamInv', NEW i \in Slaves, mupdate_synchronize(i)
  PROVE  KickInv'
<1>1. StreamInv /\ TypeInv /\ Types /\ ClientOK(i) BY KickParts
<1> DEFINE s == down[i]
           j == Upto(s)
           p == SubSeq(s, 1, j - 1)
           q == SubSeq(s, j + 1, Len(s))
<1>2. cl[i].pc = "sync" /\ cl[i].buf = <<>> /\ UNCHANGED <<srv, up, alive, kick, had, fresh>>
  BY <1>1 DEF mupdate_synchronize, ClientOK
<1>3. Sent(i) = s BY <1>1, <1>2, SentOK
<1>4. CASE /\ Ends(down[i]) # {}
           /\ db' = [db EXCEPT ![i] = Merged(There(i), p, @)]
           /\ doubt' = (doubt \/ missed' # {} \/ s[j] = BYE)
           /\ cl' = [cl EXCEPT ![i].pc = "synced", ![i].buf = q]
           /\ down' = [down EXCEPT ![i] = <<>>]
  <2>1. /\ \A m \in Nodes \ {i} : db'[m] = db[m]
        /\ \A m \in Slaves \ {i} : cl'[m] = cl[m] /\ down'[m] = down[m]
        /\ db'[i] = Merged(There(i), p, db[i])
        /\ cl'[i].pc = "synced" /\ cl'[i].buf = q /\ down'[i] = <<>> /\ cl'[i].held = cl[i].held
    BY <1>1, <1>4, SyncDoes
  <2>2. s \in Seq(Messages) BY <1>1, SentOK
  <2>3. j \in 1..Len(s) /\ s[j] \in Signs BY <1>4, <2>2, UptoOK
  <2>4. \A n \in Names : db'[i][n] = Apply(Empty, p)[n] BY <1>1, <1>2, <1>4, <2>1, SyncMerges
  <2> HIDE DEF s, j
  <2>5. q \in Seq(Messages) /\ \A a \in 1..Len(q) : q[a] = s[j + a] /\ j + a \in 1..Len(s)
    BY <2>2, <2>3, CutIndex
  <2>6. Sent(i)' = q
    <3> HIDE DEF q
    <3>1. q \o <<>> = q BY ONLY <2>5, ConcatFacts
    <3> QED BY <2>1, <3>1 DEF Sent
  <2>7. QuietKicks BY <1>2, <2>1, NodeFacts DEF QuietKicks
  <2>8. \A m \in Slaves \ {i} : Kept(m) BY <1>2, <2>1, NodeFacts DEF Kept, Stay, Logged
  <2>9. ~doubt' => NoopOK(i) /\ j \in Oks(s)
    <3>1. ~doubt' => ~doubt /\ s[j] = OK BY <1>4, <2>3 DEF Signs
    <3> QED BY <2>3, <3>1, KickParts DEF Oks
  <2>10. ASSUME ~doubt' PROVE NoopOK(i)'
    <3>1. Copying(i) /\ up[i] = <<>> BY <1>2, <1>3, <2>9, <2>10 DEF NoopOK, Copying
    <3>2. Oks(q) = {}
      <4> SUFFICES ASSUME NEW a \in Oks(q) PROVE FALSE OBVIOUS
      <4>1. a \in 1..Len(q) /\ q[a] = OK BY DEF Oks
      <4> DEFINE b == j + a
      <4> HIDE DEF q
      <4>2. b \in 1..Len(s) /\ s[b] = OK BY <2>5, <4>1
      <4>3. j \in 1..b - 1 BY <2>3, <2>5, <4>1
      <4> HIDE DEF b
      <4>4. b \in Oks(Sent(i)) BY <1>3, <4>2 DEF Oks
      <4>5. Plain(s, b - 1) BY <1>3, <3>1, <4>4 DEF Copying
      <4> QED BY <2>3, <4>3, <4>5 DEF Plain
    <3>3. Oks(Sent(i))' = {} BY <2>6, <3>2 DEF Oks
    <3>4. ~Busy(i)' BY <1>2, <3>1 DEF Copying, Busy
    <3> QED BY <1>2, <2>1, <3>1, <3>3, <3>4 DEF NoopOK, Silent
  <2>11. ASSUME ~doubt', NEW k \in Kickers, CleanAt(k, i) PROVE CleanAt(k, i)'
    <3>1. KnownFrom(had[k], s, 1) /\ NoneLeft(had[k], s, j)
      BY <1>2, <1>3, <2>9, <2>11, NodeFacts DEF CleanAt
    <3>2. Current(had[k], db'[i]) /\ KnownFrom(had[k], q, 1)
      BY <2>2, <2>3, <2>4, <3>1, MergedClean
    <3> HIDE DEF q
    <3>3. Current(had[k], db[i])' /\ KnownFrom(had[k], Sent(i), 1)'
      BY <1>2, <2>6, <3>2 DEF Current, KnownFrom
    <3> QED BY <2>1, <3>3 DEF CleanAt
  <2>12. (doubt => doubt') /\ (missed' # {} => doubt') BY <1>4
  <2> QED BY <1>2, <2>1, <2>7, <2>8, <2>10, <2>11, <2>12, UnreachedStep
<1>5. CASE /\ cl' = [cl EXCEPT ![i] = Down]
           /\ down' = [down EXCEPT ![i] = <<>>] /\ UNCHANGED <<db, doubt, missed>>
  <2>1. /\ cl'[i] = Down /\ down'[i] = <<>> /\ \A m \in Slaves \ {i} : cl'[m] = cl[m] /\ down'[m] = down[m]
    BY <1>1, <1>5 DEF Types
  <2>2. Sent(i)' = <<>>
    <3>1. <<>> \o <<>> = <<>> OBVIOUS
    <3> QED BY <2>1, <3>1, DownOK DEF Sent
  <2>3. NoopOK(i)' BY <2>1, DownOK DEF NoopOK
  <2>4. \A k \in Kickers : CleanAt(k, i) => CleanAt(k, i)' BY <1>2, <1>5, <2>2, CleanEmpty
  <2>5. \A m \in Slaves \ {i} : Kept(m) BY <1>2, <1>5, <2>1 DEF Kept, Stay, Logged
  <2>6. cl'[i].held = {} BY <2>1, DownOK
  <2> QED BY <1>2, <1>5, <2>3, <2>4, <2>5, <2>6, NoKick, UnreachedStep
<1> QED BY <1>4, <1>5 DEF mupdate_synchronize

LEMMA SilentPlace ==
  ASSUME NEW i \in Slaves, Sent(i)' = Sent(i), up' = up, srv' = srv
  PROVE  (Silent(i) => Silent(i)') /\ (One(i) => One(i)')
<1>1. Oks(Sent(i))' = Oks(Sent(i)) BY DEF Oks
<1>2. Busy(i)' <=> Busy(i) BY DEF Busy
<1> QED BY <1>1, <1>2 DEF Silent, One

LEMMA ReadyFresh == ASSUME KickInv, StreamInv', NEW i \in Slaves, mupdate_ready(i) PROVE KickInv'
<1>1. Types /\ cl[i] \in Clients BY KickParts, TypesDef
<1>2. /\ cl[i].pc = "synced" /\ cl' = [cl EXCEPT ![i].pc = "ready"]
      /\ UNCHANGED <<db, srv, up, down, alive, kick, had, fresh, doubt, missed>>
  BY DEF mupdate_ready, conns, history, asked
<1>3. /\ cl'[i].pc = "ready" /\ cl'[i].held = cl[i].held /\ cl'[i].buf = cl[i].buf
      /\ \A m \in Slaves \ {i} : cl'[m] = cl[m]
  BY <1>1, <1>2 DEF Types, Clients
<1>4. ~doubt => NoopOK(i)'
  <2>1. ~doubt => NoopOK(i) BY KickParts
  <2>2. Silent(i) => Silent(i)' BY <1>2, <1>3, SilentPlace DEF Sent
  <2> QED BY <1>2, <1>3, <2>1, <2>2 DEF NoopOK
<1> QED BY <1>2, <1>3, <1>4, PlaceFresh

LEMMA OpenFresh == ASSUME KickInv, StreamInv', NEW i \in Slaves, open_kick_socket(i) PROVE KickInv'
<1>1. Types /\ cl[i] \in Clients BY KickParts, TypesDef
<1>2. /\ cl[i].pc = "ready" /\ cl' = [cl EXCEPT ![i].pc = "listen"]
      /\ UNCHANGED <<db, srv, up, down, alive, kick, had, fresh, doubt, missed>>
  BY DEF open_kick_socket, conns, history, asked
<1>3. /\ cl'[i].pc = "listen" /\ cl'[i].held = cl[i].held /\ cl'[i].buf = cl[i].buf
      /\ \A m \in Slaves \ {i} : cl'[m] = cl[m]
  BY <1>1, <1>2 DEF Types, Clients
<1>4. ~doubt => NoopOK(i)'
  <2>1. ~doubt => NoopOK(i) BY KickParts
  <2>2. Silent(i) => Silent(i)' BY <1>2, <1>3, SilentPlace DEF Sent
  <2> QED BY <1>2, <1>3, <2>1, <2>2 DEF NoopOK
<1> QED BY <1>2, <1>3, <1>4, PlaceFresh

LEMMA InputFresh == ASSUME KickInv, StreamInv', NEW i \in Slaves, select_input(i) PROVE KickInv'
<1>1. Types /\ cl[i] \in Clients BY KickParts, TypesDef
<1>2. /\ cl[i].pc = "listen" /\ cl' = [cl EXCEPT ![i].pc = "scarf", ![i].kset = Waiting(i) # {}]
      /\ UNCHANGED <<db, srv, up, down, alive, kick, had, fresh, doubt, missed>>
  BY DEF select_input, conns, history, asked
<1>3. /\ cl'[i].pc = "scarf" /\ cl'[i].held = cl[i].held /\ cl'[i].buf = cl[i].buf
      /\ cl'[i].waiting_for_noop = cl[i].waiting_for_noop
      /\ \A m \in Slaves \ {i} : cl'[m] = cl[m]
  BY <1>1, <1>2 DEF Types, Clients
<1>4. Sent(i)' = Sent(i) /\ Oks(Sent(i))' = Oks(Sent(i)) BY <1>2, <1>3 DEF Sent, Oks
<1>5. ~doubt => NoopOK(i)'
  <2>1. ~doubt => NoopOK(i) BY KickParts
  <2>2. (Silent(i) => Silent(i)') /\ (One(i) => One(i)') BY <1>2, <1>4, SilentPlace
  <2> QED BY <1>2, <1>3, <2>1, <2>2 DEF NoopOK
<1>6. HoldOK(i)'
  <2>1. HoldOK(i) BY KickParts
  <2> QED BY <1>2, <1>3, <2>1 DEF HoldOK
<1>7. \A m \in Slaves \ {i} : Kept(m) BY <1>2, <1>3 DEF Kept, Stay, Logged
<1>8. QuietKicks BY <1>2, NoKick
<1>9. ASSUME ~doubt, NEW k \in Kickers, Reached(k, i)', kick[k] = "held" /\ Clean(k, Up(i)) => Clean(k, Up(i))'
      PROVE  Stage(k, i)'
  <2>1. Reached(k, i) /\ kick[k] = "held" /\ Stage(k, i)
    BY <1>8, <1>9, ReachedBefore, KickParts DEF Reached
  <2>2. Past(i)' => Past(i) BY <1>2, <1>4 DEF Past, Flushes
  <2>3. Flushes(i)' => Flushed(k, i)'
    <3>1. Predicted(i)' = Predicted(i) BY <1>2, <1>3, <1>4 DEF Predicted
    <3> QED BY <1>2, <2>1, <3>1 DEF Flushes, Flushed, Stage
  <2>4. Confirmed(k, i)' BY <1>2, <1>4, <2>1 DEF Stage, Confirmed, Brings, LastFor, KnownFrom
  <2> QED BY <1>9, <2>1, <2>2, <2>3, <2>4 DEF Stage
<1>10. \A k \in Kickers : CleanAt(k, i) => CleanAt(k, i)' BY <1>2, <1>3, <1>4, CleanPlace
<1>11. ~doubt => NodeStep(i) BY <1>5, <1>9, <1>10 DEF NodeStep
<1> QED BY <1>2, <1>6, <1>7, <1>8, <1>11, FrameStep

LEMMA TimeoutFresh == ASSUME KickInv, StreamInv', NEW i \in Slaves, select_timeout(i) PROVE KickInv'
<1>1. TypeInv /\ Types /\ cl[i] \in Clients BY KickParts, TypesDef
<1>2. /\ cl[i].pc = "listen" /\ ~cl[i].waiting_for_noop /\ doubt' = (doubt \/ Unanswered(i))
      /\ cl' = [cl EXCEPT ![i].waiting_for_noop = TRUE]
      /\ up' = [up EXCEPT ![i] = Append(@, "NOOP")]
      /\ UNCHANGED <<db, srv, down, alive, kick, had, fresh, missed>>
  BY DEF select_timeout
<1>3. /\ cl'[i].pc = "listen" /\ cl'[i].held = cl[i].held /\ cl'[i].buf = cl[i].buf /\ cl'[i].waiting_for_noop
      /\ \A m \in Slaves \ {i} : cl'[m] = cl[m]
  BY <1>1, <1>2 DEF Types, Clients
<1>4. up'[i] = Append(up[i], "NOOP") /\ \A m \in Slaves \ {i} : up'[m] = up[m]
  BY <1>1, <1>2 DEF Types
<1>5. Sent(i)' = Sent(i) /\ Oks(Sent(i))' = Oks(Sent(i)) BY <1>2, <1>3 DEF Sent, Oks
<1>6. ASSUME ~doubt' PROVE NoopOK(i)'
  <2>1. NoopOK(i) BY <1>2, <1>6, KickParts
  <2>2. Silent(i) BY <1>2, <2>1 DEF NoopOK
  <2>3. up'[i] = <<"NOOP">> BY <1>4, <2>2 DEF Silent
  <2>4. ~Busy(i)' /\ Oks(Sent(i))' = {} BY <1>2, <1>5, <2>2 DEF Silent, Busy
  <2> QED BY <1>3, <2>3, <2>4 DEF NoopOK, One
<1>7. \A m \in Slaves \ {i} : Kept(m) BY <1>2, <1>3, <1>4 DEF Kept, Stay, Logged
<1>8. \A k \in Kickers : CleanAt(k, i) => CleanAt(k, i)' BY <1>2, <1>3, <1>5, CleanPlace
<1> QED BY <1>2, <1>3, <1>6, <1>7, <1>8, NoKick, UnreachedStep

(* A turn of the loop: who was kicked is told "ok", new kicks are taken.   *)
(* Either the OK of the NOOP was read just now, or none was on the way.    *)
TurnRead(i) ==
  \/ ~cl[i].waiting_for_noop /\ Sent(i)' = Sent(i)
  \/ /\ cl[i].waiting_for_noop /\ Sent(i)' \in Seq(Messages)
     /\ Sent(i) = <<OK>> \o Sent(i)'

LEMMA TurnQuiet ==
  ASSUME KickInv, ~doubt, NEW i \in Slaves, cl[i].pc \in {"listen", "scarf"}, TurnRead(i)
  PROVE  /\ up[i] = <<>> /\ ~Busy(i) /\ Oks(Sent(i))' = {}
         /\ cl[i].waiting_for_noop => 1 \in Oks(Sent(i)) /\ Sent(i)[1] \in Signs
<1>1. NoopOK(i) BY KickParts
<1>2. CASE ~cl[i].waiting_for_noop /\ Sent(i)' = Sent(i)
  <2>1. Silent(i) BY <1>1, <1>2 DEF NoopOK
  <2> QED BY <1>2, <2>1 DEF Silent, Oks
<1>3. CASE /\ cl[i].waiting_for_noop /\ Sent(i)' \in Seq(Messages)
           /\ Sent(i) = <<OK>> \o Sent(i)'
  <2> DEFINE r == Sent(i)'
             s == <<OK>> \o r
  <2>1. r \in Seq(Messages) /\ OK \in Messages /\ Sent(i) = s /\ OK \in Signs BY <1>3, SignFacts
  <2> HIDE DEF r
  <2>2. 1 \in Oks(s) /\ (\A j \in Oks(r) : j + 1 \in Oks(s)) /\ Oks(r) \subseteq 1..Len(r) /\ s[1] = OK /\ Len(r) \in Nat
    BY <2>1, OksFront
  <2> HIDE DEF s
  <2>3. One(i) BY <1>1, <2>1, <2>2 DEF NoopOK, Silent
  <2>4. up[i] = <<>> /\ ~Busy(i) /\ \E j \in Oks(s) : Oks(s) = {j} BY <2>1, <2>2, <2>3 DEF One
  <2>5. Oks(r) = {}
    <3> SUFFICES ASSUME NEW j \in Oks(r) PROVE FALSE OBVIOUS
    <3>1. j \in 1..Len(r) BY <2>2
    <3>2. j + 1 # 1 BY <3>1
    <3>3. j + 1 \in Oks(s) /\ 1 \in Oks(s) BY <2>2
    <3> QED BY <2>4, <3>2, <3>3
  <2>6. Oks(Sent(i))' = {} BY <2>5 DEF Oks, r
  <2> QED BY <2>1, <2>2, <2>4, <2>6
<1> QED BY <1>2, <1>3 DEF TurnRead

LEMMA ToldCurrent ==
  ASSUME KickInv, ~doubt, NEW i \in Slaves, cl[i].pc \in {"listen", "scarf"}, TurnRead(i),
         NEW m \in Told(i), NEW k \in Kickers, Reached(k, i)
  PROVE  Clean(k, i) /\ Current(had[k], db[i])
<1>1. cl[i].waiting_for_noop BY DEF Told
<1>2. 1 \in Oks(Sent(i)) /\ Sent(i)[1] \in Signs BY <1>1, TurnQuiet
<1>3. Stage(k, i) BY KickParts
<1>4. Clean(k, Up(i)) BY <1>2, <1>3 DEF Stage, Past
<1>5. Brings(had[k], db[i], Sent(i), 1) /\ KnownFrom(had[k], Sent(i), 1)
  BY <1>2, <1>3 DEF Stage, Confirmed
<1>6. Current(had[k], db[i]) BY <1>2, <1>5, BringsFirst
<1>7. CleanAt(k, i) BY <1>5, <1>6 DEF CleanAt
<1>8. \A v \in 1..i : v = i \/ v \in 1..Up(i) BY NodeAssumption DEF Slaves, Up
<1> QED BY <1>4, <1>6, <1>7, <1>8 DEF Clean

LEMMA TurnFresh ==
  ASSUME KickInv, StreamInv', NEW i \in Slaves, cl[i].pc \in {"listen", "scarf"},
         NEW buf, NEW b \in BOOLEAN, TurnDone(i, buf, b), UNCHANGED <<db, srv, alive, missed>>,
         \A m \in Slaves \ {i} : down'[m] = down[m], doubt => doubt', ~doubt' => TurnRead(i)
  PROVE  KickInv'
<1>1. TypeInv /\ Types /\ HoldOK(i) /\ ClientOK(i) BY KickParts
<1>2. /\ cl'[i].pc = "listen" /\ cl'[i].waiting_for_noop = b /\ cl'[i].held = New(i, b)
      /\ had' = had /\ kick'[i] = kick[i] /\ up'[i] = IF b THEN Append(up[i], "NOOP") ELSE up[i]
      /\ \A m \in Slaves \ {i} : cl'[m] = cl[m] /\ up'[m] = up[m]
  BY DEF TurnDone
<1>3. /\ \A k \in Kicks : kick'[k] = IF k \in Told(i) THEN "ok" ELSE IF k \in New(i, b) THEN "held" ELSE kick[k]
      /\ \A k \in Told(i) : k \in Kicks /\ Home(k) = i /\ kick[k] = "held"
      /\ \A k \in New(i, b) : k \in Kicks /\ Home(k) = i /\ kick[k] = "wait"
      /\ \A k \in Kickers : fresh'[k] = IF k \in Told(i) THEN \A n \in Names : db[i][n] \in had[k][n] ELSE fresh[k]
  BY DEF TurnDone
<1>4. \A m \in Slaves \ {i} : Kept(m) BY <1>2 DEF Kept, Stay, Logged
<1>5. \A k \in Kicks : /\ kick'[k] = "held" => k \in New(i, b) \/ (kick[k] = "held" /\ k \notin Told(i))
                       /\ kick'[k] = "ok" => k \in Told(i) \/ (kick[k] = "ok" /\ k \notin Told(i))
                       /\ kick'[k] = "wait" => kick[k] = "wait"
  BY <1>3
<1>6. HoldOK(i)'
  <2>1. ASSUME NEW k \in Kicks, Home(k) = i, kick'[k] = "held" PROVE k \in cl'[i].held
    <3>1. CASE k \in New(i, b) BY <1>2, <3>1
    <3>2. CASE kick[k] = "held" /\ k \notin Told(i)
      <4>1. k \in cl[i].held BY <1>1, <2>1, <3>2 DEF HoldOK
      <4>2. cl[i].waiting_for_noop BY <1>1, <4>1 DEF HoldOK
      <4> QED BY <3>2, <4>1, <4>2 DEF Told
    <3> QED BY <1>5, <2>1, <3>1, <3>2
  <2>2. cl'[i].held # {} => b BY <1>2 DEF New
  <2> QED BY <1>2, <2>1, <2>2 DEF HoldOK
<1>7. HeldKept(i) BY <1>2, <1>3, <1>5 DEF HeldKept, Grown
<1>8. \A k \in Kickers : k \in Kicks /\ MasterOK(k)'
  <2>1. \A k \in Kickers : MasterOK(k) /\ k \in Kicks BY KickParts
  <2>2. \A k \in Kickers : kick'[k] \in {"wait", "held"} => kick[k] \in {"wait", "held"}
    BY <1>3, <1>5, <2>1
  <2> QED BY <1>2, <2>1, <2>2 DEF MasterOK, Current
<1>9. KickFresh'
  <2> SUFFICES ASSUME NEW k \in Kickers, kick'[k] = "ok", ~doubt' PROVE fresh'[k]
    BY DEF KickFresh
  <2>1. CASE k \in Told(i)
    <3>1. i = N /\ kick[k] = "held" BY <1>3, <2>1, NodeFacts
    <3>2. i + 1..N = {} BY <3>1, NodeAssumption
    <3>3. Reached(k, i) BY <3>1, <3>2 DEF Reached
    <3>4. Current(had[k], db[i]) BY <2>1, <3>3, ToldCurrent
    <3> QED BY <1>3, <2>1, <3>4 DEF Current
  <2>2. CASE kick[k] = "ok" /\ k \notin Told(i)
    <3>1. KickFresh BY KickParts
    <3> QED BY <1>3, <2>2, <3>1 DEF KickFresh
  <2> QED BY <1>5, <1>8, <2>1, <2>2
<1>10. ASSUME ~doubt' PROVE ~doubt /\ up[i] = <<>> /\ ~Busy(i) /\ Oks(Sent(i))' = {}
  BY <1>10, TurnQuiet
<1>11. ASSUME ~doubt' PROVE ReachKept(i)
  <2> SUFFICES ASSUME NEW k \in Kickers, NEW m \in Slaves \ {i}, Reached(k, m)'
               PROVE  Reached(k, m) /\ (kick'[m] = "ok" => kick[m] = "ok" \/ Clean(k, Up(m)))
    BY DEF ReachKept
  <2>1. kick'[k] = "held" /\ \A j \in m + 1..N : kick'[j] = "held" /\ j \in Slaves /\ j \in Kicks
    BY NodeAssumption DEF Reached, Slaves, Kicks
  <2>2. m \in Int /\ i \in Int /\ N \in Int /\ m <= N /\ i <= N BY NodeAssumption DEF Slaves
  <2>3. CASE m < i
    <3>1. i \in m + 1..N BY <2>2, <2>3
    <3>2. kick[i] = "held" BY <1>2, <2>1, <3>1
    <3>3. srv[i].pc = "kick" BY <1>1, <3>2 DEF ClientOK
    <3> QED BY <1>10, <1>11, <3>3 DEF Busy
  <2>4. CASE m > i
    <3>1. k \notin New(i, b) BY <1>3, <2>2, <2>4, NodeFacts
    <3>2. kick[k] = "held" BY <1>5, <1>8, <2>1, <3>1
    <3>3. ASSUME NEW j \in m + 1..N PROVE kick[j] = "held"
      <4>1. j \in Slaves /\ j \in Kicks /\ kick'[j] = "held" BY <2>1
      <4>2. Home(j) = Up(j) /\ Up(j) # i BY <2>2, <2>4, <4>1, NodeFacts DEF Up
      <4> QED BY <1>3, <1>5, <4>1, <4>2
    <3>4. Reached(k, m) BY <3>2, <3>3 DEF Reached
    <3>5. ASSUME m \in Told(i) PROVE Clean(k, Up(m))
      <4>1. Home(m) = i /\ kick[m] = "held" /\ Home(m) = Up(m) BY <1>3, <3>5, NodeFacts
      <4>2. \A j \in i + 1..N : j = m \/ j \in m + 1..N BY <2>2, <4>1 DEF Up
      <4>3. Reached(k, i) BY <3>2, <3>3, <4>1, <4>2 DEF Reached
      <4>4. Clean(k, i) BY <1>10, <1>11, <3>5, <4>3, ToldCurrent
      <4> QED BY <4>1, <4>4
    <3>6. m \in Kicks BY NodeFacts
    <3> QED BY <1>5, <3>4, <3>5, <3>6
  <2> QED BY <2>2, <2>3, <2>4
<1>12. ASSUME ~doubt' PROVE NodeStep(i)
  <2>1. NoopOK(i)'
    <3>1. ~Busy(i)' BY <1>10, <1>12 DEF Busy
    <3>2. CASE b
      <4>0. up'[i] = Append(up[i], "NOOP") /\ up[i] = <<>> BY <1>2, <1>10, <1>12, <3>2
      <4>1. up'[i] = <<"NOOP">> BY <4>0
      <4> QED BY <1>2, <1>10, <1>12, <3>1, <3>2, <4>1 DEF NoopOK, One
    <3>3. CASE ~b
      <4>1. up'[i] = <<>> BY <1>2, <1>10, <1>12, <3>3
      <4> QED BY <1>2, <1>10, <1>12, <3>1, <4>1 DEF NoopOK, Silent
    <3> QED BY <3>2, <3>3
  <2>2. ASSUME NEW k \in Kickers, CleanAt(k, i) PROVE CleanAt(k, i)'
    <3>1. i # Master /\ Current(had[k], db[i]) /\ KnownFrom(had[k], Sent(i), 1)
      BY <2>2, NodeFacts DEF CleanAt
    <3> DEFINE r == Sent(i)'
    <3>2. KnownFrom(had[k], r, 1)
      <4>1. CASE r = Sent(i) BY <3>1, <4>1
      <4>2. CASE r \in Seq(Messages) /\ Sent(i) = <<OK>> \o r
        <5>1. OK \in Messages /\ OK \in Signs /\ db[i] \in Lists BY <1>1, SignFacts, SentOK
        <5>2. ReadInto(db[i], OK, db[i]) BY <5>1 DEF ReadInto
        <5> HIDE DEF r
        <5>3. KnownFrom(had[k], <<OK>> \o r, 1) => KnownFrom(had[k], r, 1)
          BY <4>2, <5>1, <5>2, ReadFirst
        <5> QED BY <3>1, <4>2, <5>3
      <4> QED BY <1>12, <4>1, <4>2 DEF TurnRead
    <3>3. KnownFrom(had[k], Sent(i), 1)' BY <1>2, <3>2 DEF KnownFrom
    <3> QED BY <1>2, <3>1, <3>3 DEF CleanAt, Current
  <2>3. ASSUME NEW k \in Kickers PROVE Stage(k, i)'
    <3>1. ~Past(i)' /\ ~Flushes(i)' BY <1>10, <1>12 DEF Past, Flushes, Busy
    <3>2. Confirmed(k, i)' BY <1>10, <1>12 DEF Confirmed
    <3> QED BY <3>1, <3>2 DEF Stage
  <2> QED BY <2>1, <2>2, <2>3 DEF NodeStep
<1> QED BY <1>4, <1>6, <1>7, <1>8, <1>9, <1>11, <1>12, KickStep

LEMMA SelectKickFresh == ASSUME KickInv, StreamInv', NEW i \in Slaves, select_kick(i) PROVE KickInv'
<1>1. TypeInv /\ Types BY KickParts
<1>2. /\ cl[i].pc = "listen" /\ doubt' = (doubt \/ cl[i].waiting_for_noop \/ Unanswered(i))
      /\ Turn(i, cl[i].buf, TRUE) /\ UNCHANGED <<db, srv, down, alive, missed>>
  BY DEF select_kick
<1>3. cl[i].buf \in Seq(Messages) BY <1>1, SentOK
<1>4. TurnDone(i, cl[i].buf, TRUE) BY <1>1, <1>2, <1>3, TurnOK
<1>5. Sent(i)' = Sent(i) BY <1>2, <1>4 DEF TurnDone, Sent
<1>6. ~doubt' => TurnRead(i) BY <1>2, <1>5 DEF TurnRead
<1> QED BY <1>2, <1>4, <1>6, TurnFresh

(* The connection is given up.                                             *)
LEMMA HomeOf ==
  ASSUME NEW i \in Slaves, NEW k \in Kickers
  PROVE  \E m \in Kicks : Home(m) = i /\ (m = k \/ m \in i + 1..N)
<1>1. i \in Int /\ i <= N /\ N \in Nat BY NodeAssumption DEF Slaves
<1>2. CASE i = N BY <1>2, NodeFacts DEF Kicks
<1>3. CASE i # N
  <2>1. i + 1 \in i + 1..N /\ i + 1 \in Slaves /\ Up(i + 1) = i BY <1>1, <1>3 DEF Slaves, Up
  <2> QED BY <2>1, NodeFacts DEF Kicks
<1> QED BY <1>2, <1>3

LEMMA DownFresh ==
  ASSUME KickInv, StreamInv', NEW i \in Slaves, \A m \in Slaves \ {i} : Kept(m), QuietKicks,
         UNCHANGED <<db, doubt, missed>>, cl'[i] = Down, down'[i] = <<>>,
         \A k \in Kicks : Home(k) = i => kick'[k] # "held"
  PROVE  KickInv'
<1>1. HoldOK(i)' BY DownOK DEF HoldOK
<1>2. NoopOK(i)' BY DownOK DEF NoopOK
<1>3. ASSUME NEW k \in Kickers PROVE ~Reached(k, i)'
  <2>1. PICK m \in Kicks : Home(m) = i /\ (m = k \/ m \in i + 1..N) BY HomeOf
  <2> QED BY <2>1 DEF Reached
<1>4. Sent(i)' = <<>>
  <2>1. <<>> \o <<>> = <<>> OBVIOUS
  <2> QED BY <2>1, DownOK DEF Sent
<1>5. \A k \in Kickers : CleanAt(k, i) => CleanAt(k, i)' BY <1>4, CleanEmpty DEF QuietKicks
<1>6. NodeStep(i) BY <1>2, <1>3, <1>5 DEF NodeStep
<1> QED BY <1>1, <1>6, FrameStep

LEMMA BrokenFresh ==
  ASSUME KickInv, StreamInv', NEW i \in Slaves, Broken(i), UNCHANGED <<db, srv, had, fresh, doubt, missed>>
  PROVE  KickInv'
<1>1. BrokenDone(i) BY KickParts, BrokenOK
<1>2. /\ cl'[i] = Down /\ down'[i] = <<>>
      /\ \A m \in Slaves \ {i} : cl'[m] = cl[m] /\ up'[m] = up[m] /\ down'[m] = down[m] /\ alive'[m] = alive[m]
      /\ \A k \in Kicks : kick'[k] = IF Home(k) = i /\ kick[k] \in {"wait", "held"} THEN "failed" ELSE kick[k]
  BY <1>1 DEF BrokenDone
<1>3. \A m \in Slaves \ {i} : Kept(m) BY <1>2 DEF Kept, Stay, Logged
<1>4. QuietKicks BY <1>2 DEF QuietKicks, Kicks
<1>5. \A k \in Kicks : Home(k) = i => kick'[k] # "held" BY <1>2
<1> QED BY <1>2, <1>3, <1>4, <1>5, DownFresh

LEMMA TimeOutFresh == ASSUME KickInv, StreamInv', NEW i \in Slaves, time_out(i) PROVE KickInv'
<1>1. Broken(i) /\ UNCHANGED <<db, srv, had, fresh, doubt, missed>>
  BY DEF time_out, history, asked
<1> QED BY <1>1, BrokenFresh

LEMMA CrashFresh == ASSUME KickInv, StreamInv', NEW i \in Slaves, crash(i) PROVE KickInv'
<1>1. CrashDone(i) BY KickParts, CrashOK
<1>2. /\ cl'[i] = Down /\ down'[i] = <<>> /\ UNCHANGED <<db, had, fresh, doubt, missed>>
      /\ \A m \in Slaves \ {i} : cl'[m] = cl[m]
      /\ \A m \in Slaves : /\ alive'[m] = (alive[m] /\ m # i /\ Up(m) # i)
                           /\ up'[m] = IF m = i \/ Up(m) = i THEN <<>> ELSE up[m]
                           /\ srv'[m] = IF Up(m) = i THEN NoConn ELSE srv[m]
                           /\ down'[m] = IF m = i THEN <<>> ELSE down[m]
      /\ \A k \in Kicks : kick'[k] = IF k \in Slaves /\ Up(k) = i THEN "idle"
                                     ELSE IF Home(k) = i /\ kick[k] \in {"wait", "held"} THEN "failed" ELSE kick[k]
  BY <1>1, NodeFacts DEF CrashDone
<1>3. ASSUME NEW m \in Slaves \ {i} PROVE Kept(m)
  <2>1. cl'[m] = cl[m] /\ down'[m] = down[m] /\ db'[m] = db[m] BY <1>2
  <2>2. CASE Up(m) = i
    <3>1. Cut(m) BY <1>2, <2>2 DEF Cut
    <3> QED BY <2>1, <3>1 DEF Kept
  <2>3. CASE Up(m) # i
    <3>1. alive[m] \in BOOLEAN BY KickParts, TypesDef
    <3>2. alive'[m] = alive[m] BY <1>2, <2>3, <3>1
    <3>3. up'[m] = up[m] /\ srv'[m] = srv[m] BY <1>2, <2>3
    <3> QED BY <2>1, <3>2, <3>3 DEF Kept, Stay, Logged
  <2> QED BY <2>2, <2>3
<1>4. QuietKicks BY <1>2 DEF QuietKicks, Kicks
<1>5. \A k \in Kicks : Home(k) = i => kick'[k] # "held" BY <1>2
<1> QED BY <1>2, <1>3, <1>4, <1>5, DownFresh

(* One line of the stream is read.                                         *)
LEMMA LineFresh ==
  ASSUME KickInv, StreamInv', NEW i \in Slaves, cl[i].pc = "scarf", ScarfLine(i), missed' = missed
  PROVE  KickInv'
<1> DEFINE x == Head(Src(i))
           r == Tail(Src(i)) \o down'[i]
           s == <<x>> \o r
<1>1. TypeInv /\ Types /\ cl[i] \in Clients /\ db[i] \in Lists BY KickParts, TypesDef, NodeFacts
<1>2. /\ x \notin Signs /\ ScarfRead(i) /\ cmd_change(i, x) /\ cl' = [cl EXCEPT ![i].buf = Tail(Src(i))]
      /\ UNCHANGED <<up, alive, kick, had, fresh, doubt>>
  BY DEF ScarfLine, ScarfRead
<1>3. /\ \A m \in Slaves \ {i} : down'[m] = down[m]
      /\ x \in Messages /\ Tail(Src(i)) \in Seq(Messages) /\ down' \in [Slaves -> Seq(Messages)] /\ Sent(i) = s
  BY <1>1, <1>2, ReadOK
<1>4. r \in Seq(Messages)
  <2> DEFINE t == Tail(Src(i))
             y == down'[i]
  <2>1. t \in Seq(Messages) /\ y \in Seq(Messages) BY <1>3
  <2> HIDE DEF t, y
  <2>2. t \o y \in Seq(Messages) BY ONLY <2>1, ConcatFacts
  <2> QED BY <2>2 DEF t, y
<1>5. /\ cl'[i].buf = Tail(Src(i)) /\ cl'[i].pc = "scarf" /\ cl'[i].held = cl[i].held
      /\ cl'[i].waiting_for_noop = cl[i].waiting_for_noop /\ \A m \in Slaves \ {i} : cl'[m] = cl[m]
  BY <1>1, <1>2 DEF Types, Clients
<1>6. Sent(i)' = r BY <1>5 DEF Sent
<1>7. x \in Lines /\ x # OK BY <1>2, <1>3, SignFacts
<1> HIDE DEF x
<1>8. /\ \A m \in Nodes \ {i} : db'[m] = db[m]
      /\ db'[i] = [db[i] EXCEPT ![x.n] = x.e] /\ srv'[i] = srv[i] /\ \A m \in Slaves : Logged(m)
  BY <1>1, <1>2, <1>7, ChangeOK
<1>9. \A m \in Slaves \ {i} : Kept(m) BY <1>2, <1>3, <1>5, <1>8, NodeFacts DEF Kept, Stay
<1>10. QuietKicks BY <1>2, <1>8, NodeFacts DEF QuietKicks
<1>11. HoldOK(i)'
  <2>1. HoldOK(i) BY KickParts
  <2> QED BY <1>2, <1>5, <2>1 DEF HoldOK
<1> HIDE DEF r
<1>12. /\ \A j \in Oks(r) : j + 1 \in Oks(s) /\ j \in 1..Len(r)
       /\ \A j \in Oks(s) : j # 1 /\ j - 1 \in Oks(r) /\ (j - 1) + 1 = j
  BY <1>3, <1>4, <1>7, OksFront
<1> DEFINE c == db'[i]
<1>13. ReadInto(db[i], x, c) BY <1>2, <1>8 DEF ReadInto, x
<1>a. Oks(Sent(i))' = Oks(r) BY <1>6 DEF Oks
<1> HIDE DEF c, s
<1>14. ASSUME ~doubt PROVE NoopOK(i)'
  <2>1. NoopOK(i) BY <1>14, KickParts
  <2>2. Busy(i)' <=> Busy(i) BY <1>8 DEF Busy
  <2>3. Oks(s) = {} => Oks(r) = {} BY <1>12
  <2>4. ASSUME NEW j \in Oks(s), Oks(s) = {j} PROVE Oks(r) = {j - 1}
    <3> DEFINE b == j - 1
    <3>1. b \in Oks(r) BY <1>12
    <3>2. \A a \in Oks(r) : a = b
      <4> SUFFICES ASSUME NEW a \in Oks(r) PROVE a = b OBVIOUS
      <4>1. a + 1 = j /\ a \in 1..Len(r) BY <1>12, <2>4
      <4> QED BY <4>1
    <3> HIDE DEF b
    <3>3. Oks(r) = {b} BY <3>1, <3>2
    <3> QED BY <3>3 DEF b
  <2>5. Silent(i) => Silent(i)' BY <1>2, <1>3, <1>a, <2>2, <2>3 DEF Silent
  <2>6. One(i) => One(i)'
    <3> SUFFICES ASSUME One(i) PROVE One(i)' OBVIOUS
    <3>1. CASE Oks(Sent(i)) = {} BY <1>2, <1>3, <1>a, <2>2, <2>3, <3>1 DEF One
    <3>2. CASE up[i] = <<>> /\ ~Busy(i) /\ \E j \in Oks(Sent(i)) : Oks(Sent(i)) = {j}
      <4>1. PICK j \in Oks(s) : Oks(s) = {j} BY <1>3, <3>2
      <4> DEFINE b == j - 1
      <4>2. Oks(r) = {b} BY <2>4, <4>1
      <4> HIDE DEF b
      <4> QED BY <1>2, <1>a, <2>2, <3>2, <4>2 DEF One
    <3> QED BY <3>1, <3>2 DEF One
  <2> QED BY <1>5, <2>1, <2>5, <2>6 DEF NoopOK
<1>15. ASSUME NEW k
       PROVE  /\ KnownFrom(had[k], s, 1) /\ Current(had[k], db[i]) => Current(had[k], c)
              /\ KnownFrom(had[k], s, 1) => KnownFrom(had[k], r, 1)
              /\ \A j \in 1..Len(r) : /\ KnownFrom(had[k], s, j + 1) => KnownFrom(had[k], r, j)
                                      /\ Brings(had[k], db[i], s, j + 1) => Brings(had[k], c, r, j)
  <2>1. \A j \in 1..Len(r) : j \in 1..Len(r) + 1 BY <1>4
  <2> QED BY <1>1, <1>3, <1>4, <1>13, <2>1, ReadFirst DEF s
<1>16. ASSUME NEW k \in Kickers, CleanAt(k, i) PROVE CleanAt(k, i)'
  <2>1. KnownFrom(had[k], s, 1) /\ Current(had[k], db[i]) BY <1>3, <1>16, NodeFacts DEF CleanAt
  <2>2. Current(had[k], c) /\ KnownFrom(had[k], r, 1) BY <1>15, <2>1
  <2>3. Current(had[k], db[i])' /\ KnownFrom(had[k], Sent(i), 1)'
    BY <1>2, <1>6, <2>2 DEF Current, KnownFrom, c
  <2> QED BY <1>5, <2>3 DEF CleanAt
<1>17. ASSUME ~doubt, NEW k \in Kickers, Reached(k, i)', kick[k] = "held" /\ Clean(k, Up(i)) => Clean(k, Up(i))'
       PROVE  Stage(k, i)'
  <2>1. Reached(k, i) /\ kick[k] = "held" /\ Stage(k, i)
    BY <1>10, <1>17, ReachedBefore, KickParts DEF Reached
  <2>2. Past(i)' => Past(i)
    <3>1. Oks(r) # {} => Oks(s) # {} BY <1>12
    <3> QED BY <1>2, <1>3, <1>8, <1>a, <3>1 DEF Past, Flushes
  <2>3. Flushes(i)' => Flushed(k, i)'
    <3>1. \A n \in Names : Predicted(i)'[n] = Predicted(i)[n]
      <4>1. cl'[i].pc # "sync" BY <1>5
      <4>2. Head(Src(i)) \in Signs => db'[i] = db[i] BY <1>2 DEF x
      <4>3. Head(Src(i)) \notin Signs => db'[i] = [db[i] EXCEPT ![Head(Src(i)).n] = Head(Src(i)).e] BY <1>8 DEF x
      <4> QED BY <1>1, <1>2, <1>5, <4>1, <4>2, <4>3, PredictedRead
    <3> QED BY <1>2, <1>8, <2>1, <3>1 DEF Flushes, Flushed, Stage
  <2>4. ASSUME NEW j \in Oks(r) PROVE Brings(had[k], c, r, j) /\ KnownFrom(had[k], r, j)
    <3>1. j + 1 \in Oks(s) /\ j \in 1..Len(r) BY <1>12
    <3>2. Brings(had[k], db[i], s, j + 1) /\ KnownFrom(had[k], s, j + 1)
      BY <1>3, <2>1, <3>1 DEF Stage, Confirmed
    <3> QED BY <1>15, <3>1, <3>2
  <2>5. ASSUME NEW j \in Oks(Sent(i))' PROVE Brings(had[k], db[i], Sent(i), j)' /\ KnownFrom(had[k], Sent(i), j)'
    <3>1. Brings(had[k], c, r, j) /\ KnownFrom(had[k], r, j) BY <1>a, <2>4, <2>5
    <3> QED BY <1>2, <1>6, <3>1 DEF Brings, LastFor, KnownFrom, c
  <2>6. Confirmed(k, i)' BY <2>5 DEF Confirmed
  <2> QED BY <1>17, <2>1, <2>2, <2>3, <2>6 DEF Stage
<1>18. ~doubt => NodeStep(i) BY <1>14, <1>16, <1>17 DEF NodeStep
<1> QED BY <1>2, <1>9, <1>10, <1>11, <1>18, FrameStep

LEMMA SkipFresh ==
  ASSUME KickInv, StreamInv', NEW i \in Slaves, cl[i].pc = "scarf", ScarfSkip(i), missed' = missed
  PROVE  KickInv'
<1>1. TypeInv /\ Types /\ cl[i] \in Clients BY KickParts, TypesDef
<1>2. /\ ScarfRead(i) /\ alive' = alive /\ Head(Src(i)) = OK /\ ~cl[i].waiting_for_noop
      /\ cl' = [cl EXCEPT ![i].buf = Tail(Src(i))]
      /\ UNCHANGED <<db, srv, up, kick, had, fresh, doubt>>
  BY DEF ScarfSkip, ScarfRead
<1>3. cl'[i].held = cl[i].held /\ \A m \in Slaves \ {i} : cl'[m] = cl[m]
  BY <1>1, <1>2 DEF Types, Clients
<1>4. \A m \in Slaves \ {i} : down'[m] = down[m] BY <1>1, <1>2, ReadOK
<1>5. \A m \in Slaves \ {i} : Kept(m) BY <1>2, <1>3, <1>4, NodeFacts DEF Kept, Stay, Logged
<1>6. doubt
  <2> SUFFICES ASSUME ~doubt PROVE FALSE OBVIOUS
  <2>1. Silent(i) BY <1>2, KickParts DEF NoopOK
  <2> DEFINE t == Tail(Src(i))
             y == down'[i]
             r == t \o y
  <2>2. t \in Seq(Messages) /\ y \in Seq(Messages) /\ Sent(i) = <<OK>> \o r BY <1>1, <1>2, ReadOK
  <2> HIDE DEF t, y
  <2>3. r \in Seq(Messages) BY ONLY <2>2, ConcatFacts DEF r
  <2> HIDE DEF r
  <2>4. 1 \in Oks(<<OK>> \o r) BY <2>3, OksFront, SignFacts
  <2> QED BY <2>1, <2>2, <2>4 DEF Silent
<1> QED BY <1>2, <1>3, <1>5, <1>6, NoKick, UnreachedStep

LEMMA SignFresh ==
  ASSUME KickInv, StreamInv', NEW i \in Slaves, cl[i].pc = "scarf", ScarfSign(i), missed' = missed
  PROVE  KickInv'
<1> DEFINE buf == Tail(Src(i))
           b == cl[i].kset
           y == down'[i]
           r == buf \o y
<1>1. TypeInv /\ Types /\ cl[i] \in Clients BY KickParts, TypesDef
<1>2. /\ ScarfRead(i) /\ alive' = alive /\ Head(Src(i)) \in Signs /\ Turn(i, buf, b) /\ UNCHANGED <<db, srv>>
      /\ Head(Src(i)) = BYE \/ cl[i].waiting_for_noop
      /\ ~doubt' => Head(Src(i)) # BYE
      /\ doubt => doubt'
  BY DEF ScarfSign, ScarfRead
<1>3. b \in BOOLEAN BY <1>1 DEF Clients
<1>4. /\ buf \in Seq(Messages) /\ y \in Seq(Messages) /\ \A m \in Slaves \ {i} : down'[m] = down[m]
      /\ Sent(i) = <<Head(Src(i))>> \o r
  BY <1>1, <1>2, ReadOK
<1> HIDE DEF buf, y, b
<1>5. r \in Seq(Messages) BY ONLY <1>4, ConcatFacts DEF r
<1>6. TurnDone(i, buf, b) BY <1>1, <1>2, <1>3, <1>4, TurnOK
<1>7. Sent(i)' = r BY <1>6 DEF TurnDone, Sent, y, r
<1> HIDE DEF r
<1>8. ASSUME ~doubt' PROVE TurnRead(i)
  <2>1. Head(Src(i)) = OK /\ cl[i].waiting_for_noop BY <1>2, <1>8 DEF Signs
  <2> QED BY <1>4, <1>5, <1>7, <2>1 DEF TurnRead
<1> QED BY <1>2, <1>3, <1>4, <1>6, <1>8, TurnFresh

LEMMA DryFresh ==
  ASSUME KickInv, StreamInv', NEW i \in Slaves, cl[i].pc = "scarf", ScarfDry(i), missed' = missed
  PROVE  KickInv'
<1> DEFINE b == cl[i].kset
<1>1. TypeInv /\ Types /\ cl[i] \in Clients BY KickParts, TypesDef
<1>2. /\ Src(i) = <<>> /\ ~cl[i].waiting_for_noop /\ Turn(i, <<>>, b) /\ UNCHANGED <<db, srv, down, alive, doubt>>
  BY DEF ScarfDry
<1>3. b \in BOOLEAN /\ cl[i].buf \in Seq(Messages) BY <1>1, SentOK DEF Clients
<1>4. cl[i].buf = <<>> BY <1>2 DEF Src
<1> HIDE DEF b
<1>5. Turn(i, cl[i].buf, b) BY <1>2, <1>4
<1>6. TurnDone(i, cl[i].buf, b) BY <1>1, <1>3, <1>5, TurnOK
<1>7. Sent(i)' = Sent(i) BY <1>2, <1>6 DEF TurnDone, Sent
<1>8. TurnRead(i) BY <1>2, <1>7 DEF TurnRead
<1> QED BY <1>2, <1>3, <1>6, <1>8, TurnFresh

LEMMA ScarfFresh == ASSUME KickInv, StreamInv', NEW i \in Slaves, mupdate_scarf(i) PROVE KickInv'
<1>1. cl[i].pc = "scarf" /\ missed' = missed BY ScarfCases
<1>2. CASE ScarfBroken(i)
  <2>1. Broken(i) /\ UNCHANGED <<db, srv, had, fresh, doubt>> BY <1>2 DEF ScarfBroken
  <2> QED BY <1>1, <2>1, BrokenFresh
<1> QED BY <1>1, <1>2, ScarfCases, LineFresh, SkipFresh, SignFresh, DryFresh

(* A part of what was on the way is lost with the connection.              *)
LEMMA PartIndex ==
  ASSUME NEW c \in Seq(Messages), NEW y \in Seq(Messages), NEW j \in 0..Len(y)
  PROVE  LET r == c \o SubSeq(y, 1, j)
             s == c \o y
         IN /\ r \in Seq(Messages) /\ s \in Seq(Messages) /\ Len(r) \in Nat /\ Len(r) <= Len(s)
            /\ \A a \in 1..Len(r) : r[a] = s[a] /\ a \in 1..Len(s)
<1> DEFINE z == SubSeq(y, 1, j)
<1>1. z \in Seq(Messages) /\ Len(z) = j /\ j <= Len(y) /\ \A a \in 1..j : z[a] = y[a] OBVIOUS
<1> HIDE DEF z
<1> DEFINE r == c \o z
           s == c \o y
<1>2. /\ r \in Seq(Messages) /\ s \in Seq(Messages) /\ Len(r) = Len(c) + Len(z) /\ Len(s) = Len(c) + Len(y)
      /\ Len(c) \in Nat /\ Len(z) \in Nat /\ Len(y) \in Nat
  BY <1>1
<1>3. ASSUME NEW a \in 1..Len(r) PROVE r[a] = s[a]
  <2>1. CASE a \in 1..Len(c) BY <2>1, <1>1, <1>2, <1>3
  <2>2. CASE a \notin 1..Len(c)
    <3>1. r[a] = z[a - Len(c)] /\ s[a] = y[a - Len(c)] /\ a - Len(c) \in 1..j
      BY <2>2, <1>1, <1>2, <1>3
    <3> QED BY <3>1, <1>1
  <2> QED BY <2>1, <2>2
<1> HIDE DEF r, s
<1>4. Len(r) <= Len(s) BY <1>1, <1>2
<1>5. \A a \in 1..Len(r) : a \in 1..Len(s) BY <1>2, <1>4
<1> QED BY <1>2, <1>3, <1>4, <1>5 DEF r, s, z

LEMMA LoseFresh == ASSUME KickInv, StreamInv', NEW i \in Slaves, lose(i) PROVE KickInv'
<1>1. TypeInv /\ Types /\ HoldOK(i) BY KickParts
<1>2. /\ alive' = [alive EXCEPT ![i] = FALSE] /\ up' = [up EXCEPT ![i] = <<>>]
      /\ UNCHANGED <<db, cl, srv, kick, had, fresh, doubt, missed>>
  BY DEF lose, history, asked
<1>3. PICK p \in 0..Len(down[i]) : down' = [down EXCEPT ![i] = SubSeq(@, 1, p)] BY DEF lose
<1> DEFINE c == cl[i].buf
           y == down[i]
           s == c \o y
           r == c \o SubSeq(y, 1, p)
<1>4. /\ down'[i] = SubSeq(y, 1, p) /\ ~alive'[i] /\ up'[i] = <<>>
      /\ \A m \in Slaves \ {i} : down'[m] = down[m] /\ alive'[m] = alive[m] /\ up'[m] = up[m]
  BY <1>1, <1>2, <1>3 DEF Types
<1>5. Sent(i) = s /\ Sent(i)' = r BY <1>2, <1>4 DEF Sent
<1>6. c \in Seq(Messages) /\ y \in Seq(Messages) /\ p \in 0..Len(y) BY <1>1, <1>3, SentOK
<1> HIDE DEF c, y
<1>7. /\ r \in Seq(Messages) /\ s \in Seq(Messages) /\ Len(r) \in Nat /\ Len(r) <= Len(s)
      /\ \A a \in 1..Len(r) : r[a] = s[a] /\ a \in 1..Len(s)
  BY <1>6, PartIndex
<1> HIDE DEF r, s
<1>8. \A j \in Oks(r) : /\ j \in Oks(s) /\ j \in Nat /\ j - 1 \in Nat /\ \A a \in 1..j : r[a] = s[a]
                        /\ \A a \in 1..j - 1 : r[a] = s[a]
  <2> SUFFICES ASSUME NEW j \in Oks(r)
               PROVE  /\ j \in Oks(s) /\ j \in Nat /\ j - 1 \in Nat /\ \A a \in 1..j : r[a] = s[a]
                      /\ \A a \in 1..j - 1 : r[a] = s[a]
    OBVIOUS
  <2>1. j \in 1..Len(r) /\ r[j] = OK BY DEF Oks
  <2>2. j \in Oks(s) BY <1>7, <2>1 DEF Oks
  <2>3. \A a \in 1..j : a \in 1..Len(r) BY <1>7, <2>1
  <2>4. \A a \in 1..j - 1 : a \in 1..Len(r) BY <1>7, <2>1
  <2> QED BY <1>7, <2>1, <2>2, <2>3, <2>4
<1>9. Oks(Sent(i))' = Oks(r) BY <1>5 DEF Oks
<1>10. Oks(r) \subseteq Oks(s) BY <1>8
<1>11. Busy(i)' <=> Busy(i) BY <1>2 DEF Busy
<1>12. ASSUME ~doubt PROVE NoopOK(i)'
  <2>1. NoopOK(i) /\ cl'[i] = cl[i] BY <1>2, <1>12, KickParts
  <2>2. Copying(i) => Copying(i)'
    <3> SUFFICES ASSUME Copying(i) PROVE Copying(i)' OBVIOUS
    <3>1. \A j \in 1..Len(up'[i]) : up'[i][j] # "NOOP"
      <4>1. 1..Len(<<>>) = {} OBVIOUS
      <4> QED BY <1>4, <4>1
    <3>2. \A j \in Oks(r) : Plain(r, j - 1)
      <4> SUFFICES ASSUME NEW j \in Oks(r) PROVE Plain(r, j - 1) OBVIOUS
      <4> DEFINE b == j - 1
      <4>1. b \in Nat /\ j \in Oks(s) /\ \A a \in 1..b : r[a] = s[a] BY <1>8
      <4>2. Plain(s, b) BY <1>5, <4>1 DEF Copying
      <4> HIDE DEF b
      <4>3. Plain(r, b) BY <4>1, <4>2, SamePart
      <4> QED BY <4>3 DEF b
    <3>3. \A j \in Oks(Sent(i))' : Plain(Sent(i), j - 1)'
      <4>1. Oks(Sent(i)') = Oks(r) /\ Sent(i)' = r BY <1>5
      <4> QED BY <1>9, <3>2, <4>1 DEF Plain, Signs
    <3> QED BY <1>4, <1>11, <3>1, <3>3 DEF Copying
  <2>3. Silent(i) => Silent(i)' BY <1>4, <1>5, <1>9, <1>10, <1>11 DEF Silent
  <2>4. One(i) => One(i)' \/ Silent(i)'
    <3> SUFFICES ASSUME One(i) PROVE One(i)' \/ Silent(i)' OBVIOUS
    <3>1. CASE Oks(r) = {} BY <1>4, <1>9, <3>1 DEF One, Silent
    <3>2. CASE Oks(r) # {}
      <4>1. ~Busy(i) /\ \E j \in Oks(s) : Oks(s) = {j} BY <1>5, <1>10, <3>2 DEF One
      <4>2. \E j \in Oks(r) : Oks(r) = {j} BY <1>10, <3>2, <4>1
      <4> QED BY <1>4, <1>9, <1>11, <4>1, <4>2 DEF One
    <3> QED BY <3>1, <3>2
  <2> QED BY <2>1, <2>2, <2>3, <2>4, NoopMove
<1>13. ASSUME NEW k \in Kickers, CleanAt(k, i) PROVE CleanAt(k, i)'
  <2>1. i # Master /\ Current(had[k], db[i]) /\ KnownFrom(had[k], s, 1)
    BY <1>5, <1>13, NodeFacts DEF CleanAt
  <2>2. KnownFrom(had[k], r, 1) BY <1>7, <2>1 DEF KnownFrom
  <2>3. ASSUME cl[i].pc = "sync", NEW j \in Oks(r) PROVE NoneLeft(had[k], r, j)
    <3>1. NoneLeft(had[k], s, j) BY <1>5, <1>8, <1>13, <2>1, <2>3 DEF CleanAt
    <3> QED BY <1>8, <3>1, SamePart
  <2>4. Current(had[k], db[i])' /\ KnownFrom(had[k], Sent(i), 1)'
    BY <1>2, <1>5, <2>1, <2>2 DEF Current, KnownFrom
  <2>5. cl'[i].pc = "sync" => \A j \in Oks(Sent(i))' : NoneLeft(had[k], Sent(i), j)'
    BY <1>2, <1>5, <1>9, <2>3 DEF NoneLeft
  <2> QED BY <2>4, <2>5 DEF CleanAt
<1>14. ASSUME ~doubt, NEW k \in Kickers, Reached(k, i)', kick[k] = "held" /\ Clean(k, Up(i)) => Clean(k, Up(i))'
       PROVE  Stage(k, i)'
  <2>1. Reached(k, i) /\ kick[k] = "held" /\ Stage(k, i) BY <1>2, <1>14, KickParts DEF Reached
  <2>2. ~Flushes(i)' BY <1>4 DEF Flushes
  <2>3. Past(i)' => Past(i) BY <1>2, <1>5, <1>9, <1>10, <2>2 DEF Past
  <2>4. ASSUME NEW j \in Oks(r) PROVE Brings(had[k], db[i], r, j) /\ KnownFrom(had[k], r, j)
    <3>1. Brings(had[k], db[i], s, j) /\ KnownFrom(had[k], s, j)
      BY <1>5, <1>8, <2>1 DEF Stage, Confirmed
    <3>2. Brings(had[k], db[i], r, j) BY <1>8, <3>1, SamePart
    <3>3. \A a \in j..Len(r) : a \in 1..Len(r) /\ a \in j..Len(s)
      <4>1. j \in 1..Len(r) /\ Len(s) \in Nat BY <1>7 DEF Oks
      <4> QED BY <1>7, <4>1
    <3>4. KnownFrom(had[k], r, j) BY <1>7, <3>1, <3>3 DEF KnownFrom
    <3> QED BY <3>2, <3>4
  <2>5. ASSUME NEW j \in Oks(Sent(i))' PROVE Brings(had[k], db[i], Sent(i), j)' /\ KnownFrom(had[k], Sent(i), j)'
    <3>1. Brings(had[k], db[i], r, j) /\ KnownFrom(had[k], r, j) BY <1>9, <2>4, <2>5
    <3> QED BY <1>2, <1>5, <3>1 DEF Brings, LastFor, KnownFrom
  <2>6. Confirmed(k, i)' BY <2>5 DEF Confirmed
  <2> QED BY <1>14, <2>1, <2>2, <2>3, <2>6 DEF Stage
<1>15. \A m \in Slaves \ {i} : Kept(m) BY <1>2, <1>4, NodeFacts DEF Kept, Stay, Logged
<1>16. HoldOK(i)' BY <1>1, <1>2 DEF HoldOK
<1>17. ~doubt' => NodeStep(i) BY <1>2, <1>12, <1>13, <1>14 DEF NodeStep
<1> QED BY <1>2, <1>15, <1>16, <1>17, NoKick, FrameStep

(* The master, and who kicks.                                              *)
LEMMA SetFresh ==
  ASSUME KickInv, StreamInv', NEW t \in {"reserve", "activate", "deactivate", "delete"}, NEW n \in Names, cmd_set(t, n)
  PROVE  KickInv'
<1> DEFINE e == Set(t, ops + 1)
<1>1. TypeInv /\ Types /\ Master \notin Slaves /\ Master \in Nodes BY KickParts, NodeFacts
<1>2. /\ db' = [db EXCEPT ![Master][n] = e] /\ srv' = log_update(Master, n)
      /\ had' = [k \in Kickers |-> IF kick[k] \in {"wait", "held"}
                                   THEN [had[k] EXCEPT ![n] = @ \cup {e}] ELSE had[k]]
      /\ UNCHANGED <<cl, up, down, alive, kick, fresh, doubt, missed>>
  BY DEF cmd_set, conns
<1> HIDE DEF e
<1>3. \A m \in Slaves : db'[m] = db[m] BY <1>1, <1>2, NodeFacts DEF Types
<1>4. \A m \in Slaves : Logged(m) BY <1>1, <1>2, LogUpdateLogged
<1>5. \A m \in Slaves \ {Master} : Kept(m) BY <1>2, <1>3, <1>4 DEF Kept, Stay
<1>6. \A p \in Names : db'[Master][p] = IF p = n THEN e ELSE db[Master][p]
  <2>1. db[Master] \in Lists BY <1>1, TypesDef
  <2> QED BY <1>1, <1>2, <2>1 DEF Types, Lists
<1>7. ASSUME NEW k \in Kickers
      PROVE  /\ Grown(had[k], had'[k])
             /\ kick[k] \in {"wait", "held"} => e \in had'[k][n]
  <2>1. had[k] \in [Names -> SUBSET Entries] BY <1>1 DEF Types
  <2> QED BY <1>2, <2>1 DEF Grown
<1>8. HeldKept(Master) BY <1>2, <1>7 DEF HeldKept
<1>9. ASSUME NEW k \in Kickers PROVE MasterOK(k)'
  <2>1. MasterOK(k) BY KickParts
  <2> QED BY <1>2, <1>6, <1>7, <2>1 DEF MasterOK, Current, Grown
<1>10. KickFresh'
  <2>1. KickFresh BY KickParts
  <2> QED BY <1>2, <2>1 DEF KickFresh
<1>11. ReachKept(Master) BY <1>2 DEF ReachKept, Reached
<1>12. doubt' = doubt /\ missed' = missed BY <1>2
<1> QED BY <1>1, <1>5, <1>8, <1>9, <1>10, <1>11, <1>12, KickStep

LEMMA KickMupFresh == ASSUME KickInv, StreamInv', NEW p \in Kickers, kick_mupdate(p) PROVE KickInv'
<1>1. TypeInv /\ Types /\ Master \notin Slaves BY KickParts, NodeFacts
<1>2. /\ kick' = [kick EXCEPT ![p] = "wait"] /\ had' = [had EXCEPT ![p] = [n \in Names |-> {db[Master][n]}]]
      /\ UNCHANGED <<db, cl, srv, up, down, alive, fresh, doubt, missed>>
  BY DEF kick_mupdate, conns
<1>3. \A m \in Slaves \ {Master} : Kept(m) BY <1>2 DEF Kept, Stay, Logged
<1>4. /\ \A k \in Kicks : kick'[k] = IF k = p THEN "wait" ELSE kick[k]
      /\ \A k \in Kickers : had'[k] = IF k = p THEN [n \in Names |-> {db[Master][n]}] ELSE had[k]
  BY <1>1, <1>2 DEF Types
<1>5. p \notin Slaves /\ (\A k \in Kickers : k \in Kicks) /\ \A m \in Slaves : m \in Kicks
  BY NodeFacts DEF Kicks
<1>6. HeldKept(Master) BY <1>4, <1>5 DEF HeldKept, Grown
<1>7. ASSUME NEW k \in Kickers PROVE MasterOK(k)'
  <2>1. MasterOK(k) BY KickParts
  <2>2. CASE k = p
    <3>1. had'[k] = [n \in Names |-> {db[Master][n]}] BY <1>4, <2>2
    <3>2. \A n \in Names : db'[Master][n] \in had'[k][n] BY <1>2, <3>1
    <3> QED BY <3>2 DEF MasterOK, Current
  <2>3. CASE k # p BY <1>2, <1>4, <1>5, <2>1, <2>3 DEF MasterOK, Current
  <2> QED BY <2>2, <2>3
<1>8. KickFresh'
  <2>1. KickFresh BY KickParts
  <2> QED BY <1>2, <1>4, <1>5, <2>1 DEF KickFresh
<1>9. ReachKept(Master)
  <2>1. \A m \in Slaves : kick'[m] = kick[m] BY <1>4, <1>5
  <2>2. \A m \in Slaves : \A j \in m + 1..N : j \in Slaves BY NodeAssumption DEF Slaves
  <2>3. \A k \in Kickers : kick'[k] = "held" => kick[k] = "held" BY <1>4, <1>5
  <2> QED BY <2>1, <2>2, <2>3 DEF ReachKept, Reached
<1>10. doubt' = doubt /\ missed' = missed BY <1>2
<1> QED BY <1>1, <1>3, <1>6, <1>7, <1>8, <1>9, <1>10, KickStep

LEMMA InitFresh == Init => KickInv
<1> SUFFICES ASSUME Init PROVE KickInv OBVIOUS
<1>1. StreamInv BY InitStream
<1>2. /\ \A i \in Slaves : cl[i] = Down
      /\ \A k \in Kicks : kick[k] = "idle"
      /\ missed = {}
  BY DEF Init, Kicks
<1>3. \A k \in Kickers : k \in Kicks BY DEF Kicks
<1>4. HoldInv BY <1>2, <1>3, DownOK DEF HoldInv, HoldOK, MasterOK
<1>5. KickFresh BY <1>2, <1>3 DEF KickFresh
<1>6. \A i \in Slaves : NoopOK(i) BY <1>2, DownOK DEF NoopOK
<1>7. \A i \in Slaves, k \in Kickers : Stage(k, i) BY <1>2, <1>3 DEF Stage, Reached
<1> QED BY <1>1, <1>4, <1>5, <1>6, <1>7 DEF KickInv

LEMMA NextFresh == ASSUME Strcmp = Order PROVE KickInv /\ [Next]_vars => KickInv'
<1> SUFFICES ASSUME KickInv, [Next]_vars PROVE KickInv' OBVIOUS
<1>0. StreamInv' BY NextStream DEF KickInv
<1>1. ASSUME NEW t \in {"reserve", "activate", "deactivate", "delete"}, NEW n \in Names, cmd_set(t, n)
      PROVE  KickInv'
  BY <1>0, <1>1, SetFresh
<1>2. ASSUME NEW i \in Slaves, Serve(i) PROVE KickInv'
  BY <1>0, <1>2, StartupdateFresh, NoopFresh, EvtFresh, FindFresh, SendFresh, KickedFresh,
     FreeFresh DEF Serve
<1>3. ASSUME NEW i \in Slaves, Follow(i) PROVE KickInv'
  BY <1>0, <1>3, ConnectFresh, SyncFresh, ReadyFresh, OpenFresh, InputFresh, SelectKickFresh,
     TimeoutFresh, ScarfFresh DEF Follow
<1>4. ASSUME NEW i \in Slaves, drop_idle(i) \/ lose(i) \/ time_out(i) \/ crash(i) PROVE KickInv'
  BY <1>0, <1>4, DropFresh, LoseFresh, TimeOutFresh, CrashFresh
<1>5. ASSUME NEW k \in Kickers, kick_mupdate(k) PROVE KickInv' BY <1>0, <1>5, KickMupFresh
<1>6. CASE UNCHANGED vars
  <2>1. UNCHANGED <<db, cl, srv, up, down, alive, kick, had, fresh, doubt, missed>>
    BY <1>6 DEF vars, conns, history, asked
  <2>3. \A m \in Slaves \ {Master} : Kept(m) BY <2>1 DEF Kept, Stay, Logged
  <2>4. HeldKept(Master) BY <2>1 DEF HeldKept, Grown
  <2>5. \A k \in Kickers : MasterOK(k)' BY <2>1, KickParts DEF MasterOK, Current
  <2>6. KickFresh' BY <2>1, KickParts DEF KickFresh
  <2>7. ReachKept(Master) BY <2>1 DEF ReachKept, Reached
  <2> QED BY <1>0, <2>1, <2>3, <2>4, <2>5, <2>6, <2>7, NodeFacts, KickStep
<1> QED BY <1>1, <1>2, <1>3, <1>4, <1>5, <1>6 DEF Next

LEMMA KickAlways == ASSUME Strcmp = Order PROVE Spec => []KickInv
<1>1. Init => KickInv BY InitFresh
<1>2. KickInv /\ [Next]_vars => KickInv' BY NextFresh
<1> QED BY <1>1, <1>2, PTL DEF Spec

(* In the standard configuration, where the database is in the order of    *)
(* strcmp, who kicked its slave (kick_mupdate) and was told "ok" finds for *)
(* each mailbox an entry that the master had since the kick, over a chain  *)
(* of any length, whatever connections break and slaves crash; but where   *)
(* doubt says that a NOOP was answered for another one, or by a server     *)
(* that could not ask the one above it.                                    *)
THEOREM KickMeansFresh == ASSUME Strcmp = Order PROVE Spec => []KickFresh
<1>1. KickInv => KickFresh BY DEF KickInv
<1> QED BY <1>1, KickAlways, PTL
=============================================================================
