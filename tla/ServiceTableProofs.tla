------------------------- MODULE ServiceTableProofs -------------------------
(***************************************************************************)
(* Proofs about the service table, for any number of services, addresses,  *)
(* slots and edits of cyrus.conf: its type, that what listens is what is   *)
(* configured (ListenersMatch), and that a service on a unix socket is     *)
(* always served (UnixServed).                                             *)
(*                                                                         *)
(* The loops of add_service and reread_conf are recursive functions; what  *)
(* they compute is proved by induction on the number of rounds, with the   *)
(* set of the numbers for which the claim holds (RoundsInduction).         *)
(***************************************************************************)
EXTENDS ServiceTable, WellFoundedInduction, TLAPS

(* A set that holds 0 and with every number below n the next one holds all *)
(* numbers up to n.                                                        *)
LEMMA RoundsInduction ==
  ASSUME NEW n \in Nat, NEW T, 0 \in T, \A k \in 0..n : k \in T /\ k < n => k + 1 \in T
  PROVE  \A k \in 0..n : k \in T
<1> DEFINE rest == (0..n) \ T
<1> SUFFICES ASSUME rest # {} PROVE FALSE
  OBVIOUS
<1>1. rest \subseteq Nat OBVIOUS
<1>2. PICK x \in rest : \A y \in rest : ~(<<y, x>> \in OpToRel(<, Nat))
  BY <1>1, NatLessThanWellFounded, WFMin
<1>3. \A y \in rest : ~(y < x)
  BY <1>1, <1>2 DEF OpToRel
<1>4. x \in Nat /\ x # 0 /\ x - 1 \in 0..n /\ x - 1 < x /\ x - 1 < n
  OBVIOUS
<1>5. x - 1 \in T BY <1>3, <1>4
<1>6. (x - 1) + 1 \in T BY <1>4, <1>5
<1> QED BY <1>4, <1>6

-----------------------------------------------------------------------------
(* The SERVICES section, entry by entry.                                   *)
Rounds(f, t, c, n) == f = [k \in 0..n |-> IF k = 0 THEN t ELSE add_service(f[k - 1], c[k])]

LEMMA RoundsExist ==
  ASSUME NEW t, NEW c, Len(c) \in Nat
  PROVE  \E f : Rounds(f, t, c, Len(c))
<1> DEFINE T == {n \in 0..Len(c) : \E f : Rounds(f, t, c, n)}
<1>1. 0 \in T
  <2> DEFINE g == [k \in 0..0 |-> t]
  <2>1. Rounds(g, t, c, 0) BY DEF Rounds
  <2> QED BY <2>1
<1>2. ASSUME NEW n \in 0..Len(c), n \in T, n < Len(c) PROVE n + 1 \in T
  <2>1. PICK f : Rounds(f, t, c, n) BY <1>2
  <2> DEFINE g == [k \in 0..n + 1 |-> IF k = 0 THEN t ELSE add_service(f[k - 1], c[k])]
  <2>2. \A k \in 0..n : g[k] = f[k] BY <2>1 DEF Rounds
  <2>3. \A k \in 0..n + 1 : k # 0 => k - 1 \in 0..n OBVIOUS
  <2>4. g = [k \in 0..n + 1 |-> IF k = 0 THEN t ELSE add_service(g[k - 1], c[k])]
    BY <2>2, <2>3
  <2>5. Rounds(g, t, c, n + 1) BY <2>4 DEF Rounds
  <2>6. n + 1 \in 0..Len(c) BY <1>2
  <2> HIDE DEF g
  <2> QED BY <2>5, <2>6
<1> HIDE DEF T
<1>3. \A n \in 0..Len(c) : n \in T /\ n < Len(c) => n + 1 \in T BY <1>2
<1>4. \A n \in 0..Len(c) : n \in T BY <1>1, <1>3, RoundsInduction
<1>5. Len(c) \in T BY <1>4
<1> QED BY <1>5 DEF T

LEMMA AddServicesRounds ==
  ASSUME NEW t, NEW c, Len(c) \in Nat
  PROVE  \E f : Rounds(f, t, c, Len(c)) /\ add_services(t, c) = f[Len(c)]
<1> DEFINE f0 == CHOOSE f : f = [n \in 0..Len(c) |-> IF n = 0 THEN t ELSE add_service(f[n - 1], c[n])]
<1>1. add_services(t, c) = f0[Len(c)] BY DEF add_services
<1>2. \E f : f = [n \in 0..Len(c) |-> IF n = 0 THEN t ELSE add_service(f[n - 1], c[n])]
  <2>1. PICK f : Rounds(f, t, c, Len(c)) BY RoundsExist
  <2>2. f = [n \in 0..Len(c) |-> IF n = 0 THEN t ELSE add_service(f[n - 1], c[n])]
    BY <2>1 DEF Rounds
  <2> QED BY <2>2
<1>3. Rounds(f0, t, c, Len(c)) BY <1>2 DEF Rounds
<1> QED BY <1>1, <1>3

-----------------------------------------------------------------------------
(* The loop of reread_conf over the slots.                                 *)
Dealt(t, f, i) ==
  IF ~t[i].exec /\ t[i].sock # None THEN Disable(t[i])
  ELSE IF t[i].exec /\ t[i].sock = None
  THEN service_create(t[i], {f[j].sock : j \in 1..(i - 1)} \cup {t[j].sock : j \in (i + 1)..Len(t)})
  ELSE t[i]

Through(f, t, n) == f = [i \in 1..n |-> Dealt(t, f, i)]

LEMMA DealtExists ==
  ASSUME NEW t, Len(t) \in Nat
  PROVE  \E f : Through(f, t, Len(t))
<1> DEFINE T == {n \in 0..Len(t) : \E f : Through(f, t, n)}
<1>0. ASSUME NEW f, NEW g, NEW i \in Nat, \A j \in 1..(i - 1) : f[j] = g[j]
      PROVE  Dealt(t, f, i) = Dealt(t, g, i)
  <2>1. {f[j].sock : j \in 1..(i - 1)} = {g[j].sock : j \in 1..(i - 1)} BY <1>0
  <2> QED BY <2>1 DEF Dealt
<1>1. 0 \in T
  <2> DEFINE g == [k \in 1..0 |-> 0]
  <2>1. \A i : i \notin 1..0 OBVIOUS
  <2>2. g = [i \in 1..0 |-> Dealt(t, g, i)] BY <2>1
  <2>3. Through(g, t, 0) BY <2>2 DEF Through
  <2> HIDE DEF g
  <2> QED BY <2>3
<1>2. ASSUME NEW n \in 0..Len(t), n \in T, n < Len(t) PROVE n + 1 \in T
  <2>1. PICK f : Through(f, t, n) BY <1>2
  <2> DEFINE g == [i \in 1..n + 1 |-> Dealt(t, f, i)]
  <2>2. \A i \in 1..n : g[i] = f[i] BY <2>1 DEF Through
  <2> HIDE DEF g
  <2>3. \A i \in 1..n + 1 : Dealt(t, g, i) = Dealt(t, f, i)
    <3> SUFFICES ASSUME NEW i \in 1..n + 1 PROVE Dealt(t, g, i) = Dealt(t, f, i)
      OBVIOUS
    <3>1. i \in Nat /\ \A j \in 1..(i - 1) : g[j] = f[j] BY <2>2
    <3> QED BY <3>1, <1>0
  <2>4. g = [i \in 1..n + 1 |-> Dealt(t, g, i)] BY <2>3 DEF g
  <2>5. Through(g, t, n + 1) BY <2>4 DEF Through
  <2>6. n + 1 \in 0..Len(t) BY <1>2
  <2> QED BY <2>5, <2>6
<1> HIDE DEF T
<1>3. \A n \in 0..Len(t) : n \in T /\ n < Len(t) => n + 1 \in T BY <1>2
<1>4. \A n \in 0..Len(t) : n \in T BY <1>1, <1>3, RoundsInduction
<1>5. Len(t) \in T BY <1>4
<1> QED BY <1>5 DEF T

LEMMA ReconcileDealt ==
  ASSUME NEW t, Len(t) \in Nat, DOMAIN t = 1..Len(t)
  PROVE  /\ DOMAIN Reconcile(t) = 1..Len(t)
         /\ \A i \in 1..Len(t) : Reconcile(t)[i] = Dealt(t, Reconcile(t), i)
<1> DEFINE new == CHOOSE f : f = [i \in DOMAIN t |->
        IF ~t[i].exec /\ t[i].sock # None THEN Disable(t[i])
        ELSE IF t[i].exec /\ t[i].sock = None
        THEN service_create(t[i], {f[j].sock : j \in 1..(i - 1)}
                                  \cup {t[j].sock : j \in (i + 1)..Len(t)})
        ELSE t[i]]
<1>1. Reconcile(t) = [i \in DOMAIN t |-> new[i]] BY DEF Reconcile
<1>2. \E f : f = [i \in DOMAIN t |->
        IF ~t[i].exec /\ t[i].sock # None THEN Disable(t[i])
        ELSE IF t[i].exec /\ t[i].sock = None
        THEN service_create(t[i], {f[j].sock : j \in 1..(i - 1)}
                                  \cup {t[j].sock : j \in (i + 1)..Len(t)})
        ELSE t[i]]
  <2>1. PICK f : Through(f, t, Len(t)) BY DealtExists
  <2>2. f = [i \in DOMAIN t |->
          IF ~t[i].exec /\ t[i].sock # None THEN Disable(t[i])
          ELSE IF t[i].exec /\ t[i].sock = None
          THEN service_create(t[i], {f[j].sock : j \in 1..(i - 1)}
                                    \cup {t[j].sock : j \in (i + 1)..Len(t)})
          ELSE t[i]]
    BY <2>1 DEF Through, Dealt
  <2> QED BY <2>2
<1>3. new = [i \in DOMAIN t |-> Dealt(t, new, i)] BY <1>2 DEF Dealt
<1> HIDE DEF new
<1>4. Reconcile(t) = new BY <1>1, <1>3
<1> QED BY <1>3, <1>4

-----------------------------------------------------------------------------
(* What Matches finds is a slot of the table or the one behind the last.   *)
LEMMA SlotForRange ==
  ASSUME NEW t \in Seq(Slot), NEW e \in Entry
  PROVE  \/ SlotFor(t, e) = Len(t) + 1
         \/ SlotFor(t, e) \in 1..Len(t) /\ Matches(t[SlotFor(t, e)], e)
<1> DEFINE S == {i \in DOMAIN t : Matches(t[i], e)}
<1>1. Len(t) \in Nat /\ DOMAIN t = 1..Len(t) OBVIOUS
<1>2. CASE S = {} BY <1>2 DEF SlotFor
<1>3. CASE S # {}
  <2>1. S \subseteq Nat BY <1>1
  <2> HIDE DEF S
  <2>2. PICK x \in S : \A y \in S : ~(<<y, x>> \in OpToRel(<, Nat))
    BY <2>1, <1>3, NatLessThanWellFounded, WFMin
  <2>3. \A y \in S : x <= y
    <3>1. \A y \in S : ~(y < x) BY <2>1, <2>2 DEF OpToRel
    <3> QED BY <3>1, <2>1
  <2>4. (CHOOSE i \in S : \A j \in S : i <= j) \in S BY <2>3
  <2>5. SlotFor(t, e) \in S BY <2>4, <1>3 DEF SlotFor, S
  <2> QED BY <2>5, <1>1 DEF S
<1> QED BY <1>2, <1>3

(* A slot that has a socket has its address too.                           *)
OwnAddress(t) == \A i \in 1..Len(t) : t[i].sock # None => t[i].listen = t[i].sock

(* The first n entries of c are taken up: each enabled slot is claimed by  *)
(* one of them, each of them has a slot, and no two slots have one address. *)
Claims(t, c, n) ==
  /\ \A i \in 1..Len(t) : t[i].exec =>
       \E k \in 1..n : t[i].name = c[k].name /\ t[i].listen = c[k].listen
  /\ \A k \in 1..n : \E i \in 1..Len(t) :
       t[i].exec /\ t[i].name = c[k].name /\ t[i].listen = c[k].listen
  /\ \A i, j \in 1..Len(t) : i # j /\ t[i].exec /\ t[j].exec => t[i].listen # t[j].listen

LEMMA ConfType ==
  ASSUME NEW c \in Confs
  PROVE  /\ c \in Seq(Entry) /\ Len(c) \in Nat /\ DOMAIN c = 1..Len(c)
         /\ \A k \in 1..Len(c) : c[k] \in Entry
         /\ \A i, j \in 1..Len(c) : i # j => c[i].name # c[j].name /\ c[i].listen # c[j].listen
<1>1. PICK n \in 0..Cardinality(Names) : c \in [1..n -> Entry] BY DEF Confs
<1>2. n \in Nat OBVIOUS
<1>3. c \in Seq(Entry) /\ Len(c) = n BY <1>1, <1>2
<1> QED BY <1>1, <1>2, <1>3 DEF Confs

(* add_service takes the next entry up: its slot is not in use, because an *)
(* enabled slot has the name of another entry.                             *)
LEMMA AddServiceStep ==
  ASSUME NEW c \in Confs, NEW n \in 1..Len(c), NEW t \in Seq(Slot), OwnAddress(t), Claims(t, c, n - 1)
  PROVE  /\ add_service(t, c[n]) \in Seq(Slot) /\ OwnAddress(add_service(t, c[n]))
         /\ Claims(add_service(t, c[n]), c, n)
<1> DEFINE e == c[n]
           k == SlotFor(t, e)
           m == IF k > Len(t) THEN k ELSE Len(t)
           slot(i) == IF i > Len(t) THEN FreshSlot ELSE t[i]
           u == add_service(t, e)
<1>0. Len(t) \in Nat /\ DOMAIN t = 1..Len(t) /\ \A i \in 1..Len(t) : t[i] \in Slot OBVIOUS
<1>1. e \in Entry /\ e.name \in Names /\ e.listen \in Addrs BY ConfType DEF Entry
<1>2. k = Len(t) + 1 \/ (k \in 1..Len(t) /\ Matches(t[k], e)) BY <1>1, SlotForRange
<1>n. None \notin Names /\ None \notin Addrs BY ServiceTableAssumption
<1> HIDE DEF e, k
<1>3. slot(k) \in Slot /\ ~slot(k).exec /\ (slot(k).sock # None => slot(k).sock = e.listen)
  <2>1. CASE k = Len(t) + 1
    BY <2>1, <1>0 DEF FreshSlot, Slot
  <2>2. CASE k \in 1..Len(t) /\ Matches(t[k], e)
    <3>1. slot(k) = t[k] BY <2>2, <1>0
    <3>2. ~t[k].exec
      <4> SUFFICES ASSUME t[k].exec PROVE FALSE OBVIOUS
      <4>1. PICK l \in 1..(n - 1) : t[k].name = c[l].name BY <2>2 DEF Claims
      <4>2. l \in 1..Len(c) /\ l # n BY ConfType
      <4>3. c[l].name # e.name /\ c[l].name \in Names BY <4>2, ConfType DEF e, Entry
      <4> QED BY <4>1, <4>3, <2>2, <1>n DEF Matches
    <3>3. t[k].sock # None => t[k].sock = e.listen BY <2>2 DEF OwnAddress, Matches
    <3> QED BY <3>1, <3>2, <3>3, <1>0, <2>2
  <2> QED BY <1>2, <2>1, <2>2
<1> DEFINE new == [slot(k) EXCEPT !.name = e.name, !.listen = e.listen, !.exec = TRUE]
<1>4. /\ new \in Slot /\ new.exec /\ new.name = e.name /\ new.listen = e.listen
      /\ new.sock # None => new.sock = e.listen
  <2> HIDE DEF slot
  <2> QED BY <1>3, <1>1 DEF Slot
<1>5. 1..Len(t) \cup {k} = 1..m /\ m \in Nat /\ k \in 1..m /\ Len(t) <= m BY <1>0, <1>2
<1>6. u = [i \in 1..m |-> IF i = k THEN new ELSE t[i]]
  BY <1>3, <1>5 DEF add_service, k, e
<1>7. \A i \in 1..m : i # k => i \in 1..Len(t) BY <1>2, <1>0
<1> HIDE DEF new, slot, m, u
<1>8. u \in [1..m -> Slot] BY <1>6, <1>4, <1>7, <1>0
<1>9. u \in Seq(Slot) /\ Len(u) = m BY <1>8, <1>5
<1>10. \A i \in 1..m : u[i] = IF i = k THEN new ELSE t[i] BY <1>6
<1>11. OwnAddress(u) BY <1>4, <1>7, <1>9, <1>10 DEF OwnAddress
<1>12. \A i \in 1..m : u[i].exec =>
         \E l \in 1..n : u[i].name = c[l].name /\ u[i].listen = c[l].listen
  <2> SUFFICES ASSUME NEW i \in 1..m, u[i].exec
               PROVE  \E l \in 1..n : u[i].name = c[l].name /\ u[i].listen = c[l].listen
    OBVIOUS
  <2>1. CASE i = k
    <3>1. n \in 1..n BY ConfType
    <3> QED BY <3>1, <2>1, <1>4, <1>10 DEF e
  <2>2. CASE i # k
    <3>1. PICK l \in 1..(n - 1) : t[i].name = c[l].name /\ t[i].listen = c[l].listen
      BY <2>2, <1>7, <1>10 DEF Claims
    <3>2. l \in 1..n BY ConfType
    <3> QED BY <3>1, <3>2, <2>2, <1>10
  <2> QED BY <2>1, <2>2
<1>13. \A l \in 1..n : \E i \in 1..m : u[i].exec /\ u[i].name = c[l].name /\ u[i].listen = c[l].listen
  <2> SUFFICES ASSUME NEW l \in 1..n
               PROVE  \E i \in 1..m : u[i].exec /\ u[i].name = c[l].name /\ u[i].listen = c[l].listen
    OBVIOUS
  <2>1. CASE l = n BY <2>1, <1>4, <1>5, <1>10 DEF e
  <2>2. CASE l # n
    <3>1. l \in 1..(n - 1) BY <2>2, ConfType
    <3>2. PICK i \in 1..Len(t) : t[i].exec /\ t[i].name = c[l].name /\ t[i].listen = c[l].listen
      BY <3>1 DEF Claims
    <3>3. i \in 1..m BY <1>5, <1>0
    <3>4. i # k BY <3>2, <1>3, <1>0 DEF slot
    <3> QED BY <3>2, <3>3, <3>4, <1>10
  <2> QED BY <2>1, <2>2
<1>14. \A i \in 1..Len(t) : t[i].exec => t[i].listen # e.listen
  <2> SUFFICES ASSUME NEW i \in 1..Len(t), t[i].exec PROVE t[i].listen # e.listen OBVIOUS
  <2>1. PICK l \in 1..(n - 1) : t[i].listen = c[l].listen BY DEF Claims
  <2>2. l \in 1..Len(c) /\ l # n BY ConfType
  <2> QED BY <2>1, <2>2, ConfType DEF e
<1>15. \A i, j \in 1..m : i # j /\ u[i].exec /\ u[j].exec => u[i].listen # u[j].listen
  <2> SUFFICES ASSUME NEW i \in 1..m, NEW j \in 1..m, i # j, u[i].exec, u[j].exec
               PROVE  u[i].listen # u[j].listen
    OBVIOUS
  <2>1. CASE i = k
    <3>1. j \in 1..Len(t) /\ u[j] = t[j] /\ u[i] = new BY <2>1, <1>7, <1>10
    <3> QED BY <3>1, <1>4, <1>14
  <2>2. CASE j = k
    <3>1. i \in 1..Len(t) /\ u[i] = t[i] /\ u[j] = new BY <2>2, <1>7, <1>10
    <3> QED BY <3>1, <1>4, <1>14
  <2>3. CASE i # k /\ j # k
    <3>1. i \in 1..Len(t) /\ u[i] = t[i] /\ j \in 1..Len(t) /\ u[j] = t[j] BY <2>3, <1>7, <1>10
    <3> QED BY <3>1 DEF Claims
  <2> QED BY <2>1, <2>2, <2>3
<1>16. Claims(u, c, n) BY <1>9, <1>12, <1>13, <1>15 DEF Claims
<1> QED BY <1>9, <1>11, <1>16 DEF u, e

(* The whole SERVICES section is taken up.                                 *)
LEMMA AddServicesClaims ==
  ASSUME NEW c \in Confs, NEW t \in Seq(Slot), OwnAddress(t), \A i \in 1..Len(t) : ~t[i].exec
  PROVE  /\ add_services(t, c) \in Seq(Slot) /\ OwnAddress(add_services(t, c))
         /\ Claims(add_services(t, c), c, Len(c))
<1>0. Len(c) \in Nat BY ConfType
<1>1. PICK f : Rounds(f, t, c, Len(c)) /\ add_services(t, c) = f[Len(c)]
  BY <1>0, AddServicesRounds
<1> DEFINE T == {n \in 0..Len(c) : f[n] \in Seq(Slot) /\ OwnAddress(f[n]) /\ Claims(f[n], c, n)}
<1>2. 0 \in T
  <2>1. f[0] = t /\ 0 \in 0..Len(c) BY <1>0, <1>1 DEF Rounds
  <2>2. Claims(t, c, 0) BY DEF Claims
  <2> QED BY <2>1, <2>2
<1>3. ASSUME NEW n \in 0..Len(c), n \in T, n < Len(c) PROVE n + 1 \in T
  <2>1. n + 1 \in 1..Len(c) /\ n + 1 \in 0..Len(c) /\ (n + 1) - 1 = n /\ n + 1 # 0 BY <1>0, <1>3
  <2>2. f[n + 1] = add_service(f[n], c[n + 1]) BY <2>1, <1>1 DEF Rounds
  <2>3. /\ add_service(f[n], c[n + 1]) \in Seq(Slot) /\ OwnAddress(add_service(f[n], c[n + 1]))
        /\ Claims(add_service(f[n], c[n + 1]), c, n + 1)
    BY <2>1, <1>3, AddServiceStep
  <2> QED BY <2>1, <2>2, <2>3
<1> HIDE DEF T
<1>4. \A n \in 0..Len(c) : n \in T /\ n < Len(c) => n + 1 \in T BY <1>3
<1>5. \A n \in 0..Len(c) : n \in T BY <1>0, <1>2, <1>4, RoundsInduction
<1>6. Len(c) \in T BY <1>0, <1>5
<1> QED BY <1>1, <1>6 DEF T

-----------------------------------------------------------------------------
(* What the loop of reread_conf leaves in a slot.                          *)
LEMMA DealtSlot ==
  ASSUME NEW t, NEW f, NEW i, t[i] \in Slot, t[i].sock # None => t[i].listen = t[i].sock,
         t[i].exec => t[i].listen \in Addrs
  PROVE  LET r == Dealt(t, f, i) IN
         /\ r \in Slot /\ (r.exec <=> r.sock # None)
         /\ r.exec => t[i].exec /\ r.name = t[i].name /\ r.listen = t[i].listen /\ r.sock = t[i].listen
         /\ t[i].exec /\ t[i].listen \notin Inet => r.exec
<1> DEFINE taken == {f[j].sock : j \in 1..(i - 1)} \cup {t[j].sock : j \in (i + 1)..Len(t)}
<1>n. None \notin Addrs BY ServiceTableAssumption
<1>1. CASE ~t[i].exec /\ t[i].sock # None
  <2>1. Dealt(t, f, i) = [t[i] EXCEPT !.listen = None, !.sock = None] BY <1>1 DEF Dealt, Disable
  <2> QED BY <1>1, <2>1 DEF Slot
<1>2. CASE t[i].exec /\ t[i].sock = None
  <2>1. Dealt(t, f, i) = service_create(t[i], taken) BY <1>2 DEF Dealt
  <2> HIDE DEF taken
  <2>2. CASE CanBind(t[i].listen, taken)
    <3>1. Dealt(t, f, i) = [t[i] EXCEPT !.sock = t[i].listen] BY <2>1, <2>2 DEF service_create
    <3> QED BY <1>2, <1>n, <3>1 DEF Slot
  <2>3. CASE ~CanBind(t[i].listen, taken)
    <3>1. Dealt(t, f, i) = [t[i] EXCEPT !.exec = FALSE] BY <2>1, <2>3 DEF service_create
    <3>2. t[i].listen \in Inet BY <2>3 DEF CanBind
    <3> QED BY <1>2, <3>1, <3>2 DEF Slot
  <2> QED BY <2>2, <2>3
<1>3. CASE ~(~t[i].exec /\ t[i].sock # None) /\ ~(t[i].exec /\ t[i].sock = None)
  <2>1. Dealt(t, f, i) = t[i] BY <1>3 DEF Dealt
  <2>2. t[i].exec \in BOOLEAN BY DEF Slot
  <2> QED BY <1>3, <2>1, <2>2
<1> QED BY <1>1, <1>2, <1>3

(* What master has after it has read configuration c.                      *)
Listening(t) == \A i \in 1..Len(t) : t[i].exec <=> t[i].sock # None
Apart(t) == \A i, j \in 1..Len(t) : i # j /\ t[i].sock # None => t[i].sock # t[j].sock
SlotServes(slot, e) == slot.exec /\ slot.name = e.name /\ slot.listen = e.listen /\ slot.sock = e.listen
Configured(t, c) ==
  /\ \A i \in 1..Len(t) : t[i].exec => \E k \in 1..Len(c) : SlotServes(t[i], c[k])
  /\ \A k \in 1..Len(c) : c[k].listen \notin Inet => \E i \in 1..Len(t) : SlotServes(t[i], c[k])

LEMMA RereadConfigures ==
  ASSUME NEW t \in Seq(Slot), OwnAddress(t), NEW c \in Confs
  PROVE  LET r == Reread(t, c) IN
         r \in Seq(Slot) /\ OwnAddress(r) /\ Listening(r) /\ Apart(r) /\ Configured(r, c)
<1> DEFINE o == Off(t)
           u == add_services(o, c)
           r == Reread(t, c)
<1>1. o \in Seq(Slot) /\ OwnAddress(o) /\ \A i \in 1..Len(o) : ~o[i].exec
  <2>1. o = [i \in 1..Len(t) |-> [t[i] EXCEPT !.exec = FALSE]] BY DEF Off
  <2>2. \A i \in 1..Len(t) : t[i] \in Slot OBVIOUS
  <2> HIDE DEF o
  <2>3. o \in [1..Len(t) -> Slot] BY <2>1, <2>2 DEF Slot
  <2>4. Len(t) \in Nat OBVIOUS
  <2>5. o \in Seq(Slot) /\ Len(o) = Len(t) BY <2>3, <2>4
  <2>6. \A i \in 1..Len(t) :
          ~o[i].exec /\ o[i].sock = t[i].sock /\ o[i].listen = t[i].listen
    BY <2>1, <2>2 DEF Slot
  <2> QED BY <2>5, <2>6 DEF OwnAddress
<1> HIDE DEF o
<1>2. u \in Seq(Slot) /\ OwnAddress(u) /\ Claims(u, c, Len(c)) BY <1>1, AddServicesClaims
<1>3. r = Reconcile(u) BY DEF Reread, o
<1> HIDE DEF u, r
<1>4. Len(u) \in Nat /\ DOMAIN u = 1..Len(u) /\ \A i \in 1..Len(u) : u[i] \in Slot BY <1>2
<1>5. DOMAIN r = 1..Len(u) /\ \A i \in 1..Len(u) : r[i] = Dealt(u, r, i)
  BY <1>3, <1>4, ReconcileDealt
<1>6. \A i \in 1..Len(u) : u[i].exec => u[i].listen \in Addrs
  <2> SUFFICES ASSUME NEW i \in 1..Len(u), u[i].exec PROVE u[i].listen \in Addrs OBVIOUS
  <2>1. PICK k \in 1..Len(c) : u[i].listen = c[k].listen BY <1>2 DEF Claims
  <2> QED BY <2>1, ConfType DEF Entry
<1>7. \A i \in 1..Len(u) :
        /\ r[i] \in Slot /\ (r[i].exec <=> r[i].sock # None)
        /\ r[i].exec => /\ u[i].exec /\ r[i].name = u[i].name /\ r[i].listen = u[i].listen
                        /\ r[i].sock = u[i].listen
        /\ u[i].exec /\ u[i].listen \notin Inet => r[i].exec
  <2> SUFFICES ASSUME NEW i \in 1..Len(u)
               PROVE  /\ r[i] \in Slot /\ (r[i].exec <=> r[i].sock # None)
                      /\ r[i].exec => /\ u[i].exec /\ r[i].name = u[i].name
                                      /\ r[i].listen = u[i].listen /\ r[i].sock = u[i].listen
                      /\ u[i].exec /\ u[i].listen \notin Inet => r[i].exec
    OBVIOUS
  <2>1. u[i] \in Slot /\ (u[i].sock # None => u[i].listen = u[i].sock)
    BY <1>2, <1>4 DEF OwnAddress
  <2> QED BY <2>1, <1>5, <1>6, DealtSlot
<1>8. r \in Seq(Slot) /\ Len(r) = Len(u)
  <2>2. r = [i \in 1..Len(u) |-> r[i]] BY <1>3, <1>4, <1>5 DEF Reconcile
  <2>3. r \in [1..Len(u) -> Slot] BY <1>7, <2>2
  <2> QED BY <2>3, <1>4
<1>9. OwnAddress(r) /\ Listening(r) BY <1>7, <1>8 DEF OwnAddress, Listening
<1>10. Apart(r)
  <2> SUFFICES ASSUME NEW i \in 1..Len(u), NEW j \in 1..Len(u), i # j, r[i].sock # None,
                      r[i].sock = r[j].sock
               PROVE  FALSE
    BY <1>8 DEF Apart
  <2> QED BY <1>2, <1>7 DEF Claims
<1>11. Configured(r, c)
  <2>1. ASSUME NEW i \in 1..Len(r), r[i].exec PROVE \E k \in 1..Len(c) : SlotServes(r[i], c[k])
    <3>1. i \in 1..Len(u) /\ u[i].exec BY <2>1, <1>7, <1>8
    <3>2. PICK k \in 1..Len(c) : u[i].name = c[k].name /\ u[i].listen = c[k].listen
      BY <3>1, <1>2 DEF Claims
    <3> QED BY <2>1, <3>1, <3>2, <1>7 DEF SlotServes
  <2>2. ASSUME NEW k \in 1..Len(c), c[k].listen \notin Inet
        PROVE  \E i \in 1..Len(r) : SlotServes(r[i], c[k])
    <3>1. PICK i \in 1..Len(u) : u[i].exec /\ u[i].name = c[k].name /\ u[i].listen = c[k].listen
      BY <1>2 DEF Claims
    <3> QED BY <2>2, <3>1, <1>7, <1>8 DEF SlotServes
  <2> QED BY <2>1, <2>2 DEF Configured
<1> QED BY <1>8, <1>9, <1>10, <1>11 DEF r

-----------------------------------------------------------------------------
(* The inductive invariant.  OwnAddress is what ListenersMatch lacks: an   *)
(* entry may claim a slot that still listens only for the same address.    *)
TableInv == /\ TypeOK /\ OwnAddress(table) /\ Listening(table) /\ Apart(table)
            /\ ~dirty => Configured(table, conf)

LEMMA TableInit == Init => TableInv
<1> SUFFICES ASSUME Init PROVE TableInv OBVIOUS
<1>1. conf \in Confs /\ table = Reread(<<>>, conf) BY DEF Init
<1>2. <<>> \in Seq(Slot) /\ OwnAddress(<<>>) BY DEF OwnAddress
<1>3. /\ table \in Seq(Slot) /\ OwnAddress(table) /\ Listening(table) /\ Apart(table)
      /\ Configured(table, conf)
  BY <1>1, <1>2, RereadConfigures
<1>4. TypeOK
  <2>1. 0 \in 0..MaxEdits BY ServiceTableAssumption
  <2>2. edits = 0 /\ dirty = FALSE /\ gotsighup = FALSE BY DEF Init
  <2> QED BY <2>1, <2>2, <1>1, <1>3 DEF TypeOK
<1> QED BY <1>3, <1>4 DEF TableInv

(* A change of a slot's name while it is disabled, or of its processes.    *)
LEMMA SlotChange ==
  ASSUME TableInv, NEW i \in DOMAIN table, NEW slot \in Slot, table' = [table EXCEPT ![i] = slot],
         slot.listen = table[i].listen, slot.sock = table[i].sock, slot.exec = table[i].exec,
         table[i].exec => slot.name = table[i].name,
         UNCHANGED <<conf, edits, dirty, gotsighup>>
  PROVE  TableInv'
<1>0. table \in Seq(Slot) BY DEF TableInv, TypeOK
<1>1. table' \in Seq(Slot) /\ Len(table') = Len(table) /\ DOMAIN table' = 1..Len(table)
  BY <1>0
<1>2. i \in 1..Len(table) BY <1>0
<1>3. \A j \in 1..Len(table) :
        /\ table'[j].listen = table[j].listen /\ table'[j].sock = table[j].sock
        /\ table'[j].exec = table[j].exec /\ (table[j].exec => table'[j].name = table[j].name)
  BY <1>0, <1>2
<1>4. TypeOK' BY <1>1 DEF TableInv, TypeOK
<1>5. OwnAddress(table)' /\ Listening(table)' /\ Apart(table)'
  BY <1>1, <1>3 DEF TableInv, OwnAddress, Listening, Apart
<1>6. ~dirty' => Configured(table, conf)'
  <2> SUFFICES ASSUME ~dirty PROVE Configured(table, conf)' OBVIOUS
  <2>1. Configured(table, conf) BY DEF TableInv
  <2>2. \A j \in 1..Len(table), e \in Entry : SlotServes(table[j], e) <=> SlotServes(table'[j], e)
    BY <1>3 DEF SlotServes
  <2>3. \A k \in 1..Len(conf) : conf[k] \in Entry BY ConfType DEF TableInv, TypeOK
  <2> QED BY <2>1, <2>2, <2>3, <1>1, <1>3 DEF Configured
<1> QED BY <1>4, <1>5, <1>6 DEF TableInv

LEMMA TableNext == TableInv /\ [Next]_vars => TableInv'
<1> SUFFICES ASSUME TableInv, [Next]_vars PROVE TableInv' OBVIOUS
<1>0. table \in Seq(Slot) /\ \A i \in DOMAIN table : table[i] \in Slot BY DEF TableInv, TypeOK
<1>1. ASSUME NEW i \in DOMAIN table, Remove(i) PROVE TableInv'
  <2> DEFINE slot == [table[i] EXCEPT !.name = None]
  <2>1. table' = [table EXCEPT ![i] = slot] /\ ~table[i].exec BY <1>1 DEF Remove, Drained
  <2>2. /\ slot \in Slot /\ slot.listen = table[i].listen /\ slot.sock = table[i].sock
        /\ slot.exec = table[i].exec
    BY <1>0, <1>1 DEF Slot
  <2> HIDE DEF slot
  <2> QED BY <2>1, <2>2, <1>1, SlotChange DEF Remove
<1>2. ASSUME NEW i \in DOMAIN table, Spawn(i) \/ Leave(i) PROVE TableInv'
  <2>1. PICK b \in BOOLEAN : table' = [table EXCEPT ![i].active = b] BY <1>2 DEF Spawn, Leave
  <2> DEFINE slot == [table[i] EXCEPT !.active = b]
  <2>2. table' = [table EXCEPT ![i] = slot] BY <2>1
  <2>3. /\ slot \in Slot /\ slot.listen = table[i].listen /\ slot.sock = table[i].sock
        /\ slot.exec = table[i].exec /\ slot.name = table[i].name
    BY <1>0, <1>2 DEF Slot
  <2>4. UNCHANGED <<conf, edits, dirty, gotsighup>> BY <1>2 DEF Spawn, Leave
  <2> HIDE DEF slot
  <2> QED BY <2>2, <2>3, <2>4, <1>2, SlotChange
<1>3. CASE Edit
  BY <1>3, ServiceTableAssumption DEF Edit, TableInv, TypeOK, OwnAddress, Listening, Apart
<1>4. CASE SigHup
  BY <1>4 DEF SigHup, TableInv, TypeOK, OwnAddress, Listening, Apart, Configured
<1>5. CASE reread_conf
  <2>1. conf \in Confs /\ OwnAddress(table) BY DEF TableInv, TypeOK
  <2>2. table' = Reread(table, conf) /\ UNCHANGED <<conf, edits>> /\ dirty' = FALSE /\ gotsighup' = FALSE
    BY <1>5 DEF reread_conf
  <2>3. /\ table' \in Seq(Slot) /\ OwnAddress(table') /\ Listening(table') /\ Apart(table')
        /\ Configured(table', conf)
    BY <2>1, <2>2, <1>0, RereadConfigures
  <2>4. TypeOK' BY <2>2, <2>3 DEF TableInv, TypeOK
  <2> QED BY <2>2, <2>3, <2>4 DEF TableInv
<1>6. CASE UNCHANGED vars
  BY <1>6 DEF vars, TableInv, TypeOK, OwnAddress, Listening, Apart, Configured
<1> QED BY <1>1, <1>2, <1>3, <1>4, <1>5, <1>6 DEF Next

LEMMA TableAlways == Spec => []TableInv
BY TableInit, TableNext, PTL DEF Spec

(* Every slot that add_service and reread_conf can leave is well formed,   *)
(* for any configurations and however long slots take to drain.            *)
THEOREM TypeCorrect == Spec => []TypeOK
<1>1. TableInv => TypeOK BY DEF TableInv
<1> QED BY <1>1, TableAlways, PTL

(* Whatever is dropped, claimed by another service or still draining when  *)
(* cyrus.conf is read again: a slot listens exactly if it is enabled, it   *)
(* serves an entry of the configuration that was read, and nothing else    *)
(* listens on its address.                                                 *)
THEOREM SocketsMatch == Spec => []ListenersMatch
<1>1. TableInv => ListenersMatch
  <2> SUFFICES ASSUME TableInv PROVE ListenersMatch OBVIOUS
  <2>1. DOMAIN table = 1..Len(table) BY DEF TableInv, TypeOK
  <2>2. DOMAIN conf = 1..Len(conf) BY ConfType DEF TableInv, TypeOK
  <2> QED BY <2>1, <2>2 DEF TableInv, ListenersMatch, Listening, Apart, Configured, SlotServes,
      Serves
<1> QED BY <1>1, TableAlways, PTL

(* A service on a unix socket is enabled after every SIGHUP, whichever     *)
(* slots are in use: add_service never takes its entry for a second one of *)
(* a service that is already there, and its path can always be bound.      *)
THEOREM UnixAlwaysServed == Spec => []UnixServed
<1>1. TableInv => UnixServed
  <2> SUFFICES ASSUME TableInv PROVE UnixServed OBVIOUS
  <2>1. DOMAIN table = 1..Len(table) BY DEF TableInv, TypeOK
  <2>2. DOMAIN conf = 1..Len(conf) BY ConfType DEF TableInv, TypeOK
  <2> QED BY <2>1, <2>2 DEF TableInv, UnixServed, Enabled, Configured, SlotServes, Serves
<1> QED BY <1>1, TableAlways, PTL
=============================================================================
