---------------------------- MODULE ServiceTable ----------------------------
(***************************************************************************)
(* How master keeps its Services array while cyrus.conf is edited and read *)
(* again on SIGHUP (add_service, service_create and reread_conf of         *)
(* master/master.c).  A slot of the array is claimed by name and listen    *)
(* address, drained when the configuration drops its service, and free     *)
(* for any service once its last process is gone.                          *)
(*                                                                         *)
(* Master.tla follows the processes of services that stay in their slots;  *)
(* here slots move and the processes of a slot are only there or not.      *)
(* Every service has one address and all have the same proto.              *)
(***************************************************************************)
EXTENDS Integers, Sequences, FiniteSets

CONSTANTS
  Names,     \* service names
  Addrs,     \* listen addresses
  Inet,      \* those that are ports; the others are paths of unix sockets
  None,      \* NULL, and socket 0
  MaxEdits   \* bound on the edits of cyrus.conf

ASSUME ServiceTableAssumption ==
  /\ Inet \subseteq Addrs
  /\ None \notin Names \cup Addrs
  /\ MaxEdits \in Nat

VARIABLES
  table,   \* Services[0..nservices-1]
  conf,    \* the services of cyrus.conf, in their order
  edits,   \* the edits so far
  dirty,   \* cyrus.conf has been edited and not been read since
  gotsighup

vars == <<table, conf, edits, dirty, gotsighup>>

Entry == [name : Names, listen : Addrs]

\* Configurations an administrator would write: no name and no address twice.
Confs == {c \in UNION {[1..n -> Entry] : n \in 0..Cardinality(Names)} :
            \A i, j \in DOMAIN c :
              i # j => c[i].name # c[j].name /\ c[i].listen # c[j].listen}

FreshSlot == [name |-> None, listen |-> None, exec |-> FALSE, sock |-> None,
              active |-> FALSE]

-----------------------------------------------------------------------------
(* add_service                                                             *)

\* Mutant: a slot is only asked for its name.
MatchesName(slot, e) == slot.name \in {None, e.name}

\* "must have empty/same service name, listen and proto"
Matches(slot, e) == slot.name \in {None, e.name} /\ slot.listen \in {None, e.listen}

\* The first slot that entry e may reuse, or the one behind the last.
SlotFor(t, e) ==
  LET S == {i \in DOMAIN t : Matches(t[i], e)} IN
  IF S = {} THEN Len(t) + 1 ELSE CHOOSE i \in S : \A j \in S : i <= j

\* add_service: a slot in use means "multiple entries", and e is ignored.
add_service(t, e) ==
  LET k == SlotFor(t, e)
      slot(i) == IF i > Len(t) THEN FreshSlot ELSE t[i]
  IN IF slot(k).exec THEN t
     ELSE [i \in 1..Len(t) \cup {k} |->
             IF i = k THEN [slot(k) EXCEPT !.name = e.name, !.listen = e.listen,
                                           !.exec = TRUE]
             ELSE t[i]]

\* The SERVICES section, entry by entry.
add_services(t, c) ==
  LET upto[n \in 0..Len(c)] == IF n = 0 THEN t ELSE add_service(upto[n - 1], c[n])
  IN upto[Len(c)]

-----------------------------------------------------------------------------
(* The sockets                                                             *)

\* Mutant: the path of a unix socket is not unlinked.
CanBindNoUnlink(a, taken) == a \notin taken

\* bind(): a port is refused while another slot listens on it, a path is
\* unlinked first.  taken holds the addresses of the other slots' sockets.
CanBind(a, taken) == a \notin Inet \/ a \notin taken

\* service_create: a service that gets no socket is disabled again, and keeps
\* its name and address.
service_create(slot, taken) ==
  IF CanBind(slot.listen, taken) THEN [slot EXCEPT !.sock = slot.listen]
                                 ELSE [slot EXCEPT !.exec = FALSE]

\* Mutant: the listener of a disabled service is not closed.
DisableNoClose(slot) == [slot EXCEPT !.listen = None]

\* Mutant: a closed socket is marked by -1, the value socket() fails with.
DisableMinusOne(slot) == [slot EXCEPT !.listen = None, !.sock = -1]

\* "cleanup newly disabled services"; its children get a SIGHUP.
Disable(slot) == [slot EXCEPT !.listen = None, !.sock = None]

\* The loop of reread_conf over the slots: when it comes to slot i, the slots
\* before i have been dealt with and the ones behind have not.
Reconcile(t) ==
  LET new[i \in DOMAIN t] ==
        IF ~t[i].exec /\ t[i].sock # None THEN Disable(t[i])
        ELSE IF t[i].exec /\ t[i].sock = None
        THEN service_create(t[i], {new[j].sock : j \in 1..(i - 1)}
                                  \cup {t[j].sock : j \in (i + 1)..Len(t)})
        ELSE t[i]
  IN [i \in DOMAIN t |-> new[i]]

Off(t) == [i \in DOMAIN t |-> [t[i] EXCEPT !.exec = FALSE]]

Reread(t, c) == Reconcile(add_services(Off(t), c))

-----------------------------------------------------------------------------
(* Actions                                                                 *)

Drained(i) == ~table[i].exec /\ table[i].name # None /\ ~table[i].active

\* Master removes a disabled service whose last process is gone.
Remove(i) ==
  /\ Drained(i)
  /\ table' = [table EXCEPT ![i].name = None]
  /\ UNCHANGED <<conf, edits, dirty, gotsighup>>

\* spawn_service for slot i, and the last exit of one of its processes.
Spawn(i) ==
  /\ table[i].exec /\ ~table[i].active
  /\ table' = [table EXCEPT ![i].active = TRUE]
  /\ UNCHANGED <<conf, edits, dirty, gotsighup>>

Leave(i) ==
  /\ table[i].active
  /\ table' = [table EXCEPT ![i].active = FALSE]
  /\ UNCHANGED <<conf, edits, dirty, gotsighup>>

\* The administrator edits cyrus.conf ...
Edit ==
  /\ edits < MaxEdits /\ ~dirty
  /\ edits' = edits + 1
  /\ dirty' = TRUE
  /\ \E c \in Confs : conf' = c
  /\ UNCHANGED <<table, gotsighup>>

\* ... and sends SIGHUP, after an edit or without one.
SigHup ==
  /\ ~gotsighup
  /\ gotsighup' = TRUE
  /\ UNCHANGED <<table, conf, edits, dirty>>

\* The loop that removes drained services comes before the test of gotsighup
\* in main().
reread_conf ==
  /\ gotsighup /\ \A i \in DOMAIN table : ~Drained(i)
  /\ gotsighup' = FALSE
  /\ table' = Reread(table, conf)
  /\ dirty' = FALSE
  /\ UNCHANGED <<conf, edits>>

Init ==
  /\ conf \in Confs
  /\ table = Reread(<<>>, conf)
  /\ edits = 0
  /\ dirty = FALSE
  /\ gotsighup = FALSE

Next == \/ \E i \in DOMAIN table : Remove(i) \/ Spawn(i) \/ Leave(i)
        \/ Edit \/ SigHup
        \/ reread_conf

Spec == Init /\ [][Next]_vars

-----------------------------------------------------------------------------
(* Properties                                                              *)

Slot == [name : Names \cup {None}, listen : Addrs \cup {None}, exec : BOOLEAN,
         sock : Addrs \cup {None}, active : BOOLEAN]

\* A slot holds a name, an address and a socket, or NULL and 0 in their place.
TypeOK ==
  /\ table \in Seq(Slot)
  /\ conf \in Confs
  /\ edits \in 0..MaxEdits
  /\ dirty \in BOOLEAN /\ gotsighup \in BOOLEAN

Serves(i, e) == /\ table[i].exec /\ table[i].name = e.name
                /\ table[i].listen = e.listen /\ table[i].sock = e.listen

\* What listens is what is configured: a slot has a socket exactly if it is
\* enabled, it then serves an entry of the configuration that was read, and no
\* other slot serves that entry or listens on that address, however slots were
\* dropped, claimed by other services and drained before.
ListenersMatch ==
  /\ \A i \in DOMAIN table : table[i].exec <=> table[i].sock # None
  /\ ~dirty => \A i \in DOMAIN table : table[i].exec =>
                 \E k \in DOMAIN conf : Serves(i, conf[k])
  /\ \A i, j \in DOMAIN table :
       i # j /\ table[i].sock # None => table[i].sock # table[j].sock

\* The services of the configuration that was read are all enabled.
Enabled(E) == \A k \in DOMAIN conf : conf[k].listen \in E =>
                \E i \in DOMAIN table : Serves(i, conf[k])

\* A service on a unix socket is enabled whenever cyrus.conf names it, also when
\* it moves to another slot while its old one still listens.
UnixServed == ~dirty => Enabled(Addrs \ Inet)

\* An administrator who goes on sending SIGHUP ends up with every configured
\* service enabled for good: each service that reread_conf lost to its own old
\* socket is taken up again later, and losing services comes to an end.
Converges == []<><<reread_conf>>_vars => <>[](~dirty => Enabled(Addrs))

=============================================================================
