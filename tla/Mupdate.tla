------------------------------- MODULE Mupdate -------------------------------
(***************************************************************************)
(* The MUPDATE servers of a murder (imap/mupdate.c, imap/mupdate-slave.c,  *)
(* imap/mupdate-client.c): a master that backends tell about their         *)
(* mailboxes, and slaves that keep a copy of its list.                     *)
(*                                                                         *)
(* A slave connects to the server above it, copies the whole list with     *)
(* UPDATE, and then follows the stream of changes on the same connection.  *)
(* A slave is a server itself, so the nodes form a chain: 1 is the master, *)
(* node i takes its list from node i - 1.  A process on the host of a      *)
(* slave "kicks" it when it must not work with an old list: the slave      *)
(* sends NOOP, and when OK has come back all that was sent before it has   *)
(* been applied.                                                           *)
(*                                                                         *)
(* A change is queued for a stream as the name of the mailbox; its entry   *)
(* is looked up when it is sent.  Messages are whole lines.  The input     *)
(* buffer of a connection is modelled, since select() does not see what is *)
(* in it.  Full streams only (no PARTIAL-UPDATE), one stream per slave,    *)
(* enough worker threads, the standard configuration.                      *)
(***************************************************************************)
EXTENDS Integers, FiniteSets, Sequences, SequencesExt

CONSTANTS
  N,          \* the number of nodes in the chain
  Order,      \* the mailbox names in the order of the mailboxes database
  Strcmp,     \* the same names in the order of strcmp
  Kickers,    \* processes on the host of the last node
  Fragile,    \* the slaves that lose their connection or crash
  MaxOps,     \* bound: changes at the master
  Quiet,      \* the slaves that ask with NOOP when nothing came for a while
  MaxFaults   \* bound: lost connections and crashes

ASSUME NodeAssumption == N \in Nat \ {0, 1} /\ Fragile \cup Quiet \subseteq 2..N
ASSUME OrderAssumption ==
  /\ Order \in Seq(STRING \ {""}) /\ Strcmp \in Seq(STRING)
  /\ IsInjective(Order) /\ IsInjective(Strcmp) /\ Range(Order) = Range(Strcmp)
ASSUME KickerAssumption == Kickers \cap (2..N) = {}
ASSUME BoundAssumption == {MaxOps, MaxFaults} \subseteq Nat

Master == 1
Nodes  == 1..N
Slaves == 2..N
Names  == Range(Order)

VARIABLES
  db,      \* per node, the mailboxes database
  ready,   \* per node, ready_for_connections
  cl,      \* per slave, mupdate_client_start: the thread that follows the stream
  srv,     \* per slave, its connection at the server above: the thread and the queue
  up,      \* per slave, commands on the way to the server
  down,    \* per slave, lines on the way from it
  alive,   \* per slave, the connection exists
  kick,    \* kicks: of Kickers, and of a server thread for the slave below it
  ops, faults,
  had,     \* history: per kicker and name, the entries at the master since the kick
  fresh,   \* history: per kicker, the answer came when one of those was there
  doubt,   \* history: two NOOPs on the way at once, a NOOP's own kick failed, BYE for OK,
           \* or a stream was missed
  missed   \* history: the slaves whose server copied a new list under their stream

conns == <<up, down, alive>>
asked == <<had, fresh, doubt>>
history == <<asked, missed>>
counters == <<ops, faults>>
vars == <<db, ready, cl, srv, conns, kick, counters, history>>

None == [t |-> "none", v |-> 0]
Entry(t, v) == [t |-> t, v |-> v]
Line(n, e) == [t |-> e.t, n |-> n, e |-> e]     \* MAILBOX, RESERVE, DELETE
OK  == [t |-> "OK", n |-> "", e |-> None]
BYE == [t |-> "BYE", n |-> "", e |-> None]

(* The names of a set in the order of the mailboxes database.              *)
Place(list, n) == CHOOSE j \in 1..Len(list) : list[j] = n
InOrder(S) == CHOOSE s \in [1..Cardinality(S) -> S] :
                /\ Range(s) = S
                /\ \A j, k \in DOMAIN s : j < k => Place(Order, s[j]) < Place(Order, s[k])
There(u) == InOrder({n \in Names : db[u][n] # None})

Up(i) == i - 1
Home(k) == IF k \in Kickers THEN N ELSE Up(k)
NoConn == [pc |-> "none", streaming |-> FALSE, plist |-> {}, todo |-> {}]
Down == [pc |-> "down", buf |-> <<>>, waiting_for_noop |-> FALSE, kset |-> FALSE, held |-> {}]

-----------------------------------------------------------------------------
(* Servers.                                                                *)

(* mupdate_synchronize holds mailboxes_mutex from its UPDATE to its end.   *)
Locked(u) == u # Master /\ cl[u].pc = "sync"

(* Mutant: a stream whose thread is busy gets nothing.                     *)
log_update_idle(u, n) ==
  [i \in Slaves |-> IF Up(i) = u /\ srv[i].streaming /\ srv[i].pc = "idle"
                    THEN [srv[i] EXCEPT !.plist = @ \cup {n}] ELSE srv[i]]

(* log_update: the name is queued for every stream of the server.          *)
log_update(u, n) ==
  [i \in Slaves |-> IF Up(i) = u /\ srv[i].streaming
                    THEN [srv[i] EXCEPT !.plist = @ \cup {n}] ELSE srv[i]]

(* cmd_set at the master: what a backend asks for, or NO.                  *)
Allowed(t, e) ==
  CASE t = "reserve" -> e = None
    [] t = "activate" -> TRUE
    [] t = "deactivate" -> e.t = "MAILBOX"
    [] t = "delete" -> e # None
Set(t, v) ==
  CASE t \in {"reserve", "deactivate"} -> Entry("RESERVE", v)
    [] t = "activate" -> Entry("MAILBOX", v)
    [] t = "delete" -> None

cmd_set(t, n) ==
  /\ ops < MaxOps /\ Allowed(t, db[Master][n])
  /\ ops' = ops + 1
  /\ LET e == Set(t, ops + 1)
     IN /\ db' = [db EXCEPT ![Master][n] = e]
        /\ had' = [k \in Kickers |-> IF kick[k] \in {"wait", "held"}
                                     THEN [had[k] EXCEPT ![n] = @ \cup {e}] ELSE had[k]]
  /\ srv' = log_update(Master, n)
  /\ UNCHANGED <<ready, cl, conns, kick, faults, fresh, doubt, missed>>

(* Output to a connection that is gone is lost.                            *)
Put(i, lines) == down' = [down EXCEPT ![i] = IF alive[i] THEN @ \o lines ELSE @]

(* docmd has done a command and there is no other: the connection goes     *)
(* back to the idle ones, or it is closed when the server is not ready.    *)
Leave(i, lines) ==
  LET more == up'[i] # <<>>
      bye == ~more /\ ~ready[Up(i)]
  IN /\ srv' = [srv EXCEPT ![i].pc = IF more THEN "docmd" ELSE IF bye THEN "none" ELSE "idle",
                           ![i].streaming = ~bye, ![i].plist = IF bye THEN {} ELSE @]
     /\ Put(i, IF bye THEN Append(lines, BYE) ELSE lines)
     /\ alive' = [alive EXCEPT ![i] = @ /\ ~bye]

(* cmd_startupdate: under the mutex the connection joins the streams and   *)
(* the list is sent.                                                       *)
Dump(u) == [j \in DOMAIN There(u) |-> Line(There(u)[j], db[u][There(u)[j]])]

cmd_startupdate(i) ==
  /\ srv[i].pc \in {"idle", "docmd"} /\ up[i] # <<>> /\ Head(up[i]) = "UPDATE"
  /\ ~Locked(Up(i))
  /\ up' = [up EXCEPT ![i] = Tail(@)]
  /\ Leave(i, Append(Dump(Up(i)), OK))
  /\ missed' = missed \ {i}
  /\ UNCHANGED <<db, ready, cl, kick, counters, asked>>

(* sendupdates takes the queue and sends each name's entry as it is now.   *)
(* It runs before and within NOOP, and from the timer of the stream while  *)
(* docmd waits for input.                                                  *)
Grab(i, pc) == [srv EXCEPT ![i].pc = pc, ![i].todo = srv[i].plist, ![i].plist = {}]

cmd_noop(i) ==
  /\ srv[i].pc \in {"idle", "docmd"} /\ up[i] # <<>> /\ Head(up[i]) = "NOOP"
  /\ up' = [up EXCEPT ![i] = Tail(@)]
  /\ srv' = Grab(i, "noop")
  /\ UNCHANGED <<db, ready, cl, down, alive, kick, counters, history>>

sendupdates_evt(i) ==
  /\ srv[i].streaming /\ srv[i].pc \in {"idle", "docmd"} /\ up[i] = <<>>
  /\ srv[i].pc = "idle" \/ srv[i].plist # {}
  /\ srv' = Grab(i, IF srv[i].plist = {} THEN "docmd" ELSE "event")
  /\ UNCHANGED <<db, ready, cl, conns, kick, counters, history>>

cmd_find(i) ==
  /\ srv[i].pc \in {"noop", "noop2", "event"} /\ ~Locked(Up(i))
  /\ \E n \in srv[i].todo :
       /\ Put(i, <<Line(n, db[Up(i)][n])>>)
       /\ srv' = [srv EXCEPT ![i].todo = @ \ {n}]
  /\ UNCHANGED <<db, ready, cl, up, alive, kick, counters, history>>

(* The queue is sent.  NOOP kicks the server's own client thread ("make    *)
(* very sure we are up-to-date"; the master has a placebo that answers at  *)
(* once) and sends what that brought before it says OK.                    *)
Open(u) == cl[u].pc \in {"listen", "scarf"}

(* Mutant: NOOP is answered without the kick.                              *)
sendupdates_unkicked(i) ==
  /\ srv[i].pc \in {"noop", "noop2", "event"} /\ srv[i].todo = {}
  /\ \/ /\ srv[i].pc = "event" /\ srv' = [srv EXCEPT ![i].pc = "docmd"]
        /\ UNCHANGED <<down, alive>>
     \/ /\ srv[i].pc = "noop" /\ srv' = Grab(i, "noop2")
        /\ UNCHANGED <<down, alive>>
     \/ srv[i].pc = "noop2" /\ UNCHANGED up /\ Leave(i, <<OK>>)
  /\ UNCHANGED <<db, ready, cl, up, kick, counters, history>>

sendupdates(i) ==
  /\ srv[i].pc \in {"noop", "noop2", "event"} /\ srv[i].todo = {}
  /\ \/ /\ srv[i].pc = "event" /\ srv' = [srv EXCEPT ![i].pc = "docmd"]
        /\ UNCHANGED <<down, alive, kick, doubt>>
     \/ /\ srv[i].pc = "noop"
        /\ IF Up(i) # Master /\ Open(Up(i))
           THEN /\ srv' = [srv EXCEPT ![i].pc = "kick"] /\ kick' = [kick EXCEPT ![i] = "wait"]
                /\ UNCHANGED doubt
           ELSE /\ srv' = Grab(i, "noop2") /\ doubt' = (doubt \/ Up(i) # Master)
                /\ UNCHANGED kick
        /\ UNCHANGED <<down, alive>>
     \/ srv[i].pc = "noop2" /\ UNCHANGED up /\ Leave(i, <<OK>>) /\ UNCHANGED <<kick, doubt>>
  /\ UNCHANGED <<db, ready, cl, up, counters, had, fresh, missed>>

kicked(i) ==
  /\ srv[i].pc = "kick" /\ kick[i] \in {"ok", "failed"}
  /\ doubt' = (doubt \/ kick[i] = "failed")
  /\ kick' = [kick EXCEPT ![i] = "idle"]
  /\ srv' = Grab(i, "noop2")
  /\ UNCHANGED <<db, ready, cl, conns, counters, had, fresh, missed>>

(* A server that is not ready closes its idle connections, when a worker   *)
(* happens to wake up while it is not.                                     *)
drop_idle(i) ==
  /\ srv[i].pc = "idle" /\ ~ready[Up(i)]
  /\ Put(i, <<BYE>>)
  /\ alive' = [alive EXCEPT ![i] = FALSE]
  /\ srv' = [srv EXCEPT ![i] = NoConn]
  /\ UNCHANGED <<db, ready, cl, up, kick, counters, history>>

(* docmd finds the connection gone: conn_free.                             *)
conn_free(i) ==
  /\ srv[i].pc \in {"idle", "docmd"} /\ ~alive[i]
  /\ srv' = [srv EXCEPT ![i] = NoConn]
  /\ UNCHANGED <<db, ready, cl, conns, kick, counters, history>>

-----------------------------------------------------------------------------
(* The client thread of a slave.                                           *)

(* mupdate_client_start, and mupdate_listen up to mupdate_scarf: connect,  *)
(* stop serving, ask for the list.                                         *)
mupdate_connect(i) ==
  /\ cl[i].pc = "down" /\ srv[i].pc = "none" /\ ready[Up(i)]
  /\ cl' = [cl EXCEPT ![i] = [Down EXCEPT !.pc = "sync"]]
  /\ ready' = [ready EXCEPT ![i] = FALSE]
  /\ srv' = [srv EXCEPT ![i].pc = "idle"]
  /\ up' = [up EXCEPT ![i] = <<"UPDATE">>]
  /\ down' = [down EXCEPT ![i] = <<>>]
  /\ alive' = [alive EXCEPT ![i] = TRUE]
  /\ UNCHANGED <<db, kick, counters, history>>

(* The merge of the local list with the one from the server, both in the   *)
(* order of the database, compared with strcmp.  A round is done with the  *)
(* next local name, with the next line, or with both.                      *)
Less(n, m) == Place(Strcmp, n) < Place(Strcmp, m)

(* Mutant: the local entries that remain at the end are not deleted.       *)
Round_short(local, remote, s) ==
  LET l == s.l <= Len(local)  n == local[s.l]
      r == s.r <= Len(remote)  x == remote[s.r]
  IN IF ~r THEN s
     ELSE IF l /\ Less(n, x.n)
          THEN [l |-> s.l + 1, r |-> s.r, d |-> [s.d EXCEPT ![n] = None]]
          ELSE [l |-> IF l /\ n = x.n THEN s.l + 1 ELSE s.l, r |-> s.r + 1,
                d |-> [s.d EXCEPT ![x.n] = x.e]]

Round(local, remote, s) ==
  LET l == s.l <= Len(local)  n == local[s.l]
      r == s.r <= Len(remote)  x == remote[s.r]
  IN IF ~l /\ ~r THEN s
     ELSE IF l /\ (~r \/ Less(n, x.n))
          THEN [l |-> s.l + 1, r |-> s.r, d |-> [s.d EXCEPT ![n] = None]]
          ELSE [l |-> IF l /\ n = x.n THEN s.l + 1 ELSE s.l, r |-> s.r + 1,
                d |-> [s.d EXCEPT ![x.n] = x.e]]

Merged(local, remote, d) ==
  LET run[k \in 0..Len(local) + Len(remote)] ==
        IF k = 0 THEN [l |-> 1, r |-> 1, d |-> d] ELSE Round(local, remote, run[k - 1])
  IN run[Len(local) + Len(remote)].d

(* mupdate_synchronize: read up to OK.  BYE ends the list too.             *)
Ends(s) == {j \in 1..Len(s) : s[j] \in {OK, BYE}}
Upto(s) == CHOOSE j \in Ends(s) : \A k \in Ends(s) : j <= k

mupdate_synchronize(i) ==
  /\ cl[i].pc = "sync"
  /\ LET j == Upto(down[i])
     IN \/ /\ Ends(down[i]) # {}
           /\ db' = [db EXCEPT ![i] = Merged(There(i), SubSeq(down[i], 1, j - 1), @)]
           /\ missed' = missed \cup {m \in Slaves : Up(m) = i /\ srv[m].streaming /\ db'[i] # db[i]}
           /\ doubt' = (doubt \/ missed' # {} \/ down[i][j] = BYE)
           /\ cl' = [cl EXCEPT ![i].pc = "synced",
                               ![i].buf = SubSeq(down[i], j + 1, Len(down[i]))]
           /\ down' = [down EXCEPT ![i] = <<>>]
        \/ /\ Ends(down[i]) = {} /\ ~alive[i]
           /\ cl' = [cl EXCEPT ![i] = Down]
           /\ down' = [down EXCEPT ![i] = <<>>]
           /\ UNCHANGED <<db, doubt, missed>>
  /\ UNCHANGED <<ready, srv, up, alive, kick, counters, had, fresh>>

mupdate_ready(i) ==
  /\ cl[i].pc = "synced"
  /\ ready' = [ready EXCEPT ![i] = TRUE]
  /\ cl' = [cl EXCEPT ![i].pc = "ready"]
  /\ UNCHANGED <<db, srv, conns, kick, counters, history>>

open_kick_socket(i) ==
  /\ cl[i].pc = "ready"
  /\ cl' = [cl EXCEPT ![i].pc = "listen"]
  /\ UNCHANGED <<db, ready, srv, conns, kick, counters, history>>

Waiting(i) == {k \in Kickers \cup Slaves : Home(k) = i /\ kick[k] = "wait"}
Unanswered(i) == up[i] # <<>> \/ srv[i].pc \in {"noop", "kick", "noop2"}
                   \/ \E j \in 1..Len(cl[i].buf \o down[i]) : (cl[i].buf \o down[i])[j] = OK

(* The rest of the loop after select(): who was kicked is told "ok" when a *)
(* NOOP was on the way, whatever made select() return; new kicks are       *)
(* collected and a NOOP is sent for them.                                  *)
Turn(i, buf, kset) ==
  LET told == IF cl[i].waiting_for_noop THEN cl[i].held ELSE {}
      new == IF kset THEN Waiting(i) ELSE {}
  IN /\ cl' = [cl EXCEPT ![i].pc = "listen", ![i].buf = buf, ![i].kset = FALSE,
                         ![i].waiting_for_noop = kset, ![i].held = new]
     /\ kick' = [k \in DOMAIN kick |-> IF k \in told THEN "ok"
                                       ELSE IF k \in new THEN "held" ELSE kick[k]]
     /\ fresh' = [k \in Kickers |-> IF k \in told
                                    THEN \A n \in Names : db[i][n] \in had[k][n] ELSE fresh[k]]
     /\ up' = [up EXCEPT ![i] = IF kset THEN Append(@, "NOOP") ELSE @]
     /\ UNCHANGED had

(* Mutant: the connection to the server is not closed.                     *)
Broken_open(i) ==
  /\ cl' = [cl EXCEPT ![i] = Down]
  /\ kick' = [k \in DOMAIN kick |-> IF Home(k) = i /\ kick[k] \in {"wait", "held"} THEN "failed"
                                    ELSE kick[k]]
  /\ UNCHANGED conns

(* Mutant: the descriptors of the kicks that wait for OK are leaked.       *)
Broken_leak(i) ==
  /\ cl' = [cl EXCEPT ![i] = Down]
  /\ kick' = [k \in DOMAIN kick |-> IF Home(k) = i /\ kick[k] = "wait" THEN "failed" ELSE kick[k]]
  /\ alive' = [alive EXCEPT ![i] = FALSE]
  /\ up' = [up EXCEPT ![i] = <<>>] /\ down' = [down EXCEPT ![i] = <<>>]

(* The connection is given up: who was kicked gets no answer.              *)
Broken(i) ==
  /\ cl' = [cl EXCEPT ![i] = Down]
  /\ kick' = [k \in DOMAIN kick |-> IF Home(k) = i /\ kick[k] \in {"wait", "held"} THEN "failed"
                                    ELSE kick[k]]
  /\ alive' = [alive EXCEPT ![i] = FALSE]
  /\ up' = [up EXCEPT ![i] = <<>>] /\ down' = [down EXCEPT ![i] = <<>>]

select_input(i) ==
  /\ cl[i].pc = "listen" /\ (down[i] # <<>> \/ ~alive[i])
  /\ cl' = [cl EXCEPT ![i].pc = "scarf", ![i].kset = Waiting(i) # {}]
  /\ UNCHANGED <<db, ready, srv, conns, kick, counters, history>>

select_kick(i) ==
  /\ cl[i].pc = "listen" /\ down[i] = <<>> /\ alive[i] /\ Waiting(i) # {}
  /\ doubt' = (doubt \/ cl[i].waiting_for_noop \/ Unanswered(i))
  /\ Turn(i, cl[i].buf, TRUE)
  /\ UNCHANGED <<db, ready, srv, down, alive, counters, missed>>

select_timeout(i) ==
  /\ cl[i].pc = "listen" /\ down[i] = <<>> /\ alive[i] /\ Waiting(i) = {}
  /\ i \in Quiet /\ ~cl[i].waiting_for_noop
  /\ doubt' = (doubt \/ Unanswered(i))
  /\ cl' = [cl EXCEPT ![i].waiting_for_noop = TRUE]
  /\ up' = [up EXCEPT ![i] = Append(@, "NOOP")]
  /\ UNCHANGED <<db, ready, srv, down, alive, kick, counters, had, fresh, missed>>

(* cmd_change, also for the streams of this slave.                         *)
cmd_change(i, x) ==
  /\ db' = [db EXCEPT ![i][x.n] = x.e]
  /\ srv' = IF x.e = None /\ db[i][x.n] = None THEN srv ELSE log_update(i, x.n)

(* mupdate_scarf: one line from the buffer, which is filled when empty.    *)
(* With a NOOP on the way it goes on to the first OK, otherwise as long as *)
(* there is input.                                                         *)
mupdate_scarf(i) ==
  /\ cl[i].pc = "scarf"
  /\ LET src == IF cl[i].buf # <<>> THEN cl[i].buf ELSE down[i]
         x == Head(src)
     IN IF src # <<>>
        THEN /\ down' = [down EXCEPT ![i] = IF cl[i].buf # <<>> THEN @ ELSE <<>>]
             /\ IF x \in {OK, BYE}
                THEN /\ UNCHANGED <<db, srv>>
                     /\ IF x = BYE \/ cl[i].waiting_for_noop
                        THEN /\ Turn(i, Tail(src), cl[i].kset)
                             /\ doubt' = (doubt \/ x = BYE \/ (cl[i].kset /\ Unanswered(i)
                                                                 /\ Ends(Tail(src) \o down'[i]) # {}))
                        ELSE cl' = [cl EXCEPT ![i].buf = Tail(src)] /\ UNCHANGED <<up, kick, asked>>
                ELSE /\ cmd_change(i, x)
                     /\ cl' = [cl EXCEPT ![i].buf = Tail(src)]
                     /\ UNCHANGED <<up, kick, asked>>
             /\ UNCHANGED alive
        ELSE \/ /\ alive[i] /\ ~cl[i].waiting_for_noop
                /\ Turn(i, <<>>, cl[i].kset)
                /\ UNCHANGED <<db, srv, down, alive, doubt>>
             \/ /\ ~alive[i] /\ Broken(i)
                /\ UNCHANGED <<db, srv, asked>>
  /\ UNCHANGED <<ready, counters, missed>>

-----------------------------------------------------------------------------
(* kick_mupdate: connect to the kick socket and wait for an answer.        *)
kick_mupdate(k) ==
  /\ kick[k] = "idle" /\ Open(Home(k))
  /\ kick' = [kick EXCEPT ![k] = "wait"]
  /\ had' = [had EXCEPT ![k] = [n \in Names |-> {db[Master][n]}]]
  /\ UNCHANGED <<db, ready, cl, srv, conns, counters, fresh, doubt, missed>>

Fault(i) == i \in Fragile /\ faults < MaxFaults /\ faults' = faults + 1 /\ UNCHANGED ops

(* The connection breaks; a part of what was on the way still arrives.     *)
lose(i) ==
  /\ alive[i] /\ Fault(i)
  /\ alive' = [alive EXCEPT ![i] = FALSE]
  /\ \E j \in 0..Len(down[i]) : down' = [down EXCEPT ![i] = SubSeq(@, 1, j)]
  /\ up' = [up EXCEPT ![i] = <<>>]
  /\ UNCHANGED <<db, ready, cl, srv, kick, history>>

(* No answer to the NOOP in time: the slave gives the connection up.       *)
time_out(i) ==
  /\ cl[i].pc = "listen" /\ down[i] = <<>> /\ alive[i] /\ Waiting(i) = {}
  /\ cl[i].waiting_for_noop /\ Fault(i)
  /\ Broken(i)
  /\ UNCHANGED <<db, ready, srv, history>>

(* A slave dies and is started again: it serves nobody before it has its   *)
(* list (service_init).                                                    *)
crash(i) ==
  /\ cl[i].pc # "down" /\ Fault(i)
  /\ cl' = [cl EXCEPT ![i] = Down]
  /\ ready' = [ready EXCEPT ![i] = FALSE]
  /\ alive' = [j \in Slaves |-> alive[j] /\ j # i /\ Up(j) # i]
  /\ up' = [j \in Slaves |-> IF j = i \/ Up(j) = i THEN <<>> ELSE up[j]]
  /\ down' = [down EXCEPT ![i] = <<>>]
  /\ srv' = [j \in Slaves |-> IF Up(j) = i THEN NoConn ELSE srv[j]]
  /\ kick' = [k \in DOMAIN kick |-> IF k \in Slaves /\ Up(k) = i THEN "idle"
                                    ELSE IF Home(k) = i /\ kick[k] \in {"wait", "held"} THEN "failed"
                                    ELSE kick[k]]
  /\ UNCHANGED <<db, history>>

-----------------------------------------------------------------------------
Init ==
  /\ db = [i \in Nodes |-> [n \in Names |-> IF n = Order[1] THEN Entry("MAILBOX", 0) ELSE None]]
  /\ ready = [i \in Nodes |-> i = Master]
  /\ cl = [i \in Slaves |-> Down]
  /\ srv = [i \in Slaves |-> NoConn]
  /\ up = [i \in Slaves |-> <<>>] /\ down = [i \in Slaves |-> <<>>]
  /\ alive = [i \in Slaves |-> FALSE]
  /\ kick = [k \in Kickers \cup Slaves |-> "idle"]
  /\ ops = 0 /\ faults = 0
  /\ had = [k \in Kickers |-> [n \in Names |-> {}]]
  /\ fresh = [k \in Kickers |-> TRUE]
  /\ doubt = FALSE /\ missed = {}

Serve(i) ==
  \/ cmd_startupdate(i) \/ cmd_noop(i) \/ sendupdates_evt(i) \/ cmd_find(i) \/ sendupdates(i)
  \/ kicked(i) \/ conn_free(i)
Follow(i) ==
  \/ mupdate_connect(i) \/ mupdate_synchronize(i) \/ mupdate_ready(i) \/ open_kick_socket(i)
  \/ select_input(i) \/ select_kick(i) \/ select_timeout(i) \/ mupdate_scarf(i)

Next ==
  \/ \E t \in {"reserve", "activate", "deactivate", "delete"}, n \in Names : cmd_set(t, n)
  \/ \E i \in Slaves : Serve(i) \/ Follow(i) \/ drop_idle(i) \/ lose(i) \/ time_out(i) \/ crash(i)
  \/ \E k \in Kickers : kick_mupdate(k)

Spec == Init /\ [][Next]_vars

(* Threads run, and the timers of streams and of select() go off.          *)
Fairness == \A i \in Slaves : WF_vars(Serve(i)) /\ WF_vars(Follow(i))
FairSpec == Spec /\ Fairness

-----------------------------------------------------------------------------
(* The types of the state, and that a connection's threads and queues are  *)
(* only there with the connection.                                         *)
TypeOK ==
  /\ \A i \in Nodes, n \in Names : db[i][n].t \in {"none", "RESERVE", "MAILBOX"} /\ db[i][n].v \in 0..MaxOps
  /\ ready \in [Nodes -> BOOLEAN]
  /\ \A i \in Slaves : /\ srv[i].plist \cup srv[i].todo \subseteq Names
                       /\ srv[i].plist \cup srv[i].todo # {} => srv[i].streaming
                       /\ cl[i].held \subseteq {k \in DOMAIN kick : kick[k] = "held"}
                       /\ cl[i].pc = "down" => ~alive[i]

(* What node i will have when it has read all that was sent to it.         *)
(* The last line for a name counts; OK and BYE are for no name.            *)
Sent(i) == cl[i].buf \o down[i]
About(lines, n) == {j \in 1..Len(lines) : lines[j].n = n}
Apply(d, lines) ==
  [n \in Names |-> LET at == About(lines, n)
                   IN IF at = {} THEN d[n] ELSE lines[CHOOSE j \in at : \A k \in at : k <= j].e]
Empty == [n \in Names |-> None]
Predicted(i) == Apply(IF cl[i].pc = "sync" THEN Empty ELSE db[i], Sent(i))

(* No change is lost between two servers: as long as a stream exists, a    *)
(* slave that has read all that was sent to it has the list of the server  *)
(* above it, but for the names that are queued for it.  The copy of the    *)
(* list and the changes made meanwhile leave no gap (cmd_startupdate under *)
(* the mutex), and a queue that is sent late sends nothing older.  Not     *)
(* when the server above copied a new list itself under the stream.        *)
InStep(i) ==
  (alive[i] /\ srv[i].streaming /\ cl[i].pc # "down") =>
    \A n \in Names : Predicted(i)[n] # db[Up(i)][n] => n \in srv[i].plist \cup srv[i].todo
Streamed == \A i \in Slaves \ missed : InStep(i)

(* mupdate_listen, before it copies the list: "don't handle connections    *)
(* (and drop current connections) while we sync".  No stream outlives it.  *)
NoStreamMissed == missed = {}

(* Who kicked the slave and was told "ok" finds a list that is not older   *)
(* than the kick, over the NOOPs of all servers up to the master; but not  *)
(* when two NOOPs were on the way at once, a server on the way could not   *)
(* ask the one above it or said BYE, or a stream outlived a new copy.      *)
KickFresh == \A k \in Kickers : kick[k] = "ok" => fresh[k] \/ doubt

(* imapd's mlookup: "It is not currently active, make sure we have the     *)
(* most recent copy of the database".                                      *)
KickAlwaysFresh == \A k \in Kickers : kick[k] = "ok" => fresh[k]

(* When the backends are quiet every list becomes equal to the master's    *)
(* and stays so, also after lost connections and crashes.                  *)
Converges == <>[](missed = {} => \A i \in Slaves : db[i] = db[Master])

(* A kick is answered, or the kick socket is closed on it: nobody who      *)
(* looks for a mailbox waits for ever.                                     *)
KickAnswered == \A k \in Kickers : kick[k] = "wait" ~> kick[k] \in {"ok", "failed"}
=============================================================================
