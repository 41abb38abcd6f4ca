------------------------------- MODULE Master -------------------------------
(***************************************************************************)
(* The Cyrus master process (master/master.c) and the service processes it *)
(* forks (master/service.c, master/service-thread.c).                      *)
(*                                                                         *)
(* Master is single threaded.  Its loop is cut where another process can   *)
(* be seen to act: the program counter pc names the part of the loop that  *)
(* runs next, idx the service a for-loop has reached.  Service processes   *)
(* share with it a listening socket (backlog counts the connections queued *)
(* in it) and a status pipe per service, and are seen otherwise only       *)
(* through fork(), SIGCHLD and waitpid().                                  *)
(*                                                                         *)
(* Time is not modelled: an event that is due, an alarm that fires and a   *)
(* janitor deadline that has passed are nondeterministic choices.  Fork    *)
(* rate arithmetic becomes the choice to refuse a fork.                    *)
(***************************************************************************)
EXTENDS Integers, Sequences, FiniteSets

CONSTANTS
  NServices,       \* nservices: the used slots of the Services array
  Pids,            \* process identifiers the kernel hands out
  Prefork,         \* per service: desired_workers of an enabled service
  MaxChild,        \* per service: max_workers
  Babysit,         \* services with babysit set
  Multi,           \* services built on service-thread.c
  ImapServices,    \* services named "imap" or "imaps"
  MAX_USE,         \* max_use of service.c
  PIPE_CAP,        \* messages a status pipe holds before write() blocks
  LISTEN_BACKLOG,  \* bound on the connections queued in a listening socket
  MaxEvents,       \* bound on the scheduled events that fork a process
  MaxRefusals,     \* bound on throttled and failed forks
  MaxHups,         \* bound on the SIGHUPs the administrator sends
  MaxCrashes,      \* bound on service processes killed by a fault
  PromptDelivery,  \* TRUE: master reads a message before its sender's pid is
                   \*   purged from the child table or used again
  RecycleDraining  \* TRUE: SIGHUP may re-enable a service still draining

Services == 1..NServices
SERVICE_NONE == 0

ASSUME MasterAssumption ==
  /\ NServices \in Nat
  /\ Prefork \in [Services -> Nat]
  /\ MaxChild \in [Services -> Nat]
  /\ \A s \in Services : MaxChild[s] >= 1
  /\ Babysit \subseteq Services
  /\ \A s \in Babysit : Prefork[s] >= 1
  /\ Multi \subseteq Services
  /\ ImapServices \subseteq Services
  /\ MAX_USE \in Nat
  /\ PIPE_CAP \in Nat
  /\ LISTEN_BACKLOG \in Nat
  /\ MaxEvents \in Nat
  /\ MaxRefusals \in Nat
  /\ MaxHups \in Nat
  /\ MaxCrashes \in Nat
  /\ PromptDelivery \in BOOLEAN
  /\ RecycleDraining \in BOOLEAN
  /\ IsFiniteSet(Pids)

VARIABLES
  \* the Services array
  status,         \* "enabled": exec and socket set; "draining": exec NULL,
                  \*   name and pipe kept; "removed": name NULL, pipe closed
  ready_workers,
  nactive,
  imap_count,     \* the global imap_count, split by the service counted
  forkfails,      \* history: fork() calls that returned -1, by service
  \* the child table: newest entry of each pid
  cstate,         \* service_state, "NONE" where the pid has no entry
  csi,
  \* master's control state
  pc, idx, todo,
  rfds,           \* what select() returned: ready pipes and ready sockets
  gotsigchld, gotsighup,
  \* service and event processes
  pst, psi, use_count, hup,
  linked,         \* the process writes to the pipe master still reads
  \* kernel objects
  pipe, backlog,
  \* bounds
  events, refusals, hups, crashes

svcVars   == <<status, ready_workers, nactive, imap_count, forkfails>>
tblVars   == <<cstate, csi>>
ctlVars   == <<pc, idx, todo, rfds>>
sigVars   == <<gotsigchld, gotsighup>>
procVars  == <<pst, psi, use_count, hup, linked>>
kernVars  == <<pipe, backlog>>
boundVars == <<events, refusals, hups, crashes>>
vars == <<svcVars, tblVars, ctlVars, sigVars, procVars, kernVars, boundVars>>

States   == {"READY", "BUSY", "UNKNOWN", "DEAD"}
Messages == {"AVAILABLE", "UNAVAILABLE", "CONNECTION", "CONNECTION_MULTI"}
Alive    == {"start", "idle", "accepted", "told", "serving", "event"}

Msg == [msg : Messages, pid : Pids]

InFlight(p) == \E s \in Services : \E i \in DOMAIN pipe[s] : pipe[s][i].pid = p

-----------------------------------------------------------------------------
(* Initial state: main() has read the configuration and created the        *)
(* sockets and pipes; no process has been forked.                          *)

Init ==
  /\ status = [s \in Services |-> "enabled"]
  /\ ready_workers = [s \in Services |-> 0]
  /\ nactive = [s \in Services |-> 0]
  /\ imap_count = [s \in ImapServices |-> 0]
  /\ forkfails = [s \in Services |-> 0]
  /\ cstate = [p \in Pids |-> "NONE"]
  /\ csi = [p \in Pids |-> SERVICE_NONE]
  /\ pc = "top" /\ idx = 1 /\ todo = 0
  /\ rfds = [stat |-> {}, sock |-> {}]
  /\ gotsigchld = FALSE /\ gotsighup = FALSE
  /\ pst = [p \in Pids |-> "none"]
  /\ psi = [p \in Pids |-> SERVICE_NONE]
  /\ use_count = [p \in Pids |-> 0]
  /\ hup = [p \in Pids |-> FALSE]
  /\ linked = [p \in Pids |-> FALSE]
  /\ pipe = [s \in Services |-> <<>>]
  /\ backlog = [s \in Services |-> 0]
  /\ events = 0 /\ refusals = 0 /\ hups = 0 /\ crashes = 0

-----------------------------------------------------------------------------
(* fork() as master sees it                                                *)

\* A pid the kernel may hand out: no process has it.
Unused(p) == pst[p] = "none" /\ (PromptDelivery => ~InFlight(p))

\* The parent's half of a fork: the new process p and its child table entry.
Register(p, si, st) ==
  /\ cstate' = [cstate EXCEPT ![p] = "READY"]
  /\ csi' = [csi EXCEPT ![p] = si]
  /\ pst' = [pst EXCEPT ![p] = st]
  /\ psi' = [psi EXCEPT ![p] = si]
  /\ use_count' = [use_count EXCEPT ![p] = 0]
  /\ hup' = [hup EXCEPT ![p] = FALSE]
  /\ linked' = [linked EXCEPT ![p] = si # SERVICE_NONE]

CountImap(s, n) ==
  imap_count' = IF s \in ImapServices
                THEN [imap_count EXCEPT ![s] = @ + n] ELSE imap_count

\* spawn_service: the fork succeeds.
SpawnFork(s) ==
  \E p \in Pids :
    /\ Unused(p)
    /\ Register(p, s, "start")
    /\ ready_workers' = [ready_workers EXCEPT ![s] = @ + 1]
    /\ nactive' = [nactive EXCEPT ![s] = @ + 1]
    /\ CountImap(s, 1)
    /\ UNCHANGED <<forkfails, refusals>>

\* spawn_service: refused by the fork rate limit, before imap_count moves.  The
\* bound on refusals does not count the ones met while Pids is exhausted.
SpawnThrottled(s) ==
  /\ \/ refusals < MaxRefusals /\ refusals' = refusals + 1
     \/ (\A p \in Pids : ~Unused(p)) /\ UNCHANGED refusals
  /\ UNCHANGED <<tblVars, procVars, ready_workers, nactive, imap_count,
                 forkfails>>

\* spawn_service: fork() returned -1, after imap_count was incremented.
SpawnFailed(s) ==
  /\ refusals < MaxRefusals
  /\ refusals' = refusals + 1
  /\ forkfails' = [forkfails EXCEPT ![s] = @ + 1]
  /\ CountImap(s, 1)
  /\ UNCHANGED <<tblVars, procVars, ready_workers, nactive>>

spawn_service(s) == SpawnFork(s) \/ SpawnThrottled(s) \/ SpawnFailed(s)

NoSpawn == UNCHANGED <<tblVars, procVars, ready_workers, nactive, imap_count,
                       forkfails, refusals>>

-----------------------------------------------------------------------------
(* The main loop                                                           *)

\* spawn_schedule: at most one due event forks a process in this pass.
spawn_schedule ==
  /\ pc = "top"
  /\ pc' = IF gotsigchld THEN "reap" ELSE "man"
  /\ gotsigchld' = FALSE      \* cleared before, not after, the waitpid loop
  /\ idx' = 1
  /\ \/ UNCHANGED <<tblVars, procVars, events>>
     \/ /\ events < MaxEvents
        /\ events' = events + 1
        /\ \E p \in Pids : Unused(p) /\ Register(p, SERVICE_NONE, "event")
  /\ UNCHANGED <<svcVars, todo, rfds, gotsighup, kernVars, refusals, hups,
                 crashes>>

\* waitpid() returned p: the kernel forgets the process.
Forget(p) ==
  /\ pst' = [pst EXCEPT ![p] = "none"]
  /\ psi' = [psi EXCEPT ![p] = SERVICE_NONE]
  /\ use_count' = [use_count EXCEPT ![p] = 0]
  /\ hup' = [hup EXCEPT ![p] = FALSE]
  /\ linked' = [linked EXCEPT ![p] = FALSE]

\* The mutants of ReapOne: a child is taken from ready_workers if ready holds and
\* from imap_count if imap holds, and next tells where the loop goes.
ReapAs(p, ready, imap, next) ==
  LET s == csi[p]
      counted == cstate[p] \in {"READY", "BUSY", "UNKNOWN"} /\ s \in Services
  IN
  /\ pc = "reap" /\ pst[p] = "zombie"
  /\ pc' = next
  /\ Forget(p)
  /\ cstate' = [cstate EXCEPT ![p] = "DEAD"]
  /\ csi' = IF cstate[p] = "NONE" THEN [csi EXCEPT ![p] = SERVICE_NONE] ELSE csi
  /\ nactive' = IF counted THEN [nactive EXCEPT ![s] = @ - 1] ELSE nactive
  /\ ready_workers' = IF counted /\ ready
                      THEN [ready_workers EXCEPT ![s] = @ - 1]
                      ELSE ready_workers
  /\ imap_count' = IF counted /\ imap /\ s \in ImapServices
                   THEN [imap_count EXCEPT ![s] = @ - 1] ELSE imap_count
  /\ UNCHANGED <<status, forkfails, idx, todo, rfds, sigVars, kernVars, boundVars>>

\* Mutant: every counted child is taken from ready_workers, not only a READY one.
ReapAsReady(p) == ReapAs(p, TRUE, TRUE, "reap")

\* Mutant: imap_count is only taken back for a child that was READY.
ReapReadyImapOnly(p) ==
  ReapAs(p, cstate[p] = "READY", cstate[p] = "READY", "reap")

\* Mutant: one waitpid() per SIGCHLD in place of the loop.
ReapOnce(p) == ReapAs(p, cstate[p] = "READY", TRUE, "man")

\* One turn of the waitpid() loop of reap_child, for the zombie p.
ReapOne(p) ==
  LET s == csi[p]
      counted == cstate[p] \in {"READY", "BUSY", "UNKNOWN"} /\ s \in Services
  IN
  /\ pc = "reap" /\ pst[p] = "zombie"
  /\ Forget(p)
  /\ cstate' = [cstate EXCEPT ![p] = "DEAD"]
  /\ csi' = IF cstate[p] = "NONE" THEN [csi EXCEPT ![p] = SERVICE_NONE] ELSE csi
  /\ nactive' = IF counted THEN [nactive EXCEPT ![s] = @ - 1] ELSE nactive
  /\ ready_workers' = IF counted /\ cstate[p] = "READY"
                      THEN [ready_workers EXCEPT ![s] = @ - 1]
                      ELSE ready_workers
  /\ imap_count' = IF counted /\ s \in ImapServices
                   THEN [imap_count EXCEPT ![s] = @ - 1] ELSE imap_count
  /\ UNCHANGED <<status, forkfails, ctlVars, sigVars, kernVars, boundVars>>

\* waitpid() finds no further zombie.
ReapDone ==
  /\ pc = "reap" /\ \A p \in Pids : pst[p] # "zombie"
  /\ pc' = "man"
  /\ UNCHANGED <<svcVars, tblVars, idx, todo, rfds, sigVars, procVars,
                 kernVars, boundVars>>

\* "do we have any services undermanned?", and the babysitter.
NeedsWorker(s) ==
  /\ status[s] = "enabled"
  /\ \/ nactive[s] < MaxChild[s] /\ ready_workers[s] < Prefork[s]
     \/ s \in Babysit /\ nactive[s] = 0

\* A disabled service whose last process is gone.
Drained(s) == status[s] = "draining" /\ nactive[s] = 0

\* The loop over the services before select(), service idx.
man_service ==
  /\ pc = "man" /\ idx \in Services
  /\ idx' = idx + 1
  /\ IF NeedsWorker(idx) THEN spawn_service(idx) ELSE NoSpawn
  /\ IF Drained(idx)
     THEN /\ status' = [status EXCEPT ![idx] = "removed"]
          /\ pipe' = [pipe EXCEPT ![idx] = <<>>]
     ELSE UNCHANGED <<status, pipe>>
  /\ UNCHANGED <<pc, todo, rfds, sigVars, backlog, events, hups, crashes>>

ManDone ==
  /\ pc = "man" /\ idx > NServices
  /\ pc' = IF gotsighup THEN "hup" ELSE "select"
  /\ UNCHANGED <<svcVars, tblVars, idx, todo, rfds, sigVars, procVars,
                 kernVars, boundVars>>

\* reread_conf: conf is the set of services the new configuration names.
reread_conf ==
  /\ pc = "hup"
  /\ pc' = "select"
  /\ gotsighup' = FALSE
  /\ \E conf \in SUBSET Services :
       LET off == {s \in Services : status[s] = "enabled" /\ s \notin conf}
           on  == {s \in conf : status[s] # "enabled"}
       IN
       /\ RecycleDraining \/ \A s \in on : status[s] = "removed"
       /\ status' = [s \in Services |->
                       IF s \in off THEN "draining"
                       ELSE IF s \in on THEN "enabled" ELSE status[s]]
       \* kill(c->pid, SIGHUP) for the registered children of s
       /\ hup' = [p \in Pids |-> hup[p] \/ /\ csi[p] \in off
                                           /\ cstate[p] \notin {"NONE", "DEAD"}
                                           /\ pst[p] \in Alive]
       /\ backlog' = [s \in Services |-> IF s \in off THEN 0 ELSE backlog[s]]
       \* service_create: ready_workers = 0 and a new status pipe
       /\ ready_workers' = [s \in Services |->
                              IF s \in on THEN 0 ELSE ready_workers[s]]
       /\ pipe' = [s \in Services |-> IF s \in on THEN <<>> ELSE pipe[s]]
       /\ linked' = [p \in Pids |-> linked[p] /\ psi[p] \notin on]
  /\ UNCHANGED <<nactive, imap_count, forkfails, tblVars, idx, todo, rfds,
                 gotsigchld, pst, psi, use_count, boundVars>>

\* Mutant: an off-by-one in the limit.
WatchedBelowLimit(s) == /\ status[s] = "enabled"
                        /\ ready_workers[s] = 0
                        /\ nactive[s] < MaxChild[s] - 1

\* The sockets select() watches: only those of a service with no ready worker
\* that may still fork one.
Watched(s) == /\ status[s] = "enabled"
              /\ ready_workers[s] = 0
              /\ nactive[s] < MaxChild[s]

\* select() returns what is readable, or nothing when the next event is due
\* (init_janitor keeps one in the schedule at all times).
SelectReturns ==
  /\ pc = "select"
  /\ pc' = "read" /\ idx' = 1
  /\ rfds' = [stat |-> {s \in Services : status[s] # "removed" /\ pipe[s] # <<>>},
              sock |-> {s \in Services : Watched(s) /\ backlog[s] > 0}]
  /\ UNCHANGED <<svcVars, tblVars, todo, sigVars, procVars, kernVars, boundVars>>

\* select() fails with EINTR and the loop starts again.
SelectInterrupted ==
  /\ pc = "select" /\ (gotsigchld \/ gotsighup)
  /\ pc' = "top"
  /\ UNCHANGED <<svcVars, tblVars, idx, todo, rfds, sigVars, procVars,
                 kernVars, boundVars>>

\* The state machine of process_msg for message m of a child in state st:
\* its next state and the change of ready_workers.
Transition(st, m) ==
  CASE m = "AVAILABLE" /\ st = "UNKNOWN"  -> [st |-> "READY", ready |-> 0]
    [] m = "AVAILABLE" /\ st = "BUSY"     -> [st |-> "READY", ready |-> 1]
    [] m \in {"UNAVAILABLE", "CONNECTION"} /\ st = "UNKNOWN"
                                          -> [st |-> "BUSY",  ready |-> 0]
    [] m \in {"UNAVAILABLE", "CONNECTION"} /\ st = "READY"
                                          -> [st |-> "BUSY",  ready |-> -1]
    [] m = "CONNECTION_MULTI" /\ st = "BUSY"
                                          -> [st |-> "READY", ready |-> 1]
    [] m = "CONNECTION_MULTI" /\ st = "UNKNOWN"
                                          -> [st |-> "READY", ready |-> 0]
    [] OTHER                              -> [st |-> st,      ready |-> 0]

\* process_msg(s, msg): an unregistered sender is entered as UNKNOWN, and the
\* entry is moved to the service whose pipe the message came from.
process_msg(s, msg) ==
  LET p  == msg.pid
      st == IF cstate[p] = "NONE" THEN "UNKNOWN" ELSE cstate[p]
      t  == Transition(st, msg.msg)
  IN
  /\ cstate' = [cstate EXCEPT ![p] = t.st]
  /\ csi' = [csi EXCEPT ![p] = s]
  /\ ready_workers' = [ready_workers EXCEPT ![s] = @ + t.ready]

\* Mutant: max_workers is not looked at after select().
ReadServiceNoLimit ==
  /\ pc = "read" /\ idx \in Services
  /\ IF idx \in rfds.stat
     THEN /\ process_msg(idx, Head(pipe[idx]))
          /\ pipe' = [pipe EXCEPT ![idx] = Tail(@)]
     ELSE UNCHANGED <<cstate, csi, ready_workers, pipe>>
  /\ IF status[idx] = "enabled"
     THEN /\ pc' = "fill"
          /\ todo' = IF ready_workers'[idx] < Prefork[idx]
                     THEN Prefork[idx] - ready_workers'[idx] ELSE 0
          /\ idx' = idx
     ELSE /\ idx' = idx + 1 /\ UNCHANGED <<pc, todo>>
  /\ UNCHANGED <<status, nactive, imap_count, forkfails, rfds, sigVars,
                 procVars, backlog, boundVars>>

\* The loop after select(), service idx: read one message if its pipe was
\* readable, then see whether to bring it up to desired_workers.
read_service ==
  /\ pc = "read" /\ idx \in Services
  /\ IF idx \in rfds.stat
     THEN /\ process_msg(idx, Head(pipe[idx]))
          /\ pipe' = [pipe EXCEPT ![idx] = Tail(@)]
     ELSE UNCHANGED <<cstate, csi, ready_workers, pipe>>
  /\ IF status[idx] = "enabled" /\ nactive[idx] < MaxChild[idx]
     THEN /\ pc' = "fill"
          /\ todo' = IF ready_workers'[idx] < Prefork[idx]
                     THEN Prefork[idx] - ready_workers'[idx] ELSE 0
          /\ idx' = idx
     ELSE /\ idx' = idx + 1 /\ UNCHANGED <<pc, todo>>
  /\ UNCHANGED <<status, nactive, imap_count, forkfails, rfds, sigVars,
                 procVars, backlog, boundVars>>

\* Mutant: the loop runs once more than there are workers missing.
FillOneMore ==
  /\ pc = "fill" /\ todo >= 0
  /\ todo' = todo - 1
  /\ spawn_service(idx)
  /\ UNCHANGED <<status, pc, idx, rfds, sigVars, kernVars, events, hups, crashes>>

\* for (j = ready_workers; j < desired_workers; j++) spawn_service(i): the
\* number of turns is fixed on entry and nactive is not looked at again.
FillOne ==
  /\ pc = "fill" /\ todo > 0
  /\ todo' = todo - 1
  /\ spawn_service(idx)
  /\ UNCHANGED <<status, pc, idx, rfds, sigVars, kernVars, events, hups, crashes>>

\* "huh, someone wants to talk to us"
FillDone ==
  /\ pc = "fill" /\ todo = 0
  /\ pc' = "read" /\ idx' = idx + 1
  /\ IF ready_workers[idx] = 0 /\ idx \in rfds.sock
     THEN spawn_service(idx)
     ELSE NoSpawn
  /\ UNCHANGED <<status, todo, rfds, sigVars, kernVars, events, hups, crashes>>

\* Mutant: the janitor does not ask whether an entry is DEAD.
JanitorPurgesBusy ==
  /\ pc = "read" /\ idx > NServices
  /\ pc' = "top"
  /\ rfds' = [stat |-> {}, sock |-> {}]
  /\ \E D \in SUBSET {p \in Pids : cstate[p] \in {"DEAD", "BUSY"}} :
       /\ PromptDelivery => \A p \in D : ~InFlight(p)
       /\ cstate' = [p \in Pids |-> IF p \in D THEN "NONE" ELSE cstate[p]]
       /\ csi' = [p \in Pids |-> IF p \in D THEN SERVICE_NONE ELSE csi[p]]
  /\ UNCHANGED <<svcVars, idx, todo, sigVars, procVars, kernVars, boundVars>>

\* child_janitor: any of the DEAD entries may be past their deadline.
child_janitor ==
  /\ pc = "read" /\ idx > NServices
  /\ pc' = "top"
  /\ rfds' = [stat |-> {}, sock |-> {}]
  /\ \E D \in SUBSET {p \in Pids : cstate[p] = "DEAD"} :
       /\ PromptDelivery => \A p \in D : ~InFlight(p)
       /\ cstate' = [p \in Pids |-> IF p \in D THEN "NONE" ELSE cstate[p]]
       /\ csi' = [p \in Pids |-> IF p \in D THEN SERVICE_NONE ELSE csi[p]]
  /\ UNCHANGED <<svcVars, idx, todo, sigVars, procVars, kernVars, boundVars>>

MasterNext ==
  \/ spawn_schedule \/ (\E p \in Pids : ReapOne(p)) \/ ReapDone
  \/ man_service \/ ManDone \/ reread_conf
  \/ SelectReturns \/ SelectInterrupted
  \/ read_service \/ FillOne \/ FillDone \/ child_janitor

-----------------------------------------------------------------------------
(* The service process (service.c, service-thread.c)                       *)

\* exit() in process p: the kernel makes it a zombie and signals master.
Exit(p) ==
  /\ pst' = [pst EXCEPT ![p] = "zombie"]
  /\ use_count' = [use_count EXCEPT ![p] = 0]
  /\ gotsigchld' = TRUE

\* notify_master: blocks while the pipe is full; a message on a pipe master
\* has replaced is never read.
notify_master(p, m) ==
  LET s == psi[p] IN
  IF linked[p]
  THEN /\ Len(pipe[s]) < PIPE_CAP
       /\ pipe' = [pipe EXCEPT ![s] = Append(@, [msg |-> m, pid |-> p])]
  ELSE pipe' = pipe

\* exec and service_init succeed; getlockfd
service_init(p) ==
  /\ pst[p] = "start"
  /\ pst' = [pst EXCEPT ![p] = "idle"]
  /\ UNCHANGED <<svcVars, tblVars, ctlVars, sigVars, psi, use_count, hup,
                 linked, kernVars, boundVars>>

\* accept() returns a connection (accept is serialised by lockaccept; which of
\* the idle processes holds the lock is left open).
Accept(p) ==
  /\ pst[p] = "idle" /\ ~hup[p] /\ psi[p] \notin Multi
  /\ backlog[psi[p]] > 0
  /\ backlog' = [backlog EXCEPT ![psi[p]] = @ - 1]
  /\ pst' = [pst EXCEPT ![p] = "accepted"]
  /\ UNCHANGED <<svcVars, tblVars, ctlVars, sigVars, psi, use_count, hup,
                 linked, pipe, boundVars>>

\* libwrap_ask refuses the peer: the process goes back to accept().
Deny(p) ==
  /\ pst[p] = "accepted"
  /\ pst' = [pst EXCEPT ![p] = "idle"]
  /\ UNCHANGED <<svcVars, tblVars, ctlVars, sigVars, psi, use_count, hup,
                 linked, kernVars, boundVars>>

TellBusy(p) ==
  /\ pst[p] = "accepted"
  /\ notify_master(p, "UNAVAILABLE")
  /\ pst' = [pst EXCEPT ![p] = "told"]
  /\ UNCHANGED <<svcVars, tblVars, ctlVars, sigVars, psi, use_count, hup,
                 linked, backlog, boundVars>>

TellConnection(p) ==
  /\ pst[p] = "told"
  /\ notify_master(p, "CONNECTION")
  /\ pst' = [pst EXCEPT ![p] = "serving"]
  /\ use_count' = [use_count EXCEPT ![p] = @ + 1]
  /\ UNCHANGED <<svcVars, tblVars, ctlVars, sigVars, psi, hup, linked,
                 backlog, boundVars>>

\* Mutant: the process listens again without reporting AVAILABLE.
ServedSilently(p) ==
  /\ pst[p] = "serving"
  /\ IF hup[p] \/ use_count[p] >= MAX_USE
     THEN Exit(p)
     ELSE /\ pst' = [pst EXCEPT ![p] = "idle"]
          /\ UNCHANGED <<gotsigchld, use_count>>
  /\ UNCHANGED <<svcVars, tblVars, ctlVars, gotsighup, psi, hup, linked,
                 kernVars, boundVars>>

\* service_main returns: leave after a SIGHUP or max_use connections,
\* otherwise report AVAILABLE and listen again.
Served(p) ==
  /\ pst[p] = "serving"
  /\ IF hup[p] \/ use_count[p] >= MAX_USE
     THEN Exit(p) /\ UNCHANGED pipe
     ELSE /\ notify_master(p, "AVAILABLE")
          /\ pst' = [pst EXCEPT ![p] = "idle"]
          /\ UNCHANGED <<gotsigchld, use_count>>
  /\ UNCHANGED <<svcVars, tblVars, ctlVars, gotsighup, psi, hup, linked,
                 backlog, boundVars>>

\* service-thread.c: hand the connection to a thread and accept again, or
\* refuse the peer without a word to master.
AcceptMulti(p) ==
  /\ pst[p] = "idle" /\ ~hup[p] /\ psi[p] \in Multi
  /\ backlog[psi[p]] > 0
  /\ backlog' = [backlog EXCEPT ![psi[p]] = @ - 1]
  /\ notify_master(p, "CONNECTION_MULTI") \/ UNCHANGED pipe
  /\ UNCHANGED <<svcVars, tblVars, ctlVars, sigVars, procVars, boundVars>>

\* Mutant: the SIGHUP handler does not interrupt accept().
QuitEventOnly(p) ==
  /\ pst[p] = "event"
  /\ Exit(p)
  /\ UNCHANGED <<svcVars, tblVars, ctlVars, gotsighup, psi, hup, linked,
                 kernVars, boundVars>>

\* A SIGHUP, or the shut down socket, ends a process that is not serving; an
\* event's command ends by itself.
Quit(p) ==
  /\ (pst[p] \in {"start", "idle"} /\ hup[p]) \/ pst[p] = "event"
  /\ Exit(p)
  /\ UNCHANGED <<svcVars, tblVars, ctlVars, gotsighup, psi, hup, linked,
                 kernVars, boundVars>>

\* The reuse alarm: an idle process that has served a client gives up waiting.
Timeout(p) ==
  /\ pst[p] = "idle" /\ use_count[p] > 0 /\ psi[p] \notin Multi
  /\ Exit(p)
  /\ UNCHANGED <<svcVars, tblVars, ctlVars, gotsighup, psi, hup, linked,
                 kernVars, boundVars>>

\* A fault, a failed start, a replaced program file ("process file has changed"):
\* the process ends wherever it is.
Crash(p) ==
  /\ pst[p] \in Alive \ {"event"} /\ crashes < MaxCrashes
  /\ Exit(p) /\ crashes' = crashes + 1
  /\ UNCHANGED <<svcVars, tblVars, ctlVars, gotsighup, psi, hup, linked,
                 kernVars, events, refusals, hups>>

\* What a process does by itself if it is let run.
ProcNext(p) == \/ service_init(p) \/ Accept(p) \/ TellBusy(p)
               \/ TellConnection(p) \/ Served(p) \/ AcceptMulti(p) \/ Quit(p)

-----------------------------------------------------------------------------
(* Clients and the administrator                                           *)

Connect(s) ==
  /\ status[s] = "enabled" /\ backlog[s] < LISTEN_BACKLOG
  /\ backlog' = [backlog EXCEPT ![s] = @ + 1]
  /\ UNCHANGED <<svcVars, tblVars, ctlVars, sigVars, procVars, pipe, boundVars>>

SigHup ==
  /\ hups < MaxHups /\ hups' = hups + 1
  /\ gotsighup' = TRUE
  /\ UNCHANGED <<svcVars, tblVars, ctlVars, gotsigchld, procVars, kernVars,
                 events, refusals, crashes>>

Next == \/ MasterNext
        \/ \E p \in Pids : ProcNext(p) \/ Deny(p) \/ Timeout(p) \/ Crash(p)
        \/ \E s \in Services : Connect(s)
        \/ SigHup

Spec == Init /\ [][Next]_vars

(* Fairness.  Master's loop never blocks for good: select() has a timeout.  *)
(* A process that can go on goes on; imapd, pop3d, ... close a connection   *)
(* that stays silent, so service_main returns.  Nothing is assumed of       *)
(* clients, SIGHUP, alarms, crashes or refused forks.                       *)
FairSpec == /\ Spec
            /\ WF_vars(MasterNext)
            /\ \A p \in Pids : WF_vars(ProcNext(p))

-----------------------------------------------------------------------------
(* Properties                                                              *)

Pcs == {"top", "reap", "man", "hup", "select", "read", "fill"}

\* Every variable holds a value of its C type: counters are ints, a child table
\* entry has one of the service_state values, a pipe holds whole messages.
TypeOK ==
  /\ status \in [Services -> {"enabled", "draining", "removed"}]
  /\ ready_workers \in [Services -> Int]
  /\ nactive \in [Services -> Int]
  /\ imap_count \in [ImapServices -> Int]
  /\ forkfails \in [Services -> Nat]
  /\ cstate \in [Pids -> States \cup {"NONE"}]
  /\ csi \in [Pids -> Services \cup {SERVICE_NONE}]
  /\ pc \in Pcs
  /\ idx \in 1..(NServices + 1)
  /\ todo \in Nat
  /\ rfds \in [stat : SUBSET Services, sock : SUBSET Services]
  /\ gotsigchld \in BOOLEAN
  /\ gotsighup \in BOOLEAN
  /\ pst \in [Pids -> Alive \cup {"none", "zombie"}]
  /\ psi \in [Pids -> Services \cup {SERVICE_NONE}]
  /\ use_count \in [Pids -> Nat]
  /\ hup \in [Pids -> BOOLEAN]
  /\ linked \in [Pids -> BOOLEAN]
  /\ pipe \in [Services -> Seq(Msg)]
  /\ backlog \in [Services -> Nat]
  /\ events \in Nat
  /\ refusals \in Nat
  /\ hups \in Nat
  /\ crashes \in Nat

ReadyEntries(s) == {p \in Pids : cstate[p] = "READY" /\ csi[p] = s}
Processes(s)    == {p \in Pids : pst[p] # "none" /\ psi[p] = s}

\* ready_workers, which spawn_service, process_msg and reap_child each adjust by
\* one, is the number of READY entries of the service in the child table: no
\* order of messages, deaths and reaping counts a worker twice or drops one.
ReadyCount ==
  \A s \in Services : ready_workers[s] = Cardinality(ReadyEntries(s))

\* nactive, adjusted by spawn_service and reap_child through the child table, is
\* the number of processes of the service that exist and are not yet reaped.
ActiveCount ==
  \A s \in Services : nactive[s] = Cardinality(Processes(s))

\* imap_count exceeds the number of imap processes by exactly the forks that
\* failed: spawn_service counts a process before fork() and does not take the
\* count back when fork() returns -1.
ImapDrift ==
  \A s \in ImapServices : imap_count[s] = nactive[s] + forkfails[s]

Largest(a, b) == IF a > b THEN a ELSE b

\* How far the loop after select() can overshoot max_workers: it compares nactive
\* with the limit once, then forks up to desired_workers processes.
WorkerBound ==
  \A s \in Services : nactive[s] < MaxChild[s] + Largest(Prefork[s], 1)

\* The state in which master leaves a child table entry after message m.
Outcome(m) == IF m \in {"UNAVAILABLE", "CONNECTION"} THEN "BUSY" ELSE "READY"

\* What a process is really doing, in the terms of the child table.
TrueState(p) == IF pst[p] \in {"told", "serving"} THEN "BUSY" ELSE "READY"

Last(p) == {i \in DOMAIN pipe[psi[p]] :
              /\ pipe[psi[p]][i].pid = p
              /\ \A j \in DOMAIN pipe[psi[p]] :
                   pipe[psi[p]][j].pid = p => j <= i}

\* Once master has read what is in the pipe, its child table tells what the
\* process is doing: busy between UNAVAILABLE and AVAILABLE, ready otherwise.
MasterView ==
  \A p \in Pids : pst[p] \in Alive \ {"event"} =>
    /\ Last(p) = {} => cstate[p] = TrueState(p)
    /\ \A i \in Last(p) : Outcome(pipe[psi[p]][i].msg) = TrueState(p)

\* A client waiting at an enabled service is not left waiting: as long as there
\* are connections queued, some process of the service keeps accepting them.
ConnectionServed ==
  \A s \in Services :
    \/ []<>(backlog[s] = 0 \/ status[s] # "enabled")
    \/ []<><<\E p \in Pids : psi[p] = s /\ (Accept(p) \/ AcceptMulti(p))>>_vars

\* Every process that has ended is reaped, however its SIGCHLD coalesced with
\* others or fell between the test of gotsigchld and select().
ZombiesReaped == \A p \in Pids : pst[p] = "zombie" ~> pst[p] = "none"

\* A service that reread_conf disabled is removed in the end: all its processes
\* notice the SIGHUP, leave and are reaped, unless it is configured again.
DrainEnds ==
  \A s \in Services : status[s] = "draining" ~> status[s] # "draining"

=============================================================================
