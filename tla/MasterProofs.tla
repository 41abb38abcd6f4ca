---------------------------- MODULE MasterProofs ----------------------------
(* Proofs about Master, for every number of services and processes.        *)
EXTENDS Master, FiniteSetTheorems, TLAPS

-----------------------------------------------------------------------------
(* Type correctness                                                        *)

LEMMA InitType == Init => TypeOK
<1> SUFFICES ASSUME Init PROVE TypeOK
  OBVIOUS
<1> USE DEF Init
<1>1. /\ imap_count \in [ImapServices -> Int]
      /\ idx \in 1..(NServices + 1) /\ todo \in Nat
  BY MasterAssumption
<1>2. pipe \in [Services -> Seq(Msg)]
  OBVIOUS
<1>3. /\ cstate \in [Pids -> States \cup {"NONE"}]
      /\ csi \in [Pids -> Services \cup {SERVICE_NONE}]
      /\ pst \in [Pids -> Alive \cup {"none", "zombie"}]
      /\ psi \in [Pids -> Services \cup {SERVICE_NONE}]
  OBVIOUS
<1>4. /\ hup \in [Pids -> BOOLEAN]
      /\ linked \in [Pids -> BOOLEAN]
      /\ use_count \in [Pids -> Nat]
  OBVIOUS
<1>5. rfds \in [stat : SUBSET Services, sock : SUBSET Services]
  OBVIOUS
<1>6. /\ status \in [Services -> {"enabled", "draining", "removed"}]
      /\ ready_workers \in [Services -> Int]
      /\ nactive \in [Services -> Int]
      /\ forkfails \in [Services -> Nat]
      /\ backlog \in [Services -> Nat]
  OBVIOUS
<1> QED BY <1>1, <1>2, <1>3, <1>4, <1>5, <1>6 DEF TypeOK, Pcs

\* Messages put into and taken from a status pipe keep it a sequence of messages.
LEMMA NotifyType ==
  ASSUME TypeOK, NEW p \in Pids, NEW m \in Messages, notify_master(p, m),
         psi[p] \in Services
  PROVE  pipe' \in [Services -> Seq(Msg)]
<1>1. pipe[psi[p]] \in Seq(Msg) /\ [msg |-> m, pid |-> p] \in Msg
  BY DEF TypeOK, Msg
<1>2. Append(pipe[psi[p]], [msg |-> m, pid |-> p]) \in Seq(Msg)
  BY <1>1
<1> QED BY <1>2 DEF TypeOK, notify_master

\* A fork leaves the child table and the process table well typed.
LEMMA RegisterType ==
  ASSUME TypeOK, NEW p \in Pids, NEW s \in Services \cup {SERVICE_NONE},
         NEW st \in Alive, Register(p, s, st)
  PROVE  /\ cstate' \in [Pids -> States \cup {"NONE"}]
         /\ csi' \in [Pids -> Services \cup {SERVICE_NONE}]
         /\ pst' \in [Pids -> Alive \cup {"none", "zombie"}]
         /\ psi' \in [Pids -> Services \cup {SERVICE_NONE}]
         /\ use_count' \in [Pids -> Nat]
         /\ hup' \in [Pids -> BOOLEAN]
         /\ linked' \in [Pids -> BOOLEAN]
BY DEF TypeOK, Register, States

\* What the three outcomes of spawn_service leave well typed.
LEMMA SpawnType ==
  ASSUME TypeOK, NEW s \in Services, spawn_service(s) \/ NoSpawn
  PROVE  /\ ready_workers' \in [Services -> Int]
         /\ nactive' \in [Services -> Int]
         /\ imap_count' \in [ImapServices -> Int]
         /\ forkfails' \in [Services -> Nat]
         /\ cstate' \in [Pids -> States \cup {"NONE"}]
         /\ csi' \in [Pids -> Services \cup {SERVICE_NONE}]
         /\ pst' \in [Pids -> Alive \cup {"none", "zombie"}]
         /\ psi' \in [Pids -> Services \cup {SERVICE_NONE}]
         /\ use_count' \in [Pids -> Nat]
         /\ hup' \in [Pids -> BOOLEAN]
         /\ linked' \in [Pids -> BOOLEAN]
         /\ refusals' \in Nat
<1> USE DEF TypeOK
<1>1. CASE SpawnFork(s)
  BY <1>1 DEF SpawnFork, Register, CountImap, States, Alive
<1>2. CASE SpawnThrottled(s)
  BY <1>2 DEF SpawnThrottled, tblVars, procVars
<1>3. CASE SpawnFailed(s)
  BY <1>3 DEF SpawnFailed, CountImap, tblVars, procVars
<1>4. CASE NoSpawn
  BY <1>4 DEF NoSpawn, tblVars, procVars
<1> QED BY <1>1, <1>2, <1>3, <1>4 DEF spawn_service

\* A pipe select() found readable still holds a message when its turn comes:
\* only master reads it, and reread_conf and removal run outside this loop.
PipeReady ==
  /\ pc = "read" => \A s \in rfds.stat : s >= idx => pipe[s] # <<>>
  /\ pc = "fill" => idx \in Services /\ \A s \in rfds.stat : s > idx => pipe[s] # <<>>

\* Every process that is not an event's belongs to a service.
Workers == \A p \in Pids : pst[p] \in Alive \ {"event"} => psi[p] \in Services

TypeInv == TypeOK /\ PipeReady /\ Workers

\* What process_msg makes of a child's state is a state, and moves ready_workers
\* by an integer.
LEMMA TransitionType ==
  ASSUME NEW st \in States, NEW m \in Messages
  PROVE  Transition(st, m).st \in States /\ Transition(st, m).ready \in {-1, 0, 1}
BY DEF Transition, States, Messages

\* The head of a pipe that holds something is a message, the rest is a pipe.
LEMMA HeadTail ==
  ASSUME NEW q \in Seq(Msg), q # <<>>
  PROVE  Head(q) \in Msg /\ Tail(q) \in Seq(Msg) /\ Head(q).pid \in Pids
         /\ Head(q).msg \in Messages
<1>1. Head(q) \in Msg /\ Tail(q) \in Seq(Msg)
  OBVIOUS
<1> QED BY <1>1 DEF Msg

LEMMA ScheduleType == ASSUME TypeInv, spawn_schedule PROVE TypeInv'
<1> USE DEF TypeInv, spawn_schedule, svcVars, kernVars
<1>1. /\ cstate' \in [Pids -> States \cup {"NONE"}]
      /\ csi' \in [Pids -> Services \cup {SERVICE_NONE}]
      /\ pst' \in [Pids -> Alive \cup {"none", "zombie"}]
      /\ psi' \in [Pids -> Services \cup {SERVICE_NONE}]
      /\ use_count' \in [Pids -> Nat]
      /\ hup' \in [Pids -> BOOLEAN]
      /\ linked' \in [Pids -> BOOLEAN]
      /\ events' \in Nat
  <2>1. CASE UNCHANGED <<tblVars, procVars, events>>
    BY <2>1 DEF TypeOK, tblVars, procVars
  <2>2. CASE /\ events' = events + 1
             /\ \E p \in Pids : Register(p, SERVICE_NONE, "event")
    <3>1. PICK p \in Pids : Register(p, SERVICE_NONE, "event")
      BY <2>2
    <3>2. "event" \in Alive /\ SERVICE_NONE \in Services \cup {SERVICE_NONE}
      BY DEF Alive
    <3>3. events' \in Nat
      BY <2>2 DEF TypeOK
    <3> HIDE DEF spawn_schedule, TypeInv
    <3>4. TypeOK
      BY DEF TypeInv
    <3> QED BY <3>1, <3>2, <3>3, <3>4, RegisterType
  <2> QED BY <2>1, <2>2
<1>2. idx' \in 1..(NServices + 1) /\ pc' \in Pcs
  BY MasterAssumption DEF TypeOK, Pcs
<1>3. TypeOK'
  BY <1>1, <1>2 DEF TypeOK
<1>4. PipeReady'
  BY DEF PipeReady
<1>5. Workers'
  BY DEF Workers, TypeOK, Register, tblVars, procVars, Alive
<1> QED BY <1>3, <1>4, <1>5

LEMMA ReapOneType == ASSUME TypeInv, NEW p \in Pids, ReapOne(p) PROVE TypeInv'
<1> USE DEF TypeInv, ReapOne, Forget, ctlVars, sigVars, kernVars, boundVars
<1>1. TypeOK'
  BY DEF TypeOK, States, Alive
<1>2. PipeReady'
  BY DEF PipeReady
<1>3. Workers'
  BY DEF Workers, TypeOK, Alive
<1> QED BY <1>1, <1>2, <1>3

LEMMA ManType == ASSUME TypeInv, man_service PROVE TypeInv'
<1> USE DEF TypeInv, man_service, sigVars
<1>1. idx \in Services /\ (spawn_service(idx) \/ NoSpawn)
  OBVIOUS
<1>2. /\ status' \in [Services -> {"enabled", "draining", "removed"}]
      /\ pipe' \in [Services -> Seq(Msg)]
  <2>1. <<>> \in Seq(Msg)
    OBVIOUS
  <2> QED BY <2>1 DEF TypeOK
<1>3. idx' \in 1..(NServices + 1)
  BY <1>1, MasterAssumption DEF Services
<1>4. TypeOK'
  BY <1>1, <1>2, <1>3, SpawnType DEF TypeOK
<1>5. PipeReady'
  BY DEF PipeReady
<1>6. Workers'
  BY <1>1 DEF Workers, TypeOK, spawn_service, SpawnFork, SpawnThrottled,
     SpawnFailed, NoSpawn, Register, procVars, Alive
<1> QED BY <1>4, <1>5, <1>6

\* process_msg leaves the child table and the counters well typed.
LEMMA ProcessMsgType ==
  ASSUME TypeOK, NEW s \in Services, NEW msg \in Msg, process_msg(s, msg)
  PROVE  /\ cstate' \in [Pids -> States \cup {"NONE"}]
         /\ csi' \in [Pids -> Services \cup {SERVICE_NONE}]
         /\ ready_workers' \in [Services -> Int]
<1> DEFINE st == IF cstate[msg.pid] = "NONE" THEN "UNKNOWN" ELSE cstate[msg.pid]
<1>1. msg.pid \in Pids /\ msg.msg \in Messages
  BY DEF Msg
<1>2. st \in States
  BY <1>1 DEF TypeOK, States
<1> DEFINE tr == Transition(st, msg.msg)
<1>3. tr.st \in States /\ tr.ready \in Int
  BY <1>1, <1>2, TransitionType
<1>4. /\ cstate' = [cstate EXCEPT ![msg.pid] = tr.st]
      /\ csi' = [csi EXCEPT ![msg.pid] = s]
      /\ ready_workers' = [ready_workers EXCEPT ![s] = @ + tr.ready]
  BY DEF process_msg
<1> HIDE DEF tr, st
<1> QED BY <1>1, <1>3, <1>4 DEF TypeOK

LEMMA ReadType == ASSUME TypeInv, read_service PROVE TypeInv'
<1> USE DEF TypeInv, read_service, sigVars, procVars, boundVars
<1>1. /\ cstate' \in [Pids -> States \cup {"NONE"}]
      /\ csi' \in [Pids -> Services \cup {SERVICE_NONE}]
      /\ ready_workers' \in [Services -> Int]
      /\ pipe' \in [Services -> Seq(Msg)]
  <2>1. CASE idx \in rfds.stat
    <3>1. pipe[idx] \in Seq(Msg) /\ pipe[idx] # <<>>
      BY <2>1 DEF TypeOK, PipeReady
    <3>2. Head(pipe[idx]) \in Msg /\ Tail(pipe[idx]) \in Seq(Msg)
      BY <3>1, HeadTail
    <3>3. pipe' = [pipe EXCEPT ![idx] = Tail(pipe[idx])]
      BY <2>1
    <3>4. pipe' \in [Services -> Seq(Msg)]
      BY <3>2, <3>3 DEF TypeOK
    <3>5. process_msg(idx, Head(pipe[idx])) /\ idx \in Services
      BY <2>1
    <3> HIDE DEF read_service
    <3> QED BY <3>2, <3>4, <3>5, ProcessMsgType
  <2>2. CASE idx \notin rfds.stat
    BY <2>2 DEF TypeOK
  <2> QED BY <2>1, <2>2
<1>2. todo' \in Nat /\ pc' \in Pcs /\ idx' \in 1..(NServices + 1)
  <2>1. idx \in Services /\ idx \in 1..NServices /\ NServices \in Nat
    BY MasterAssumption DEF Services
  <2>2. Prefork[idx] \in Nat /\ ready_workers'[idx] \in Int
    BY <1>1, <2>1, MasterAssumption
  <2>3. pc' \in Pcs /\ (idx' = idx \/ idx' = idx + 1)
    BY DEF TypeOK, Pcs
  <2>4. todo' \in Nat
    BY <2>2 DEF TypeOK
  <2> QED BY <2>1, <2>3, <2>4
<1>3. TypeOK'
  BY <1>1, <1>2 DEF TypeOK
<1>4. PipeReady'
  <2>1. ASSUME NEW s \in rfds.stat, s > idx PROVE pipe'[s] = pipe[s] /\ pipe[s] # <<>>
    <3>1. s \in Services /\ idx \in Services /\ s # idx
      BY <2>1, MasterAssumption DEF TypeOK, Services
    <3>2. s >= idx
      BY <2>1, <3>1 DEF Services
    <3> QED BY <3>1, <3>2 DEF TypeOK, PipeReady
  <2>2. \A s \in rfds.stat : s \in Int
    BY DEF TypeOK, Services
  <2>3. idx \in Int
    BY DEF Services
  <2>4. CASE pc' = "fill" /\ idx' = idx
    BY <2>1, <2>4 DEF PipeReady
  <2>5. CASE pc' = "read" /\ idx' = idx + 1
    BY <2>1, <2>2, <2>3, <2>5 DEF PipeReady
  <2> QED BY <2>4, <2>5
<1>5. Workers'
  BY DEF Workers
<1> QED BY <1>3, <1>4, <1>5

LEMMA FillType == ASSUME TypeInv, FillOne \/ FillDone PROVE TypeInv'
<1> USE DEF TypeInv, FillOne, FillDone, sigVars, kernVars
<1>1. idx \in Services /\ (spawn_service(idx) \/ NoSpawn)
  BY DEF PipeReady
<1>2. todo' \in Nat /\ pc' \in Pcs /\ idx' \in 1..(NServices + 1)
  <2>1. idx \in 1..NServices /\ NServices \in Nat
    BY <1>1, MasterAssumption DEF Services
  <2>2. todo' \in Nat
    BY DEF TypeOK
  <2>3. pc' \in Pcs /\ (idx' = idx \/ idx' = idx + 1)
    BY DEF Pcs
  <2> QED BY <2>1, <2>2, <2>3
<1>3. TypeOK'
  BY <1>1, <1>2, SpawnType DEF TypeOK
<1>4. PipeReady'
  <2>1. \A s \in rfds.stat : s \in Int
    BY DEF TypeOK, Services
  <2>2. idx \in Int
    BY <1>1 DEF Services
  <2> QED BY <2>1, <2>2 DEF PipeReady
<1>5. Workers'
  BY <1>1 DEF Workers, TypeOK, spawn_service, SpawnFork, SpawnThrottled,
     SpawnFailed, NoSpawn, Register, procVars, Alive
<1> QED BY <1>3, <1>4, <1>5

LEMMA RereadType == ASSUME TypeInv, reread_conf PROVE TypeInv'
<1> USE DEF TypeInv, reread_conf, tblVars, boundVars
<1>1. /\ status' \in [Services -> {"enabled", "draining", "removed"}]
      /\ ready_workers' \in [Services -> Int]
      /\ backlog' \in [Services -> Nat]
  BY DEF TypeOK
<1>2. pipe' \in [Services -> Seq(Msg)]
  <2>1. <<>> \in Seq(Msg)
    OBVIOUS
  <2> QED BY <2>1 DEF TypeOK
<1>3. hup' \in [Pids -> BOOLEAN] /\ linked' \in [Pids -> BOOLEAN]
  BY DEF TypeOK
<1>4. TypeOK'
  BY <1>1, <1>2, <1>3 DEF TypeOK, Pcs
<1>5. PipeReady' /\ Workers'
  BY DEF PipeReady, Workers
<1> QED BY <1>4, <1>5

LEMMA SelectType == ASSUME TypeInv, SelectReturns PROVE TypeInv'
<1> USE DEF TypeInv, SelectReturns, svcVars, tblVars, sigVars, procVars,
        kernVars, boundVars
<1>1. idx' \in 1..(NServices + 1) /\ pc' \in Pcs
  BY MasterAssumption DEF Pcs
<1>2. rfds' \in [stat : SUBSET Services, sock : SUBSET Services]
  OBVIOUS
<1>3. TypeOK'
  BY <1>1, <1>2 DEF TypeOK
<1>4. PipeReady' /\ Workers'
  BY DEF PipeReady, Workers
<1> QED BY <1>3, <1>4

\* The steps of the main loop that only move its program counter.
LEMMA ControlType ==
  ASSUME TypeInv, ReapDone \/ ManDone \/ SelectInterrupted
  PROVE  TypeInv'
<1> USE DEF TypeInv, ReapDone, ManDone, SelectInterrupted, svcVars, tblVars,
        sigVars, procVars, kernVars, boundVars
<1>1. TypeOK'
  BY DEF TypeOK, Pcs
<1>2. PipeReady' /\ Workers'
  BY DEF PipeReady, Workers
<1> QED BY <1>1, <1>2

LEMMA JanitorType == ASSUME TypeInv, child_janitor PROVE TypeInv'
<1> USE DEF TypeInv, child_janitor, svcVars, sigVars, procVars, kernVars, boundVars
<1>1. /\ cstate' \in [Pids -> States \cup {"NONE"}]
      /\ csi' \in [Pids -> Services \cup {SERVICE_NONE}]
  BY DEF TypeOK
<1>2. rfds' \in [stat : SUBSET Services, sock : SUBSET Services]
  OBVIOUS
<1>3. TypeOK'
  BY <1>1, <1>2 DEF TypeOK, Pcs
<1>4. PipeReady' /\ Workers'
  BY DEF PipeReady, Workers
<1> QED BY <1>3, <1>4

\* A message written to a pipe does not empty any other.
LEMMA NotifyReady ==
  ASSUME TypeInv, NEW p \in Pids, NEW m \in Messages, notify_master(p, m),
         psi[p] \in Services, UNCHANGED ctlVars
  PROVE  PipeReady'
<1>1. \A s \in Services : pipe[s] # <<>> => pipe'[s] # <<>>
  <2> SUFFICES ASSUME NEW s \in Services, pipe[s] # <<>> PROVE pipe'[s] # <<>>
    OBVIOUS
  <2>1. pipe[s] \in Seq(Msg)
    BY DEF TypeInv, TypeOK
  <2>2. pipe'[s] = pipe[s] \/ pipe'[s] = Append(pipe[s], [msg |-> m, pid |-> p])
    BY DEF TypeInv, TypeOK, notify_master
  <2>3. Append(pipe[s], [msg |-> m, pid |-> p]) # <<>>
    BY <2>1
  <2> QED BY <2>2, <2>3
<1>2. rfds.stat \subseteq Services
  BY DEF TypeInv, TypeOK
<1> QED BY <1>1, <1>2 DEF TypeInv, PipeReady, ctlVars

\* The steps of a process that write to its status pipe.
LEMMA NotifyStepType ==
  ASSUME TypeInv, NEW p \in Pids,
         TellBusy(p) \/ TellConnection(p) \/ AcceptMulti(p)
  PROVE  TypeInv'
<1> USE DEF TypeInv, TellBusy, TellConnection, AcceptMulti, svcVars, tblVars,
        sigVars, boundVars, procVars
<1>1. psi[p] \in Services
  BY DEF Workers, Alive
<1>2. /\ \/ \E m \in Messages : notify_master(p, m)
         \/ pipe' = pipe
      /\ UNCHANGED ctlVars
  BY DEF Messages
<1>3. PipeReady' /\ pipe' \in [Services -> Seq(Msg)]
  <2>1. CASE pipe' = pipe
    BY <1>2, <2>1 DEF PipeReady, TypeOK, ctlVars
  <2>2. CASE \E m \in Messages : notify_master(p, m)
    BY <1>1, <1>2, <2>2, NotifyReady, NotifyType
  <2> QED BY <1>2, <2>1, <2>2
<1>4. pst' \in [Pids -> Alive \cup {"none", "zombie"}]
  BY DEF TypeOK, Alive
<1>5. use_count' \in [Pids -> Nat] /\ backlog' \in [Services -> Nat]
  <2>1. use_count[p] \in Nat /\ backlog[psi[p]] \in Nat
    BY <1>1 DEF TypeOK
  <2>2. use_count' = use_count \/ use_count' = [use_count EXCEPT ![p] = use_count[p] + 1]
    OBVIOUS
  <2>3. \/ backlog' = backlog
        \/ /\ backlog[psi[p]] > 0
           /\ backlog' = [backlog EXCEPT ![psi[p]] = backlog[psi[p]] - 1]
    OBVIOUS
  <2> HIDE DEF TellBusy, TellConnection, AcceptMulti
  <2>4. use_count' \in [Pids -> Nat]
    BY <2>1, <2>2 DEF TypeOK
  <2>5. backlog' \in [Services -> Nat]
    <3>1. backlog \in [Services -> Nat]
      BY DEF TypeOK
    <3>2. backlog[psi[p]] > 0 => backlog[psi[p]] - 1 \in Nat
      BY <2>1
    <3> HIDE DEF TypeInv
    <3> QED BY <1>1, <2>3, <3>1, <3>2
  <2> QED BY <2>4, <2>5
<1>6. TypeOK'
  BY <1>2, <1>3, <1>4, <1>5 DEF TypeOK, ctlVars
<1>7. Workers'
  BY DEF Workers, TypeOK, Alive
<1> QED BY <1>3, <1>6, <1>7

\* The steps of a process that leave its status pipe alone.
LEMMA QuietStepType ==
  ASSUME TypeInv, NEW p \in Pids,
         \/ service_init(p) \/ Accept(p) \/ Deny(p) \/ Quit(p) \/ Timeout(p)
         \/ Crash(p)
  PROVE  TypeInv'
<1> USE DEF TypeInv, service_init, Accept, Deny, Quit, Timeout, Crash, Exit,
        svcVars, tblVars, ctlVars, sigVars, kernVars, boundVars
<1>1. pst' \in [Pids -> Alive \cup {"none", "zombie"}]
  BY DEF TypeOK, Alive
<1>2. /\ use_count' \in [Pids -> Nat] /\ backlog' \in [Services -> Nat]
      /\ crashes' \in Nat /\ gotsigchld' \in BOOLEAN /\ gotsighup' \in BOOLEAN
  <2>1. crashes' \in Nat
    BY DEF TypeOK
  <2>2. use_count' \in [Pids -> Nat]
    BY DEF TypeOK
  <2>3. gotsigchld' \in BOOLEAN /\ gotsighup' \in BOOLEAN
    BY DEF TypeOK
  <2>4. \/ backlog' = backlog
        \/ /\ psi[p] \in Services /\ backlog[psi[p]] > 0
           /\ backlog' = [backlog EXCEPT ![psi[p]] = backlog[psi[p]] - 1]
    BY DEF Workers, Alive
  <2> HIDE DEF service_init, Accept, Deny, Quit, Timeout, Crash
  <2>5. backlog' \in [Services -> Nat]
    BY <2>4 DEF TypeOK
  <2> QED BY <2>1, <2>2, <2>3, <2>5
<1>3. TypeOK'
  BY <1>1, <1>2 DEF TypeOK
<1>4. PipeReady'
  BY DEF PipeReady
<1>5. Workers'
  BY DEF Workers, TypeOK, Alive
<1> QED BY <1>3, <1>4, <1>5

LEMMA ServedType == ASSUME TypeInv, NEW p \in Pids, Served(p) PROVE TypeInv'
<1> USE DEF TypeInv, Served, svcVars, tblVars, boundVars
<1>1. psi[p] \in Services
  BY DEF Workers, Alive
<1>2. PipeReady' /\ pipe' \in [Services -> Seq(Msg)]
  <2>1. CASE pipe' = pipe
    BY <2>1 DEF TypeOK, PipeReady, ctlVars
  <2>2. CASE notify_master(p, "AVAILABLE")
    <3>1. "AVAILABLE" \in Messages /\ UNCHANGED ctlVars
      BY DEF Messages
    <3> QED BY <1>1, <2>2, <3>1, NotifyReady, NotifyType
  <2> QED BY <2>1, <2>2
<1>3. /\ pst' \in [Pids -> Alive \cup {"none", "zombie"}]
      /\ \/ use_count' = use_count
         \/ use_count' = [use_count EXCEPT ![p] = 0]
      /\ gotsigchld' \in {gotsigchld, TRUE}
  <2>1. CASE hup[p] \/ use_count[p] >= MAX_USE
    BY <2>1 DEF TypeOK, Alive, Exit
  <2>2. CASE ~(hup[p] \/ use_count[p] >= MAX_USE)
    BY <2>2 DEF TypeOK, Alive
  <2> QED BY <2>1, <2>2
<1>4. use_count' \in [Pids -> Nat] /\ gotsigchld' \in BOOLEAN
  <2> HIDE DEF Served
  <2>1. use_count' \in [Pids -> Nat]
    <3>1. use_count \in [Pids -> Nat]
      BY DEF TypeOK
    <3> HIDE DEF TypeInv
    <3> QED BY <1>3, <3>1
  <2>2. gotsigchld' \in BOOLEAN
    BY <1>3, Zenon DEF TypeOK
  <2> QED BY <2>1, <2>2
<1>5. TypeOK'
  BY <1>2, <1>3, <1>4 DEF TypeOK, ctlVars
<1>6. Workers'
  BY DEF Workers, TypeOK, Alive, Exit
<1> QED BY <1>2, <1>5, <1>6

\* Clients and signals.
LEMMA EnvType ==
  ASSUME TypeInv, SigHup \/ \E s \in Services : Connect(s)
  PROVE  TypeInv'
<1> USE DEF TypeInv, SigHup, Connect, svcVars, tblVars, ctlVars, sigVars,
        procVars, kernVars, boundVars
<1>1. backlog' \in [Services -> Nat] /\ hups' \in Nat
  <2>1. CASE SigHup
    BY <2>1 DEF TypeOK
  <2>2. CASE \E s \in Services : Connect(s)
    BY <2>2 DEF TypeOK
  <2> QED BY <2>1, <2>2
<1>2. TypeOK'
  BY <1>1 DEF TypeOK
<1>3. PipeReady' /\ Workers'
  BY DEF PipeReady, Workers
<1> QED BY <1>2, <1>3

LEMMA TypeStep == TypeInv /\ [Next]_vars => TypeInv'
<1> SUFFICES ASSUME TypeInv, [Next]_vars PROVE TypeInv'
  OBVIOUS
<1>1. CASE MasterNext
  BY <1>1, ScheduleType, ReapOneType, ControlType, ManType, RereadType,
     SelectType, ReadType, FillType, JanitorType DEF MasterNext
<1>2. ASSUME NEW p \in Pids, ProcNext(p) \/ Deny(p) \/ Timeout(p) \/ Crash(p)
      PROVE  TypeInv'
  BY <1>2, NotifyStepType, QuietStepType, ServedType DEF ProcNext
<1>3. CASE SigHup \/ \E s \in Services : Connect(s)
  BY <1>3, EnvType
<1>4. CASE UNCHANGED vars
  BY <1>4 DEF TypeInv, TypeOK, PipeReady, Workers, vars, svcVars, tblVars,
     ctlVars, sigVars, procVars, kernVars, boundVars
<1> QED BY <1>1, <1>2, <1>3, <1>4 DEF Next

LEMMA InitTypeInv == Init => TypeInv
BY InitType DEF TypeInv, Init, PipeReady, Workers, Alive

LEMMA TypeInvariant == Spec => []TypeInv
BY InitTypeInv, TypeStep, PTL DEF Spec

\* Type correctness of master and its processes, whatever the configuration,
\* the number of processes and the order of messages, deaths and signals.  It
\* needs PipeReady: process_msg is never handed the head of an empty pipe.
THEOREM TypeCorrect == Spec => []TypeOK
BY TypeInvariant, PTL DEF TypeInv

=============================================================================
