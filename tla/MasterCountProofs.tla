------------------------- MODULE MasterCountProofs --------------------------
(* The counters of master agree with the processes they count.             *)
EXTENDS MasterProofs, WellFoundedInduction

\* The two conditions under which the counters are exact: master reads what a
\* process wrote before its pid is purged or used again, and a service is not
\* configured again while it drains.
Regular == PromptDelivery /\ ~RecycleDraining

-----------------------------------------------------------------------------
(* The inductive invariant                                                 *)

\* The child table holds a READY or BUSY entry for exactly the processes that
\* exist, under the service that started them.
TableInv ==
  \A p \in Pids :
    /\ pst[p] = "none" => cstate[p] \in {"NONE", "DEAD"}
    /\ pst[p] # "none" => cstate[p] \in {"READY", "BUSY"} /\ csi[p] = psi[p]

\* A message still in a pipe has an entry of that service to be applied to.
PipeInv ==
  \A s \in Services : \A i \in DOMAIN pipe[s] :
    csi[pipe[s][i].pid] = s /\ cstate[pipe[s][i].pid] # "NONE"

\* A removed service has no process.
RemovedInv ==
  \A s \in Services : status[s] = "removed" => Processes(s) = {}

\* While the loop after select() forks workers for service idx, the forks still
\* to come and the head start of nactive over ready_workers are bounded.
FillInv ==
  pc = "fill" =>
    /\ idx \in Services /\ status[idx] = "enabled"
    /\ nactive[idx] + todo < MaxChild[idx] + Largest(Prefork[idx], 1)
    /\ nactive[idx] - ready_workers[idx] < MaxChild[idx]

CoreInv == /\ TableInv /\ ReadyCount /\ ActiveCount /\ ImapDrift
           /\ RemovedInv /\ FillInv /\ WorkerBound

CountInv == TypeInv /\ CoreInv /\ PipeInv

-----------------------------------------------------------------------------
(* Counting                                                                *)

\* Two subsets of a finite set that differ at most in p.
LEMMA PointChange ==
  ASSUME NEW S \in SUBSET Pids, NEW T \in SUBSET Pids, NEW p \in Pids,
         \A q \in Pids : q # p => (q \in S <=> q \in T)
  PROVE  /\ Cardinality(S) \in Nat /\ Cardinality(T) \in Nat
         /\ p \in T /\ p \notin S => Cardinality(T) = Cardinality(S) + 1
         /\ p \in S /\ p \notin T => Cardinality(T) = Cardinality(S) - 1
         /\ (p \in S <=> p \in T) => Cardinality(T) = Cardinality(S)
<1>1. IsFiniteSet(S) /\ IsFiniteSet(T)
  BY MasterAssumption, FS_Subset
<1>2. Cardinality(S) \in Nat /\ Cardinality(T) \in Nat
  BY <1>1, FS_CardinalityType
<1>3. ASSUME p \in T, p \notin S PROVE Cardinality(T) = Cardinality(S) + 1
  <2>1. T = S \cup {p}
    BY <1>3
  <2> QED BY <1>1, <1>3, <2>1, FS_AddElement
<1>4. ASSUME p \in S, p \notin T PROVE Cardinality(T) = Cardinality(S) - 1
  <2>1. T = S \ {p}
    BY <1>4
  <2> QED BY <1>1, <1>4, <2>1, FS_RemoveElement
<1>5. ASSUME p \in S <=> p \in T PROVE Cardinality(T) = Cardinality(S)
  <2>1. S = T
    BY <1>5
  <2> QED BY <2>1
<1> QED BY <1>2, <1>3, <1>4, <1>5

\* The counters are natural numbers.
LEMMA CountsNat ==
  ASSUME ReadyCount, ActiveCount, NEW s \in Services
  PROVE  ready_workers[s] \in Nat /\ nactive[s] \in Nat
<1>1. ReadyEntries(s) \subseteq Pids /\ Processes(s) \subseteq Pids
  BY DEF ReadyEntries, Processes
<1>2. Cardinality(ReadyEntries(s)) \in Nat /\ Cardinality(Processes(s)) \in Nat
  BY <1>1, MasterAssumption, FS_Subset, FS_CardinalityType
<1> QED BY <1>2 DEF ReadyCount, ActiveCount

LEMMA NoProcess ==
  ASSUME ActiveCount, NEW s \in Services, nactive[s] = 0
  PROVE  Processes(s) = {}
<1>1. Processes(s) \subseteq Pids
  BY DEF Processes
<1>2. IsFiniteSet(Processes(s)) /\ Cardinality(Processes(s)) = 0
  BY <1>1, MasterAssumption, FS_Subset DEF ActiveCount
<1> QED BY <1>2, FS_EmptySet

-----------------------------------------------------------------------------
(* Steps that leave the child table and the counters alone                 *)

\* CoreInv depends on a process only through its existence and its service.
LEMMA CoreFrame ==
  ASSUME CoreInv, UNCHANGED <<cstate, csi, psi, svcVars>>,
         \A p \in Pids : pst'[p] = "none" <=> pst[p] = "none",
         FillInv'
  PROVE  CoreInv'
<1>1. TableInv'
  BY DEF CoreInv, TableInv
<1>2. \A s \in Services : /\ ReadyEntries(s)' = ReadyEntries(s)
                          /\ Processes(s)' = Processes(s)
  BY DEF ReadyEntries, Processes
<1>3. ReadyCount' /\ ActiveCount' /\ ImapDrift' /\ RemovedInv' /\ WorkerBound'
  BY <1>2 DEF CoreInv, svcVars, ReadyCount, ActiveCount, ImapDrift, RemovedInv,
     WorkerBound
<1> QED BY <1>1, <1>3 DEF CoreInv

\* FillInv where neither the loop nor the counters moved.
LEMMA FillFrame ==
  ASSUME FillInv, UNCHANGED <<svcVars, ctlVars>>
  PROVE  FillInv'
BY DEF FillInv, svcVars, ctlVars

\* PipeInv where the pipes and the child table stayed.
LEMMA PipeFrame ==
  ASSUME PipeInv, UNCHANGED <<cstate, csi, pipe>>
  PROVE  PipeInv'
BY DEF PipeInv

LEMMA NotifyPipe ==
  ASSUME CountInv, NEW p \in Pids, NEW m \in Messages, notify_master(p, m),
         psi[p] \in Services, pst[p] # "none", UNCHANGED tblVars
  PROVE  PipeInv'
<1> DEFINE e == [msg |-> m, pid |-> p]
<1>1. csi[p] = psi[p] /\ cstate[p] # "NONE"
  BY DEF CountInv, CoreInv, TableInv
<1> SUFFICES ASSUME NEW s \in Services, NEW i \in DOMAIN (pipe'[s])
             PROVE  /\ csi[pipe'[s][i].pid] = s
                    /\ cstate[pipe'[s][i].pid] # "NONE"
  BY DEF PipeInv, tblVars
<1>2. pipe[s] \in Seq(Msg)
  BY DEF CountInv, TypeInv, TypeOK
<1>3. CASE pipe'[s] = pipe[s]
  BY <1>3 DEF CountInv, PipeInv
<1>4. CASE s = psi[p] /\ pipe'[s] = Append(pipe[s], e)
  <2>1. \/ i \in DOMAIN pipe[s] /\ pipe'[s][i] = pipe[s][i]
        \/ pipe'[s][i] = e
    BY <1>2, <1>4
  <2> QED BY <1>1, <1>4, <2>1 DEF CountInv, PipeInv
<1>5. pipe'[s] = pipe[s] \/ (s = psi[p] /\ pipe'[s] = Append(pipe[s], e))
  BY DEF notify_master, CountInv, TypeInv, TypeOK
<1> QED BY <1>3, <1>4, <1>5

LEMMA NotifyStepCount ==
  ASSUME CountInv, NEW p \in Pids,
         TellBusy(p) \/ TellConnection(p) \/ AcceptMulti(p)
  PROVE  CountInv'
<1> USE DEF TellBusy, TellConnection, AcceptMulti
<1>1. TypeInv'
  BY NotifyStepType DEF CountInv
<1>2. /\ psi[p] \in Services /\ pst[p] # "none"
      /\ UNCHANGED <<tblVars, svcVars, ctlVars, psi>>
  BY DEF CountInv, TypeInv, Workers, Alive, procVars
<1>3. (\E m \in Messages : notify_master(p, m)) \/ UNCHANGED pipe
  BY DEF Messages
<1>4. PipeInv'
  <2>1. CASE UNCHANGED pipe
    BY <1>2, <2>1, PipeFrame DEF CountInv, tblVars
  <2>2. CASE \E m \in Messages : notify_master(p, m)
    BY <1>2, <2>2, NotifyPipe
  <2> QED BY <1>3, <2>1, <2>2
<1>5. \A q \in Pids : pst'[q] = "none" <=> pst[q] = "none"
  BY DEF CountInv, TypeInv, TypeOK, procVars
<1>6. CoreInv'
  BY <1>2, <1>5, FillFrame, CoreFrame DEF CountInv, CoreInv, tblVars
<1> QED BY <1>1, <1>4, <1>6 DEF CountInv

LEMMA QuietStepCount ==
  ASSUME CountInv, NEW p \in Pids,
         \/ service_init(p) \/ Accept(p) \/ Deny(p) \/ Quit(p) \/ Timeout(p)
         \/ Crash(p)
  PROVE  CountInv'
<1> USE DEF service_init, Accept, Deny, Quit, Timeout, Crash, Exit
<1>1. TypeInv'
  BY QuietStepType DEF CountInv
<1>2. UNCHANGED <<tblVars, svcVars, ctlVars, psi, pipe>>
  BY DEF kernVars
<1>3. \A q \in Pids : pst'[q] = "none" <=> pst[q] = "none"
  BY DEF CountInv, TypeInv, TypeOK, Alive
<1>4. CoreInv' /\ PipeInv'
  BY <1>2, <1>3, FillFrame, CoreFrame, PipeFrame DEF CountInv, CoreInv, tblVars
<1> QED BY <1>1, <1>4 DEF CountInv

LEMMA ServedCount ==
  ASSUME CountInv, NEW p \in Pids, Served(p)
  PROVE  CountInv'
<1> USE DEF Served, Exit
<1>1. TypeInv'
  BY ServedType DEF CountInv
<1>2. /\ psi[p] \in Services /\ pst[p] # "none"
      /\ UNCHANGED <<tblVars, svcVars, ctlVars, psi>>
  BY DEF CountInv, TypeInv, Workers, Alive
<1>3. PipeInv'
  <2>1. CASE UNCHANGED pipe
    BY <1>2, <2>1, PipeFrame DEF CountInv, tblVars
  <2>2. CASE notify_master(p, "AVAILABLE")
    BY <1>2, <2>2, NotifyPipe DEF Messages
  <2> QED BY <2>1, <2>2
<1>4. \A q \in Pids : pst'[q] = "none" <=> pst[q] = "none"
  BY DEF CountInv, TypeInv, TypeOK
<1>5. CoreInv'
  BY <1>2, <1>4, FillFrame, CoreFrame DEF CountInv, CoreInv, tblVars
<1> QED BY <1>1, <1>3, <1>5 DEF CountInv

LEMMA EnvCount ==
  ASSUME CountInv, SigHup \/ \E s \in Services : Connect(s)
  PROVE  CountInv'
<1>1. TypeInv'
  BY EnvType DEF CountInv
<1>2. UNCHANGED <<tblVars, svcVars, ctlVars, procVars, pipe>>
  BY DEF SigHup, Connect, kernVars
<1>3. CoreInv' /\ PipeInv'
  BY <1>2, FillFrame, CoreFrame, PipeFrame
     DEF CountInv, CoreInv, tblVars, procVars
<1> QED BY <1>1, <1>3 DEF CountInv

LEMMA ControlCount ==
  ASSUME CountInv, ReapDone \/ ManDone \/ SelectInterrupted \/ SelectReturns
  PROVE  CountInv'
<1> USE DEF ReapDone, ManDone, SelectInterrupted, SelectReturns
<1>1. TypeInv'
  BY ControlType, SelectType DEF CountInv
<1>2. UNCHANGED <<tblVars, svcVars, procVars, pipe>> /\ pc' # "fill"
  BY DEF kernVars
<1>3. CoreInv' /\ PipeInv'
  BY <1>2, CoreFrame, PipeFrame
     DEF CountInv, CoreInv, FillInv, tblVars, procVars
<1> QED BY <1>1, <1>3 DEF CountInv

-----------------------------------------------------------------------------
(* Forks                                                                   *)

\* A fork adds a READY entry and a process to its own service and to no other,
\* and no message in a pipe names the new process.
LEMMA RegisterCount ==
  ASSUME CountInv, Regular, NEW p \in Pids, Unused(p), NEW st \in Alive,
         NEW si \in Services \cup {SERVICE_NONE}, Register(p, si, st)
  PROVE  /\ TableInv'
         /\ pipe' = pipe => PipeInv'
         /\ \A s \in Services :
              /\ Cardinality(ReadyEntries(s)') =
                   Cardinality(ReadyEntries(s)) + (IF s = si THEN 1 ELSE 0)
              /\ Cardinality(Processes(s)') =
                   Cardinality(Processes(s)) + (IF s = si THEN 1 ELSE 0)
              /\ s # si => Processes(s)' = Processes(s)
<1> USE DEF CountInv, CoreInv, TypeInv
<1>1. /\ \A q \in Pids : q # p => /\ cstate'[q] = cstate[q] /\ csi'[q] = csi[q]
                                  /\ pst'[q] = pst[q] /\ psi'[q] = psi[q]
      /\ cstate'[p] = "READY" /\ csi'[p] = si /\ pst'[p] = st /\ psi'[p] = si
  BY DEF Register, TypeOK
<1>2. /\ st # "none" /\ pst[p] = "none" /\ cstate[p] # "READY" /\ ~InFlight(p)
  BY DEF Alive, Unused, Regular, TableInv
<1>3. TableInv'
  BY <1>1, <1>2 DEF TableInv
<1>4. ASSUME pipe' = pipe PROVE PipeInv'
  <2> SUFFICES ASSUME NEW s \in Services, NEW i \in DOMAIN pipe[s]
               PROVE  /\ csi'[pipe[s][i].pid] = s
                      /\ cstate'[pipe[s][i].pid] # "NONE"
    BY <1>4 DEF PipeInv
  <2>1. pipe[s] \in Seq(Msg)
    BY DEF TypeOK
  <2>2. pipe[s][i] \in Msg
    BY <2>1
  <2>3. pipe[s][i].pid \in Pids /\ pipe[s][i].pid # p
    BY <1>2, <2>2 DEF Msg, InFlight
  <2> QED BY <1>1, <2>3 DEF PipeInv
<1>5. ASSUME NEW s \in Services
      PROVE  /\ Cardinality(ReadyEntries(s)') =
                  Cardinality(ReadyEntries(s)) + (IF s = si THEN 1 ELSE 0)
             /\ Cardinality(Processes(s)') =
                  Cardinality(Processes(s)) + (IF s = si THEN 1 ELSE 0)
             /\ s # si => Processes(s)' = Processes(s)
  <2>1. /\ ReadyEntries(s) \in SUBSET Pids /\ ReadyEntries(s)' \in SUBSET Pids
        /\ Processes(s) \in SUBSET Pids /\ Processes(s)' \in SUBSET Pids
    BY DEF ReadyEntries, Processes
  <2>2. \A q \in Pids : q # p => /\ q \in ReadyEntries(s) <=> q \in ReadyEntries(s)'
                                 /\ q \in Processes(s) <=> q \in Processes(s)'
    BY <1>1 DEF ReadyEntries, Processes
  <2>3. /\ p \notin ReadyEntries(s) /\ p \notin Processes(s)
        /\ p \in ReadyEntries(s)' <=> s = si
        /\ p \in Processes(s)' <=> s = si
    BY <1>1, <1>2 DEF ReadyEntries, Processes
  <2>4. Cardinality(ReadyEntries(s)') =
          Cardinality(ReadyEntries(s)) + (IF s = si THEN 1 ELSE 0)
    BY <2>1, <2>2, <2>3, PointChange
  <2>5. Cardinality(Processes(s)') =
          Cardinality(Processes(s)) + (IF s = si THEN 1 ELSE 0)
    BY <2>1, <2>2, <2>3, PointChange
  <2>6. s # si => Processes(s)' = Processes(s)
    BY <2>1, <2>2, <2>3
  <2> QED BY <2>4, <2>5, <2>6
<1> QED BY <1>3, <1>4, <1>5

LEMMA ScheduleCount ==
  ASSUME CountInv, Regular, spawn_schedule
  PROVE  CountInv'
<1>1. TypeInv'
  BY ScheduleType DEF CountInv
<1>2. UNCHANGED <<svcVars, pipe>> /\ pc' # "fill" /\ FillInv'
  BY DEF spawn_schedule, kernVars, FillInv
<1>3. CASE UNCHANGED <<tblVars, procVars>>
  BY <1>1, <1>2, <1>3, CoreFrame, PipeFrame DEF CountInv, CoreInv, tblVars, procVars
<1>4. ASSUME NEW p \in Pids, Unused(p), Register(p, SERVICE_NONE, "event")
      PROVE  CountInv'
  <2>1. /\ "event" \in Alive /\ SERVICE_NONE \in Services \cup {SERVICE_NONE}
        /\ SERVICE_NONE \notin Services
    BY DEF Alive, Services, SERVICE_NONE
  <2>2. /\ TableInv' /\ PipeInv'
        /\ \A s \in Services :
             /\ Cardinality(ReadyEntries(s)') = Cardinality(ReadyEntries(s))
             /\ Cardinality(Processes(s)') = Cardinality(Processes(s))
             /\ Processes(s)' = Processes(s)
    <3>1. ASSUME NEW s \in Services
          PROVE  /\ Cardinality(ReadyEntries(s)') = Cardinality(ReadyEntries(s)) + 0
                 /\ Processes(s)' = Processes(s)
      BY <1>4, <2>1, RegisterCount
    <3>2. ASSUME NEW s \in Services PROVE Cardinality(ReadyEntries(s)) \in Nat
      BY MasterAssumption, FS_Subset, FS_CardinalityType DEF ReadyEntries
    <3>3. TableInv' /\ PipeInv'
      BY <1>2, <1>4, <2>1, RegisterCount
    <3> QED BY <3>1, <3>2, <3>3
  <2>3. ReadyCount' /\ ActiveCount' /\ ImapDrift' /\ RemovedInv' /\ WorkerBound'
    BY <1>2, <2>2 DEF CountInv, CoreInv, svcVars, ReadyCount, ActiveCount,
       ImapDrift, RemovedInv, WorkerBound
  <2> QED BY <1>1, <1>2, <2>2, <2>3 DEF CountInv, CoreInv
<1> QED BY <1>3, <1>4 DEF spawn_schedule

\* The invariant across a spawn_service that has room for one more process.
LEMMA SpawnCount ==
  ASSUME CountInv, Regular, NEW s \in Services, spawn_service(s),
         status[s] = "enabled", status' = status, pipe' = pipe,
         nactive[s] + 1 < MaxChild[s] + Largest(Prefork[s], 1)
  PROVE  /\ TableInv' /\ ReadyCount' /\ ActiveCount' /\ ImapDrift'
         /\ RemovedInv' /\ WorkerBound' /\ PipeInv'
         /\ \/ /\ ready_workers' = [ready_workers EXCEPT ![s] = @ + 1]
               /\ nactive' = [nactive EXCEPT ![s] = @ + 1]
            \/ UNCHANGED <<ready_workers, nactive>>
<1> USE DEF CountInv, CoreInv, TypeInv
<1>1. CASE SpawnFork(s)
  <2>1. PICK p \in Pids : Unused(p) /\ Register(p, s, "start")
    BY <1>1 DEF SpawnFork
  <2>2. "start" \in Alive
    BY DEF Alive
  <2>3. /\ ready_workers' = [ready_workers EXCEPT ![s] = @ + 1]
        /\ nactive' = [nactive EXCEPT ![s] = @ + 1]
        /\ forkfails' = forkfails /\ CountImap(s, 1)
    BY <1>1 DEF SpawnFork
  <2>4. /\ TableInv' /\ PipeInv'
        /\ \A r \in Services :
             /\ Cardinality(ReadyEntries(r)') =
                  Cardinality(ReadyEntries(r)) + (IF r = s THEN 1 ELSE 0)
             /\ Cardinality(Processes(r)') =
                  Cardinality(Processes(r)) + (IF r = s THEN 1 ELSE 0)
             /\ r # s => Processes(r)' = Processes(r)
    BY <2>1, <2>2, RegisterCount
  <2>5. ReadyCount'
    BY <2>3, <2>4 DEF ReadyCount, TypeOK
  <2>6. ActiveCount'
    BY <2>3, <2>4 DEF ActiveCount, TypeOK
  <2>7. ImapDrift'
    <3> SUFFICES ASSUME NEW r \in ImapServices
                 PROVE  imap_count'[r] = nactive'[r] + forkfails'[r]
      BY DEF ImapDrift
    <3>1. /\ r \in Services /\ imap_count[r] = nactive[r] + forkfails[r]
          /\ imap_count[r] \in Int /\ nactive[r] \in Int /\ forkfails[r] \in Nat
      BY MasterAssumption DEF ImapDrift, TypeOK
    <3>2. CASE r = s
      BY <2>3, <3>1, <3>2 DEF CountImap, TypeOK
    <3>3. CASE r # s
      BY <2>3, <3>1, <3>3 DEF CountImap, TypeOK
    <3> QED BY <3>2, <3>3
  <2>8. RemovedInv'
    BY <2>4 DEF RemovedInv
  <2>9. WorkerBound'
    BY <2>3 DEF WorkerBound, TypeOK
  <2> QED BY <2>3, <2>4, <2>5, <2>6, <2>7, <2>8, <2>9
<1>2. CASE SpawnThrottled(s) \/ SpawnFailed(s)
  <2>1. UNCHANGED <<cstate, csi, pst, psi, ready_workers, nactive>>
    BY <1>2 DEF SpawnThrottled, SpawnFailed, tblVars, procVars
  <2>2. ImapDrift'
    <3> SUFFICES ASSUME NEW r \in ImapServices
                 PROVE  imap_count'[r] = nactive'[r] + forkfails'[r]
      BY DEF ImapDrift
    <3>1. /\ r \in Services /\ imap_count[r] = nactive[r] + forkfails[r]
          /\ imap_count[r] \in Int /\ nactive[r] \in Int /\ forkfails[r] \in Nat
      BY MasterAssumption DEF ImapDrift, TypeOK
    <3>2. CASE UNCHANGED <<imap_count, forkfails>>
      BY <2>1, <3>1, <3>2
    <3>3. CASE /\ forkfails' = [forkfails EXCEPT ![s] = @ + 1]
               /\ CountImap(s, 1)
      <4>1. CASE r = s
        BY <2>1, <3>1, <3>3, <4>1 DEF CountImap, TypeOK
      <4>2. CASE r # s
        BY <2>1, <3>1, <3>3, <4>2 DEF CountImap, TypeOK
      <4> QED BY <4>1, <4>2
    <3> QED BY <1>2, <3>2, <3>3 DEF SpawnThrottled, SpawnFailed
  <2>3. \A r \in Services : /\ ReadyEntries(r)' = ReadyEntries(r)
                            /\ Processes(r)' = Processes(r)
    BY <2>1 DEF ReadyEntries, Processes
  <2>4. TableInv' /\ PipeInv'
    BY <2>1 DEF TableInv, PipeInv
  <2> QED BY <2>1, <2>2, <2>3, <2>4 DEF ReadyCount, ActiveCount, RemovedInv,
          WorkerBound
<1> QED BY <1>1, <1>2 DEF spawn_service

LEMMA LargestBound ==
  ASSUME NEW s \in Services
  PROVE  /\ MaxChild[s] \in Nat /\ MaxChild[s] >= 1 /\ Prefork[s] \in Nat
         /\ Largest(Prefork[s], 1) \in Nat /\ Largest(Prefork[s], 1) >= 1
         /\ Largest(Prefork[s], 1) >= Prefork[s]
BY MasterAssumption DEF Largest

LEMMA ManCount ==
  ASSUME CountInv, Regular, man_service
  PROVE  CountInv'
<1> USE DEF CountInv, CoreInv
<1>1. TypeInv' /\ FillInv' /\ idx \in Services
  BY ManType DEF man_service, FillInv
<1>2. CASE NeedsWorker(idx)
  <2>1. /\ spawn_service(idx) /\ status[idx] = "enabled"
        /\ status' = status /\ pipe' = pipe
    BY <1>2 DEF man_service, NeedsWorker, Drained
  <2>2. nactive[idx] + 1 < MaxChild[idx] + Largest(Prefork[idx], 1)
    <3>1. nactive[idx] \in Nat /\ (nactive[idx] < MaxChild[idx] \/ nactive[idx] = 0)
      BY <1>1, <1>2, CountsNat DEF NeedsWorker
    <3> QED BY <1>1, <3>1, LargestBound
  <2> QED BY <1>1, <2>1, <2>2, SpawnCount
<1>3. CASE ~NeedsWorker(idx) /\ ~Drained(idx)
  <2>1. UNCHANGED <<tblVars, procVars, svcVars, pipe>>
    BY <1>3 DEF man_service, NoSpawn, svcVars, tblVars, procVars
  <2> QED BY <1>1, <2>1, CoreFrame, PipeFrame DEF tblVars, procVars
<1>4. CASE Drained(idx)
  <2>1. /\ UNCHANGED <<cstate, csi, pst, psi, ready_workers, nactive,
                       imap_count, forkfails>>
        /\ status' = [status EXCEPT ![idx] = "removed"]
        /\ pipe' = [pipe EXCEPT ![idx] = <<>>]
        /\ nactive[idx] = 0
    BY <1>4 DEF man_service, NoSpawn, NeedsWorker, Drained, tblVars, procVars
  <2>2. \A s \in Services : /\ ReadyEntries(s)' = ReadyEntries(s)
                            /\ Processes(s)' = Processes(s)
    BY <2>1 DEF ReadyEntries, Processes
  <2>3. Processes(idx) = {}
    BY <1>1, <2>1, NoProcess
  <2>4. TableInv' /\ ReadyCount' /\ ActiveCount' /\ ImapDrift' /\ WorkerBound'
    BY <2>1, <2>2 DEF TableInv, ReadyCount, ActiveCount, ImapDrift, WorkerBound
  <2>5. RemovedInv'
    BY <2>1, <2>2, <2>3 DEF RemovedInv, TypeInv, TypeOK
  <2>6. PipeInv'
    <3>1. \A s \in Services : pipe'[s] = pipe[s] \/ DOMAIN (pipe'[s]) = {}
      BY <2>1 DEF TypeInv, TypeOK
    <3> QED BY <2>1, <3>1 DEF PipeInv
  <2> QED BY <1>1, <2>4, <2>5, <2>6
<1> QED BY <1>2, <1>3, <1>4

LEMMA FillOneCount ==
  ASSUME CountInv, Regular, FillOne
  PROVE  CountInv'
<1> USE DEF CountInv, CoreInv, FillOne
<1>1. TypeInv' /\ idx \in Services /\ status[idx] = "enabled"
  BY FillType DEF FillInv
<1>2. /\ nactive[idx] \in Nat /\ ready_workers[idx] \in Nat /\ todo \in Nat
      /\ todo > 0
  BY <1>1, CountsNat DEF TypeInv, TypeOK
<1>3. /\ nactive[idx] + todo < MaxChild[idx] + Largest(Prefork[idx], 1)
      /\ nactive[idx] - ready_workers[idx] < MaxChild[idx]
  BY DEF FillInv
<1>4. nactive[idx] + 1 < MaxChild[idx] + Largest(Prefork[idx], 1)
  BY <1>1, <1>2, <1>3, LargestBound
<1>5. /\ TableInv' /\ ReadyCount' /\ ActiveCount' /\ ImapDrift'
      /\ RemovedInv' /\ WorkerBound' /\ PipeInv'
      /\ \/ /\ ready_workers' = [ready_workers EXCEPT ![idx] = @ + 1]
            /\ nactive' = [nactive EXCEPT ![idx] = @ + 1]
         \/ UNCHANGED <<ready_workers, nactive>>
  BY <1>1, <1>4, SpawnCount DEF kernVars
<1>6. \/ nactive'[idx] = nactive[idx] + 1 /\ ready_workers'[idx] = ready_workers[idx] + 1
      \/ nactive'[idx] = nactive[idx] /\ ready_workers'[idx] = ready_workers[idx]
  BY <1>1, <1>5 DEF TypeInv, TypeOK
<1>7. /\ nactive'[idx] + (todo - 1) < MaxChild[idx] + Largest(Prefork[idx], 1)
      /\ nactive'[idx] - ready_workers'[idx] < MaxChild[idx]
  BY <1>1, <1>2, <1>3, <1>6, LargestBound
<1>8. FillInv'
  BY <1>1, <1>7 DEF FillInv
<1> QED BY <1>1, <1>5, <1>8

LEMMA FillDoneCount ==
  ASSUME CountInv, Regular, FillDone
  PROVE  CountInv'
<1> USE DEF CountInv, CoreInv, FillDone
<1>1. TypeInv' /\ idx \in Services /\ status[idx] = "enabled" /\ FillInv'
  BY FillType DEF FillInv
<1>2. CASE ready_workers[idx] = 0 /\ idx \in rfds.sock
  <2>1. nactive[idx] + 1 < MaxChild[idx] + Largest(Prefork[idx], 1)
    <3>1. nactive[idx] \in Nat /\ nactive[idx] - 0 < MaxChild[idx]
      BY <1>1, <1>2, CountsNat DEF FillInv
    <3> QED BY <1>1, <3>1, LargestBound
  <2> QED BY <1>1, <1>2, <2>1, SpawnCount DEF kernVars
<1>3. CASE NoSpawn
  <2>1. UNCHANGED <<tblVars, procVars, svcVars, pipe>>
    BY <1>3 DEF NoSpawn, svcVars, tblVars, procVars, kernVars
  <2> QED BY <1>1, <2>1, CoreFrame, PipeFrame DEF tblVars, procVars
<1> QED BY <1>2, <1>3

-----------------------------------------------------------------------------
(* Reaping, messages, reconfiguration, the janitor                         *)

LEMMA ReapCount ==
  ASSUME CountInv, NEW p \in Pids, ReapOne(p)
  PROVE  CountInv'
<1> USE DEF CountInv, CoreInv, TypeInv
<1>1. TypeInv' /\ FillInv'
  BY ReapOneType DEF ReapOne, FillInv, ctlVars
<1>2. pst[p] # "none" /\ cstate[p] \in {"READY", "BUSY"} /\ csi[p] = psi[p]
  BY DEF ReapOne, TableInv
<1>3. /\ cstate' = [cstate EXCEPT ![p] = "DEAD"] /\ csi' = csi
      /\ pst' = [pst EXCEPT ![p] = "none"]
      /\ psi' = [psi EXCEPT ![p] = SERVICE_NONE]
      /\ status' = status /\ pipe' = pipe /\ forkfails' = forkfails
  BY <1>2 DEF ReapOne, Forget, kernVars
<1>4. TableInv'
  BY <1>3 DEF TableInv, TypeOK
<1>5. PipeInv'
  BY <1>3 DEF PipeInv, TypeOK
<1>6. /\ nactive' = IF csi[p] \in Services
                    THEN [nactive EXCEPT ![csi[p]] = @ - 1] ELSE nactive
      /\ ready_workers' = IF csi[p] \in Services /\ cstate[p] = "READY"
                          THEN [ready_workers EXCEPT ![csi[p]] = @ - 1]
                          ELSE ready_workers
      /\ imap_count' = IF csi[p] \in Services /\ csi[p] \in ImapServices
                       THEN [imap_count EXCEPT ![csi[p]] = @ - 1] ELSE imap_count
  BY <1>2 DEF ReapOne
<1>7. ASSUME NEW s \in Services
      PROVE  /\ ready_workers'[s] = Cardinality(ReadyEntries(s)')
             /\ nactive'[s] = Cardinality(Processes(s)')
             /\ Processes(s)' \subseteq Processes(s)
             /\ nactive'[s] <= nactive[s]
  <2>1. /\ ReadyEntries(s) \in SUBSET Pids /\ ReadyEntries(s)' \in SUBSET Pids
        /\ Processes(s) \in SUBSET Pids /\ Processes(s)' \in SUBSET Pids
    BY DEF ReadyEntries, Processes
  <2>2. \A q \in Pids : q # p => /\ q \in ReadyEntries(s) <=> q \in ReadyEntries(s)'
                                 /\ q \in Processes(s) <=> q \in Processes(s)'
    BY <1>3 DEF ReadyEntries, Processes, TypeOK
  <2>3. /\ p \notin ReadyEntries(s)' /\ p \notin Processes(s)'
        /\ p \in ReadyEntries(s) <=> cstate[p] = "READY" /\ csi[p] = s
        /\ p \in Processes(s) <=> csi[p] = s
    BY <1>2, <1>3 DEF ReadyEntries, Processes, TypeOK
  <2>4. ready_workers[s] = Cardinality(ReadyEntries(s))
        /\ nactive[s] = Cardinality(Processes(s))
    BY DEF ReadyCount, ActiveCount
  <2>5. ready_workers'[s] = Cardinality(ReadyEntries(s)')
    <3>1. CASE p \in ReadyEntries(s)
      <4>1. Cardinality(ReadyEntries(s)') = Cardinality(ReadyEntries(s)) - 1
        BY <2>1, <2>2, <2>3, <3>1, PointChange
      <4>2. ready_workers'[s] = ready_workers[s] - 1
        BY <1>6, <2>3, <3>1 DEF TypeOK
      <4> QED BY <2>4, <4>1, <4>2
    <3>2. CASE p \notin ReadyEntries(s)
      <4>1. Cardinality(ReadyEntries(s)') = Cardinality(ReadyEntries(s))
        BY <2>1, <2>2, <2>3, <3>2, PointChange
      <4>2. ready_workers'[s] = ready_workers[s]
        BY <1>6, <2>3, <3>2 DEF TypeOK
      <4> QED BY <2>4, <4>1, <4>2
    <3> QED BY <3>1, <3>2
  <2>6. nactive'[s] = Cardinality(Processes(s)')
    <3>1. CASE p \in Processes(s)
      <4>1. Cardinality(Processes(s)') = Cardinality(Processes(s)) - 1
        BY <2>1, <2>2, <2>3, <3>1, PointChange
      <4>2. nactive'[s] = nactive[s] - 1
        BY <1>6, <2>3, <3>1 DEF TypeOK
      <4> QED BY <2>4, <4>1, <4>2
    <3>2. CASE p \notin Processes(s)
      <4>1. Cardinality(Processes(s)') = Cardinality(Processes(s))
        BY <2>1, <2>2, <2>3, <3>2, PointChange
      <4>2. nactive'[s] = nactive[s]
        BY <1>6, <2>3, <3>2 DEF TypeOK
      <4> QED BY <2>4, <4>1, <4>2
    <3> QED BY <3>1, <3>2
  <2>7. nactive'[s] <= nactive[s]
    BY <1>6 DEF TypeOK
  <2>8. Processes(s)' \subseteq Processes(s)
    BY <2>1, <2>2, <2>3
  <2> QED BY <2>5, <2>6, <2>7, <2>8
<1>8. ReadyCount' /\ ActiveCount'
  BY <1>7 DEF ReadyCount, ActiveCount
<1>9. RemovedInv'
  BY <1>3, <1>7 DEF RemovedInv
<1>10. WorkerBound'
  <2> SUFFICES ASSUME NEW s \in Services
               PROVE  nactive'[s] < MaxChild[s] + Largest(Prefork[s], 1)
    BY DEF WorkerBound
  <2>1. nactive[s] < MaxChild[s] + Largest(Prefork[s], 1)
    BY DEF WorkerBound
  <2>2. nactive[s] \in Int /\ nactive'[s] \in Int
    BY <1>1 DEF TypeOK
  <2> QED BY <1>7, <2>1, <2>2, LargestBound
<1>11. ImapDrift'
  <2> SUFFICES ASSUME NEW s \in ImapServices
               PROVE  imap_count'[s] = nactive'[s] + forkfails'[s]
    BY DEF ImapDrift
  <2>1. /\ s \in Services /\ imap_count[s] = nactive[s] + forkfails[s]
        /\ imap_count[s] \in Int /\ nactive[s] \in Int /\ forkfails[s] \in Nat
    BY MasterAssumption DEF ImapDrift, TypeOK
  <2>2. CASE s = csi[p]
    BY <1>3, <1>6, <2>1, <2>2 DEF TypeOK
  <2>3. CASE s # csi[p]
    BY <1>3, <1>6, <2>1, <2>3 DEF TypeOK
  <2> QED BY <2>2, <2>3
<1> QED BY <1>1, <1>4, <1>5, <1>8, <1>9, <1>10, <1>11

\* On the states a live or reaped process can have in the child table, a message
\* moves ready_workers exactly when it moves the entry into or out of READY.
LEMMA TransitionCount ==
  ASSUME NEW st \in {"READY", "BUSY", "DEAD"}, NEW m \in Messages
  PROVE  LET t == Transition(st, m) IN
         /\ st = "DEAD" => t.st = "DEAD" /\ t.ready = 0
         /\ st # "DEAD" => t.st \in {"READY", "BUSY"}
         /\ t.st = "READY" /\ st # "READY" => t.ready = 1
         /\ t.st # "READY" /\ st = "READY" => t.ready = -1
         /\ (t.st = "READY" <=> st = "READY") => t.ready = 0
BY DEF Transition, Messages

LEMMA ProcessMsgCount ==
  ASSUME CountInv, NEW s \in Services, NEW msg \in Msg, process_msg(s, msg),
         csi[msg.pid] = s, cstate[msg.pid] # "NONE",
         UNCHANGED <<pst, psi>>
  PROVE  /\ TableInv' /\ ReadyCount' /\ csi' = csi
         /\ \A q \in Pids : cstate'[q] = "NONE" <=> cstate[q] = "NONE"
<1> USE DEF CountInv, CoreInv, TypeInv
<1> DEFINE p == msg.pid
<1> DEFINE tr == Transition(cstate[p], msg.msg)
<1>1. p \in Pids /\ msg.msg \in Messages
  BY DEF Msg
<1>2. cstate[p] \in {"READY", "BUSY", "DEAD"}
  BY <1>1 DEF TableInv
<1>3. /\ cstate' = [cstate EXCEPT ![p] = tr.st] /\ csi' = csi
      /\ ready_workers' = [ready_workers EXCEPT ![s] = @ + tr.ready]
  BY <1>1 DEF process_msg, TypeOK
<1>4. /\ cstate[p] = "DEAD" => tr.st = "DEAD" /\ tr.ready = 0
      /\ cstate[p] # "DEAD" => tr.st \in {"READY", "BUSY"}
      /\ tr.st = "READY" /\ cstate[p] # "READY" => tr.ready = 1
      /\ tr.st # "READY" /\ cstate[p] = "READY" => tr.ready = -1
      /\ (tr.st = "READY" <=> cstate[p] = "READY") => tr.ready = 0
  BY <1>1, <1>2, TransitionCount
<1> HIDE DEF tr
<1>5. TableInv'
  BY <1>1, <1>2, <1>3, <1>4 DEF TableInv, TypeOK
<1>6. \A q \in Pids : cstate'[q] = "NONE" <=> cstate[q] = "NONE"
  BY <1>1, <1>2, <1>3, <1>4 DEF TypeOK
<1>7. ASSUME NEW r \in Services
      PROVE  ready_workers'[r] = Cardinality(ReadyEntries(r)')
  <2>1. ReadyEntries(r) \in SUBSET Pids /\ ReadyEntries(r)' \in SUBSET Pids
    BY DEF ReadyEntries
  <2>2. \A q \in Pids : q # p => (q \in ReadyEntries(r) <=> q \in ReadyEntries(r)')
    BY <1>1, <1>3 DEF ReadyEntries, TypeOK
  <2>3. /\ p \in ReadyEntries(r) <=> cstate[p] = "READY" /\ r = s
        /\ p \in ReadyEntries(r)' <=> tr.st = "READY" /\ r = s
    BY <1>1, <1>3 DEF ReadyEntries, TypeOK
  <2>4. ready_workers[r] = Cardinality(ReadyEntries(r)) /\ ready_workers[r] \in Int
    BY DEF ReadyCount, TypeOK
  <2>5. ready_workers'[r] = IF r = s THEN ready_workers[r] + tr.ready
                            ELSE ready_workers[r]
    BY <1>3 DEF TypeOK
  <2>6. CASE p \in ReadyEntries(r)' /\ p \notin ReadyEntries(r)
    <3>1. Cardinality(ReadyEntries(r)') = Cardinality(ReadyEntries(r)) + 1
      BY <1>1, <2>1, <2>2, <2>6, PointChange
    <3> QED BY <1>4, <2>3, <2>4, <2>5, <2>6, <3>1
  <2>7. CASE p \notin ReadyEntries(r)' /\ p \in ReadyEntries(r)
    <3>1. Cardinality(ReadyEntries(r)') = Cardinality(ReadyEntries(r)) - 1
      BY <1>1, <2>1, <2>2, <2>7, PointChange
    <3> QED BY <1>4, <2>3, <2>4, <2>5, <2>7, <3>1
  <2>8. CASE p \in ReadyEntries(r)' <=> p \in ReadyEntries(r)
    <3>1. Cardinality(ReadyEntries(r)') = Cardinality(ReadyEntries(r))
      BY <1>1, <2>1, <2>2, <2>8, PointChange
    <3> QED BY <1>4, <2>3, <2>4, <2>5, <2>8, <3>1
  <2> QED BY <2>6, <2>7, <2>8
<1>8. ReadyCount'
  BY <1>7 DEF ReadyCount
<1> QED BY <1>3, <1>5, <1>6, <1>8

\* Taking the first message out of a pipe keeps PipeInv if no entry is lost.
LEMMA TailPipe ==
  ASSUME CountInv, NEW s \in Services, pipe[s] # <<>>, csi' = csi,
         \A q \in Pids : cstate'[q] = "NONE" <=> cstate[q] = "NONE",
         pipe' = [pipe EXCEPT ![s] = Tail(@)]
  PROVE  PipeInv'
<1> USE DEF CountInv, TypeInv
<1> SUFFICES ASSUME NEW r \in Services, NEW i \in DOMAIN (pipe'[r])
             PROVE  /\ csi[pipe'[r][i].pid] = r
                    /\ cstate'[pipe'[r][i].pid] # "NONE"
  BY DEF PipeInv
<1>1. pipe[r] \in Seq(Msg) /\ pipe[s] \in Seq(Msg)
  BY DEF TypeOK
<1>2. \E j \in DOMAIN pipe[r] : pipe'[r][i] = pipe[r][j]
  <2>1. CASE r = s
    <3>1. pipe'[r] = Tail(pipe[r]) /\ pipe[r] # <<>>
      BY <2>1 DEF TypeOK
    <3>2. i \in 1..(Len(pipe[r]) - 1)
      <4>1. Tail(pipe[r]) \in Seq(Msg) /\ Len(Tail(pipe[r])) = Len(pipe[r]) - 1
        BY <1>1, <3>1
      <4>2. DOMAIN Tail(pipe[r]) = 1..Len(Tail(pipe[r]))
        BY <4>1
      <4> QED BY <3>1, <4>1, <4>2
    <3>3. i + 1 \in DOMAIN pipe[r]
      BY <1>1, <3>2
    <3>4. Tail(pipe[r])[i] = pipe[r][i + 1]
      BY <1>1, <3>1, <3>2
    <3> QED BY <3>1, <3>3, <3>4
  <2>2. CASE r # s
    BY <2>2 DEF TypeOK
  <2> QED BY <2>1, <2>2
<1>3. PICK j \in DOMAIN pipe[r] : pipe'[r][i] = pipe[r][j]
  BY <1>2
<1>4. pipe[r][j] \in Msg
  BY <1>1
<1>5. pipe[r][j].pid \in Pids
  BY <1>4 DEF Msg
<1> QED BY <1>3, <1>5 DEF PipeInv

LEMMA ReadCount ==
  ASSUME CountInv, read_service
  PROVE  CountInv'
<1> USE DEF CountInv, CoreInv
<1>1. /\ TypeInv' /\ idx \in Services
      /\ UNCHANGED <<status, nactive, imap_count, forkfails, pst, psi>>
  BY ReadType DEF read_service, procVars
<1>2. TableInv' /\ ReadyCount' /\ PipeInv'
  <2>1. CASE idx \in rfds.stat
    <3>1. /\ pipe[idx] \in Seq(Msg) /\ pipe[idx] # <<>> /\ pc = "read"
      BY <1>1, <2>1 DEF TypeInv, TypeOK, PipeReady, read_service, Services
    <3>2. Head(pipe[idx]) \in Msg /\ Head(pipe[idx]) = pipe[idx][1] /\ 1 \in DOMAIN pipe[idx]
      BY <3>1, HeadTail
    <3>3. /\ csi[Head(pipe[idx]).pid] = idx
          /\ cstate[Head(pipe[idx]).pid] # "NONE"
      BY <1>1, <3>2 DEF PipeInv
    <3>4. /\ process_msg(idx, Head(pipe[idx]))
          /\ pipe' = [pipe EXCEPT ![idx] = Tail(@)]
      BY <2>1 DEF read_service
    <3>5. /\ TableInv' /\ ReadyCount' /\ csi' = csi
          /\ \A q \in Pids : cstate'[q] = "NONE" <=> cstate[q] = "NONE"
      BY <1>1, <3>2, <3>3, <3>4, ProcessMsgCount
    <3>6. PipeInv'
      BY <1>1, <3>1, <3>4, <3>5, TailPipe
    <3> QED BY <3>5, <3>6
  <2>2. CASE idx \notin rfds.stat
    <3>1. UNCHANGED <<cstate, csi, ready_workers, pipe>>
      BY <2>2 DEF read_service
    <3>2. \A s \in Services : ReadyEntries(s)' = ReadyEntries(s)
      BY <3>1 DEF ReadyEntries
    <3> QED BY <1>1, <3>1, <3>2 DEF TableInv, ReadyCount, PipeInv
  <2> QED BY <2>1, <2>2
<1>3. ActiveCount' /\ ImapDrift' /\ RemovedInv' /\ WorkerBound'
  <2>1. \A s \in Services : Processes(s)' = Processes(s)
    BY <1>1 DEF Processes
  <2> QED BY <1>1, <2>1 DEF ActiveCount, ImapDrift, RemovedInv, WorkerBound
<1>4. FillInv'
  <2>1. ASSUME pc' = "fill"
        PROVE  /\ nactive[idx] + todo' < MaxChild[idx] + Largest(Prefork[idx], 1)
               /\ nactive[idx] - ready_workers'[idx] < MaxChild[idx]
               /\ status[idx] = "enabled" /\ idx' = idx
    <3>1. /\ status[idx] = "enabled" /\ nactive[idx] < MaxChild[idx] /\ idx' = idx
          /\ todo' = IF ready_workers'[idx] < Prefork[idx]
                     THEN Prefork[idx] - ready_workers'[idx] ELSE 0
      BY <2>1 DEF read_service
    <3>2. ready_workers'[idx] \in Nat
      <4>1. ASSUME NEW s \in Services PROVE ready_workers'[s] \in Nat
        <5>1. ReadyEntries(s)' \in SUBSET Pids
          BY DEF ReadyEntries
        <5>2. Cardinality(ReadyEntries(s)') \in Nat
          BY <5>1, MasterAssumption, FS_Subset, FS_CardinalityType
        <5> QED BY <1>2, <5>2 DEF ReadyCount
      <4> QED BY <1>1, <4>1
    <3>3. nactive[idx] \in Nat
      BY <1>1, CountsNat
    <3> QED BY <1>1, <3>1, <3>2, <3>3, LargestBound
  <2> QED BY <1>1, <2>1 DEF FillInv
<1> QED BY <1>1, <1>2, <1>3, <1>4

LEMMA RereadCount ==
  ASSUME CountInv, Regular, reread_conf
  PROVE  CountInv'
<1> USE DEF CountInv, CoreInv
<1>1. /\ TypeInv' /\ FillInv'
      /\ UNCHANGED <<nactive, imap_count, forkfails, cstate, csi, pst, psi>>
  BY RereadType DEF reread_conf, FillInv, tblVars
<1>2. PICK on \in SUBSET Services :
        /\ \A s \in on : status[s] = "removed"
        /\ \A s \in Services : status'[s] = "removed" => status[s] = "removed"
        /\ ready_workers' = [s \in Services |->
                               IF s \in on THEN 0 ELSE ready_workers[s]]
        /\ pipe' = [s \in Services |-> IF s \in on THEN <<>> ELSE pipe[s]]
  <2>1. PICK conf \in SUBSET Services :
          LET off == {s \in Services : status[s] = "enabled" /\ s \notin conf}
              on  == {s \in conf : status[s] # "enabled"}
          IN /\ RecycleDraining \/ \A s \in on : status[s] = "removed"
             /\ status' = [s \in Services |->
                             IF s \in off THEN "draining"
                             ELSE IF s \in on THEN "enabled" ELSE status[s]]
             /\ ready_workers' = [s \in Services |->
                                    IF s \in on THEN 0 ELSE ready_workers[s]]
             /\ pipe' = [s \in Services |-> IF s \in on THEN <<>> ELSE pipe[s]]
    BY DEF reread_conf
  <2> DEFINE on == {s \in conf : status[s] # "enabled"}
  <2>2. \A s \in Services : status'[s] = "removed" => status[s] = "removed"
    BY <2>1
  <2> WITNESS on \in SUBSET Services
  <2> QED BY <2>1, <2>2 DEF Regular
<1>3. \A s \in Services : /\ ReadyEntries(s)' = ReadyEntries(s)
                          /\ Processes(s)' = Processes(s)
  BY <1>1 DEF ReadyEntries, Processes
<1>4. \A s \in on : ready_workers[s] = 0
  <2> SUFFICES ASSUME NEW s \in on PROVE ready_workers[s] = 0
    OBVIOUS
  <2>1. s \in Services /\ Processes(s) = {}
    BY <1>2 DEF RemovedInv
  <2>2. ReadyEntries(s) = {}
    BY <2>1 DEF ReadyEntries, Processes, TableInv
  <2> QED BY <2>1, <2>2, FS_EmptySet DEF ReadyCount
<1>5. ReadyCount'
  BY <1>2, <1>3, <1>4 DEF ReadyCount
<1>6. TableInv' /\ ActiveCount' /\ ImapDrift' /\ RemovedInv' /\ WorkerBound'
  BY <1>1, <1>2, <1>3 DEF TableInv, ActiveCount, ImapDrift, RemovedInv, WorkerBound
<1>7. PipeInv'
  <2>1. \A s \in Services : pipe'[s] = pipe[s] \/ DOMAIN (pipe'[s]) = {}
    BY <1>2
  <2> QED BY <1>1, <2>1 DEF PipeInv
<1> QED BY <1>1, <1>5, <1>6, <1>7

LEMMA JanitorCount ==
  ASSUME CountInv, Regular, child_janitor
  PROVE  CountInv'
<1> USE DEF CountInv, CoreInv, TypeInv
<1>1. /\ TypeInv' /\ FillInv'
      /\ UNCHANGED <<svcVars, pst, psi, pipe>>
  BY JanitorType DEF child_janitor, FillInv, procVars, kernVars
<1>2. PICK D \in SUBSET {p \in Pids : cstate[p] = "DEAD"} :
        /\ \A p \in D : ~InFlight(p)
        /\ cstate' = [p \in Pids |-> IF p \in D THEN "NONE" ELSE cstate[p]]
        /\ csi' = [p \in Pids |-> IF p \in D THEN SERVICE_NONE ELSE csi[p]]
  BY DEF child_janitor, Regular
<1>3. TableInv'
  BY <1>1, <1>2 DEF TableInv
<1>4. \A s \in Services : /\ ReadyEntries(s)' = ReadyEntries(s)
                          /\ Processes(s)' = Processes(s)
  BY <1>1, <1>2 DEF ReadyEntries, Processes
<1>5. ReadyCount' /\ ActiveCount' /\ ImapDrift' /\ RemovedInv' /\ WorkerBound'
  BY <1>1, <1>4 DEF svcVars, ReadyCount, ActiveCount, ImapDrift, RemovedInv,
     WorkerBound
<1>6. PipeInv'
  <2> SUFFICES ASSUME NEW s \in Services, NEW i \in DOMAIN pipe[s]
               PROVE  /\ csi'[pipe[s][i].pid] = s
                      /\ cstate'[pipe[s][i].pid] # "NONE"
    BY <1>1 DEF PipeInv
  <2>1. pipe[s] \in Seq(Msg)
    BY DEF TypeOK
  <2>2. pipe[s][i] \in Msg
    BY <2>1
  <2>3. pipe[s][i].pid \in Pids /\ pipe[s][i].pid \notin D
    BY <1>2, <2>2 DEF Msg, InFlight
  <2> QED BY <1>2, <2>3 DEF PipeInv
<1> QED BY <1>1, <1>3, <1>5, <1>6

-----------------------------------------------------------------------------
(* The theorems                                                            *)

LEMMA CountStep == Regular /\ CountInv /\ [Next]_vars => CountInv'
<1> SUFFICES ASSUME Regular, CountInv, [Next]_vars PROVE CountInv'
  OBVIOUS
<1>1. CASE MasterNext
  BY <1>1, ScheduleCount, ReapCount, ControlCount, ManCount, RereadCount,
     ReadCount, FillOneCount, FillDoneCount, JanitorCount DEF MasterNext
<1>2. ASSUME NEW p \in Pids, ProcNext(p) \/ Deny(p) \/ Timeout(p) \/ Crash(p)
      PROVE  CountInv'
  BY <1>2, NotifyStepCount, QuietStepCount, ServedCount DEF ProcNext
<1>3. CASE SigHup \/ \E s \in Services : Connect(s)
  BY <1>3, EnvCount
<1>4. CASE UNCHANGED vars
  <2>1. UNCHANGED <<svcVars, ctlVars, tblVars, procVars, pipe>>
    BY <1>4 DEF vars, kernVars
  <2>2. TypeInv'
    BY <1>4, TypeStep DEF CountInv
  <2> QED BY <2>1, <2>2, FillFrame, CoreFrame, PipeFrame
          DEF CountInv, CoreInv, tblVars, procVars
<1> QED BY <1>1, <1>2, <1>3, <1>4 DEF Next

LEMMA InitCount == Init => CountInv
<1> SUFFICES ASSUME Init PROVE CountInv
  OBVIOUS
<1>1. TypeInv
  BY InitTypeInv
<1>2. \A s \in Services : ReadyEntries(s) = {} /\ Processes(s) = {}
  BY DEF Init, ReadyEntries, Processes
<1>3. Cardinality({}) = 0
  BY FS_EmptySet
<1>4. ReadyCount /\ ActiveCount /\ RemovedInv
  BY <1>2, <1>3 DEF Init, ReadyCount, ActiveCount, RemovedInv
<1>5. TableInv /\ PipeInv /\ FillInv
  BY DEF Init, TableInv, PipeInv, FillInv
<1>6. ImapDrift
  BY MasterAssumption DEF Init, ImapDrift
<1>7. WorkerBound
  <2> SUFFICES ASSUME NEW s \in Services
               PROVE  nactive[s] < MaxChild[s] + Largest(Prefork[s], 1)
    BY DEF WorkerBound
  <2>1. nactive[s] = 0
    BY DEF Init
  <2> QED BY <2>1, LargestBound
<1> QED BY <1>1, <1>4, <1>5, <1>6, <1>7 DEF CountInv, CoreInv

LEMMA CountInvariant == Regular => (Spec => []CountInv)
<1> SUFFICES ASSUME Regular PROVE Spec => []CountInv
  OBVIOUS
<1>1. CountInv /\ [Next]_vars => CountInv'
  BY CountStep
<1> QED BY <1>1, InitCount, PTL DEF Spec

\* ready_workers is the number of READY entries of the service, in every order
\* of forks, messages, deaths, reaping, purging and reconfiguration.
THEOREM ReadyCountCorrect == Regular => (Spec => []ReadyCount)
<1> SUFFICES ASSUME Regular PROVE Spec => []ReadyCount
  OBVIOUS
<1>1. Spec => []CountInv
  BY CountInvariant
<1>2. CountInv => ReadyCount
  BY DEF CountInv, CoreInv
<1> QED BY <1>1, <1>2, PTL

\* nactive is the number of unreaped processes of the service.
THEOREM ActiveCountCorrect == Regular => (Spec => []ActiveCount)
<1> SUFFICES ASSUME Regular PROVE Spec => []ActiveCount
  OBVIOUS
<1>1. Spec => []CountInv
  BY CountInvariant
<1>2. CountInv => ActiveCount
  BY DEF CountInv, CoreInv
<1> QED BY <1>1, <1>2, PTL

\* imap_count is too high by exactly the number of failed forks.
THEOREM ImapDriftCorrect == Regular => (Spec => []ImapDrift)
<1> SUFFICES ASSUME Regular PROVE Spec => []ImapDrift
  OBVIOUS
<1>1. Spec => []CountInv
  BY CountInvariant
<1>2. CountInv => ImapDrift
  BY DEF CountInv, CoreInv
<1> QED BY <1>1, <1>2, PTL

\* The loop after select() never takes a service to max_workers plus the larger
\* of desired_workers and one: the bound that main() does keep on nactive.
THEOREM WorkerBoundCorrect == Regular => (Spec => []WorkerBound)
<1> SUFFICES ASSUME Regular PROVE Spec => []WorkerBound
  OBVIOUS
<1>1. Spec => []CountInv
  BY CountInvariant
<1>2. CountInv => WorkerBound
  BY DEF CountInv, CoreInv
<1> QED BY <1>1, <1>2, PTL

-----------------------------------------------------------------------------
(* What the child table tells of a process                                 *)

Worker(p) == pst[p] \in Alive \ {"event"}

\* The process writes to the pipe that master reads, and the child table with
\* what is in that pipe tells what it is doing.
Shown(p) ==
  /\ linked[p]
  /\ Last(p) = {} => cstate[p] = TrueState(p)
  /\ \A i \in Last(p) : Outcome(pipe[psi[p]][i].msg) = TrueState(p)

ViewInv == \A p \in Pids : Worker(p) => Shown(p)

LEMMA ShownFrame ==
  ASSUME NEW p \in Pids, Shown(p), pipe'[psi[p]] = pipe[psi[p]], cstate'[p] = cstate[p],
         linked'[p] = linked[p], psi'[p] = psi[p], TrueState(p)' = TrueState(p)
  PROVE  Shown(p)'
BY DEF Shown, Last

LEMMA WorkerService ==
  ASSUME CountInv, NEW p \in Pids, Worker(p)
  PROVE  psi[p] \in Services /\ pst[p] # "none" /\ cstate[p] \in {"READY", "BUSY"}
BY DEF CountInv, CoreInv, TypeInv, Workers, Worker, Alive, TableInv

\* Steps of processes that tell master nothing.
LEMMA QuietView ==
  ASSUME CountInv, ViewInv, UNCHANGED <<tblVars, psi, linked, pipe>>,
         \A q \in Pids : Worker(q)' => Worker(q) /\ TrueState(q)' = TrueState(q)
  PROVE  ViewInv'
BY ShownFrame DEF ViewInv, tblVars

LEMMA QuietStepView ==
  ASSUME CountInv, ViewInv, NEW p \in Pids,
         \/ service_init(p) \/ Accept(p) \/ Deny(p) \/ Quit(p) \/ Timeout(p)
         \/ Crash(p)
  PROVE  ViewInv'
<1> USE DEF service_init, Accept, Deny, Quit, Timeout, Crash, Exit
<1>1. UNCHANGED <<tblVars, psi, linked, pipe>>
  BY DEF kernVars
<1>2. pst \in [Pids -> Alive \cup {"none", "zombie"}]
  BY DEF CountInv, TypeInv, TypeOK
<1>3. ASSUME NEW q \in Pids, Worker(q)' PROVE Worker(q) /\ TrueState(q)' = TrueState(q)
  BY <1>2, <1>3 DEF Worker, TrueState, Alive
<1> QED BY <1>1, <1>3, QuietView

\* A process tells master what it does next.
LEMMA NotifyView ==
  ASSUME CountInv, ViewInv, NEW p \in Pids, NEW m \in Messages, notify_master(p, m),
         Worker(p), NEW st \in Alive \ {"event"}, pst' = [pst EXCEPT ![p] = st],
         Outcome(m) = IF st \in {"told", "serving"} THEN "BUSY" ELSE "READY",
         UNCHANGED <<tblVars, psi, linked>>
  PROVE  ViewInv'
<1> DEFINE s == psi[p]
           e == [msg |-> m, pid |-> p]
<1>1. s \in Services /\ linked[p] BY WorkerService DEF ViewInv, Shown
<1>2. pipe \in [Services -> Seq(Msg)] /\ pst \in [Pids -> Alive \cup {"none", "zombie"}]
  BY DEF CountInv, TypeInv, TypeOK
<1>3. pipe' = [pipe EXCEPT ![s] = Append(pipe[s], e)] BY <1>1 DEF notify_master
<1>4. /\ pipe'[s] = Append(pipe[s], e) /\ \A r \in Services : r # s => pipe'[r] = pipe[r]
      /\ pipe[s] \in Seq(Msg)
  BY <1>1, <1>2, <1>3
<1>5. /\ DOMAIN pipe[s] = 1..Len(pipe[s]) /\ DOMAIN (pipe'[s]) = 1..(Len(pipe[s]) + 1)
      /\ Len(pipe[s]) \in Nat /\ pipe'[s][Len(pipe[s]) + 1] = e
      /\ \A i \in 1..Len(pipe[s]) : pipe'[s][i] = pipe[s][i]
  BY <1>4
<1> HIDE DEF s
<1>6. e.pid = p /\ e.msg = m OBVIOUS
<1> HIDE DEF e
<1> SUFFICES ASSUME NEW q \in Pids, Worker(q)' PROVE Shown(q)'
  BY DEF ViewInv
<1>7. CASE q = p
  <2>1. psi'[p] = s /\ linked'[p] BY <1>1 DEF s
  <2>2. TrueState(p)' = Outcome(m) BY <1>2 DEF TrueState
  <2>3. Last(p)' = {Len(pipe[s]) + 1} BY <2>1, <1>5, <1>6 DEF Last
  <2> QED BY <1>5, <1>6, <1>7, <2>1, <2>2, <2>3 DEF Shown
<1>8. CASE q # p
  <2>1. Worker(q) /\ TrueState(q)' = TrueState(q) BY <1>2, <1>8 DEF Worker, TrueState
  <2>2. Shown(q) /\ psi[q] \in Services BY <2>1, WorkerService DEF ViewInv
  <2>3. CASE psi[q] # s BY <1>4, <2>1, <2>2, <2>3, ShownFrame DEF tblVars
  <2>4. CASE psi[q] = s
    <3>1. Last(q)' = Last(q)
      <4>1. \A i \in DOMAIN (pipe'[s]) : pipe'[s][i].pid = q =>
              i \in DOMAIN pipe[s] /\ pipe[s][i].pid = q
        BY <1>5, <1>6, <1>8
      <4>2. \A i \in DOMAIN pipe[s] : i \in DOMAIN (pipe'[s]) /\ pipe'[s][i] = pipe[s][i]
        BY <1>5
      <4> QED BY <4>1, <4>2, <2>4 DEF Last
    <3>2. \A i \in Last(q) : pipe'[s][i] = pipe[s][i] BY <1>5, <2>4 DEF Last
    <3> QED BY <2>1, <2>2, <2>4, <3>1, <3>2 DEF Shown, tblVars
  <2> QED BY <2>3, <2>4
<1> QED BY <1>7, <1>8

LEMMA NotifyStepView ==
  ASSUME CountInv, ViewInv, NEW p \in Pids,
         TellBusy(p) \/ TellConnection(p) \/ AcceptMulti(p) \/ Served(p)
  PROVE  ViewInv'
<1>0. pst \in [Pids -> Alive \cup {"none", "zombie"}] BY DEF CountInv, TypeInv, TypeOK
<1>1. CASE TellBusy(p)
  <2>1. notify_master(p, "UNAVAILABLE") /\ Worker(p) /\ pst' = [pst EXCEPT ![p] = "told"]
    BY <1>1 DEF TellBusy, Worker, Alive
  <2> QED BY <1>1, <2>1, NotifyView DEF TellBusy, Messages, Alive, Outcome
<1>2. CASE TellConnection(p)
  <2>1. notify_master(p, "CONNECTION") /\ Worker(p) /\ pst' = [pst EXCEPT ![p] = "serving"]
    BY <1>2 DEF TellConnection, Worker, Alive
  <2> QED BY <1>2, <2>1, NotifyView DEF TellConnection, Messages, Alive, Outcome
<1>3. CASE AcceptMulti(p)
  <2>1. Worker(p) /\ pst' = [pst EXCEPT ![p] = "idle"] /\ UNCHANGED <<tblVars, psi, linked, pst>>
    BY <1>0, <1>3 DEF AcceptMulti, Worker, Alive, procVars
  <2>2. CASE notify_master(p, "CONNECTION_MULTI")
    BY <2>1, <2>2, NotifyView DEF Messages, Alive, Outcome
  <2>3. CASE UNCHANGED pipe
    BY <2>1, <2>3, QuietView DEF Worker, TrueState
  <2> QED BY <1>3, <2>2, <2>3 DEF AcceptMulti
<1>4. CASE Served(p)
  <2>1. Worker(p) /\ UNCHANGED <<tblVars, psi, linked>> BY <1>4 DEF Served, Worker, Alive
  <2>2. CASE Exit(p) /\ UNCHANGED pipe
    <3>1. \A q \in Pids : Worker(q)' => Worker(q) /\ TrueState(q)' = TrueState(q)
      BY <1>0, <2>2 DEF Exit, Worker, TrueState, Alive
    <3> QED BY <2>1, <2>2, <3>1, QuietView
  <2>3. CASE notify_master(p, "AVAILABLE") /\ pst' = [pst EXCEPT ![p] = "idle"]
    BY <2>1, <2>3, NotifyView DEF Messages, Alive, Outcome
  <2> QED BY <1>4, <2>2, <2>3 DEF Served
<1> QED BY <1>1, <1>2, <1>3, <1>4

\* A new process is READY, and no message names it.
LEMMA RegisterView ==
  ASSUME CountInv, ViewInv, Regular, NEW p \in Pids, Unused(p),
         NEW si \in Services \cup {SERVICE_NONE}, NEW st \in {"start", "event"},
         st = "start" => si \in Services,
         Register(p, si, st), \A q \in Pids : Worker(q) => pipe'[psi[q]] = pipe[psi[q]],
         si \in Services => pipe'[si] = pipe[si]
  PROVE  ViewInv'
<1> USE DEF CountInv, TypeInv, TypeOK
<1> SUFFICES ASSUME NEW q \in Pids, Worker(q)' PROVE Shown(q)'
  BY DEF ViewInv
<1>1. CASE q = p
  <2>1. pst'[p] = st /\ psi'[p] = si /\ cstate'[p] = "READY" /\ linked'[p] = (si # SERVICE_NONE)
    BY DEF Register
  <2>2. st = "start" /\ si \in Services BY <1>1, <2>1 DEF Worker
  <2>6. si # SERVICE_NONE BY <2>2, MasterAssumption DEF SERVICE_NONE, Services
  <2>3. linked'[p] BY <2>1, <2>6
  <2>4. \A i \in DOMAIN pipe[si] : pipe[si][i].pid # p
    BY <2>2 DEF Unused, Regular, InFlight
  <2>5. Last(p)' = {} BY <2>1, <2>2, <2>4 DEF Last
  <2> QED BY <1>1, <2>1, <2>2, <2>3, <2>5 DEF Shown, TrueState
<1>2. CASE q # p
  <2>1. /\ pst'[q] = pst[q] /\ psi'[q] = psi[q] /\ cstate'[q] = cstate[q] /\ linked'[q] = linked[q]
    BY <1>2 DEF Register
  <2>2. Worker(q) /\ TrueState(q)' = TrueState(q) BY <2>1 DEF Worker, TrueState
  <2> QED BY <2>1, <2>2, ShownFrame DEF ViewInv
<1> QED BY <1>1, <1>2

LEMMA SpawnView ==
  ASSUME CountInv, ViewInv, Regular, NEW s \in Services, spawn_service(s),
         \A q \in Pids : Worker(q) => pipe'[psi[q]] = pipe[psi[q]], pipe'[s] = pipe[s]
  PROVE  ViewInv'
<1>1. CASE SpawnFork(s)
  BY <1>1, RegisterView DEF SpawnFork
<1>2. CASE SpawnThrottled(s) \/ SpawnFailed(s)
  <2>1. UNCHANGED <<cstate, pst, psi, linked>>
    BY <1>2 DEF SpawnThrottled, SpawnFailed, tblVars, procVars
  <2> QED BY <2>1, ShownFrame DEF ViewInv, Worker, TrueState
<1> QED BY <1>1, <1>2 DEF spawn_service

LEMMA StillView ==
  ASSUME CountInv, ViewInv, UNCHANGED <<pst, psi, linked>>,
         \A q \in Pids : Worker(q) => pipe'[psi[q]] = pipe[psi[q]] /\ cstate'[q] = cstate[q]
  PROVE  ViewInv'
BY ShownFrame DEF ViewInv, Worker, TrueState

LEMMA LoopView ==
  ASSUME CountInv, ViewInv, Regular,
         \/ spawn_schedule \/ ReapDone \/ ManDone \/ SelectInterrupted \/ SelectReturns
         \/ FillOne \/ FillDone \/ child_janitor \/ man_service \/ \E p \in Pids : ReapOne(p)
  PROVE  ViewInv'
<1>1. CASE spawn_schedule
  <2>1. CASE UNCHANGED <<tblVars, procVars>>
    BY <1>1, <2>1, StillView DEF spawn_schedule, tblVars, procVars, kernVars
  <2>2. CASE \E p \in Pids : Unused(p) /\ Register(p, SERVICE_NONE, "event")
    BY <1>1, <2>2, RegisterView DEF spawn_schedule, kernVars, SERVICE_NONE, Services
  <2> QED BY <1>1, <2>1, <2>2 DEF spawn_schedule
<1>2. CASE ReapDone \/ ManDone \/ SelectInterrupted \/ SelectReturns
  BY <1>2, StillView DEF ReapDone, ManDone, SelectInterrupted, SelectReturns, tblVars, procVars,
     kernVars
<1>3. CASE FillOne
  <2>1. idx \in Services BY <1>3 DEF FillOne, CountInv, CoreInv, FillInv
  <2> QED BY <1>3, <2>1, SpawnView DEF FillOne, kernVars
<1>4. CASE FillDone
  <2>1. idx \in Services BY <1>4 DEF FillDone, CountInv, CoreInv, FillInv
  <2>2. CASE spawn_service(idx) BY <1>4, <2>1, <2>2, SpawnView DEF FillDone, kernVars
  <2>3. CASE NoSpawn BY <1>4, <2>3, StillView DEF FillDone, NoSpawn, tblVars, procVars, kernVars
  <2> QED BY <1>4, <2>2, <2>3 DEF FillDone
<1>5. CASE child_janitor
  <2>1. UNCHANGED <<pst, psi, linked, pipe>> BY <1>5 DEF child_janitor, procVars, kernVars
  <2>2. \A q \in Pids : cstate[q] # "DEAD" => cstate'[q] = cstate[q] BY <1>5 DEF child_janitor
  <2> QED BY <2>1, <2>2, WorkerService, StillView
<1>6. CASE man_service
  <2>1. idx \in Services BY <1>6 DEF man_service
  <2>2. \A q \in Pids : Worker(q) => pipe'[psi[q]] = pipe[psi[q]]
    <3> SUFFICES ASSUME NEW q \in Pids, Worker(q) PROVE pipe'[psi[q]] = pipe[psi[q]]
      OBVIOUS
    <3>1. psi[q] \in Services /\ q \in Processes(psi[q]) BY WorkerService DEF Processes
    <3>2. ~(Drained(idx) /\ psi[q] = idx)
      BY <3>1, NoProcess DEF Drained, CountInv, CoreInv
    <3> QED BY <1>6, <3>1, <3>2 DEF man_service, CountInv, TypeInv, TypeOK
  <2>3. CASE NeedsWorker(idx)
    <3>1. ~Drained(idx) BY <2>3 DEF NeedsWorker, Drained
    <3> QED BY <1>6, <2>1, <2>2, <2>3, <3>1, SpawnView DEF man_service
  <2>4. CASE ~NeedsWorker(idx)
    <3>1. UNCHANGED <<tblVars, procVars>> BY <1>6, <2>4 DEF man_service, NoSpawn
    <3> QED BY <2>2, <3>1, StillView DEF tblVars, procVars
  <2> QED BY <2>3, <2>4
<1>7. ASSUME NEW p \in Pids, ReapOne(p) PROVE ViewInv'
  <2>1. pipe' = pipe BY <1>7 DEF ReapOne, kernVars
  <2>2. \A q \in Pids : q # p => /\ pst'[q] = pst[q] /\ psi'[q] = psi[q] /\ linked'[q] = linked[q]
                                 /\ cstate'[q] = cstate[q]
    BY <1>7 DEF ReapOne, Forget, CountInv, TypeInv, TypeOK
  <2>3. ~Worker(p)' BY <1>7 DEF ReapOne, Forget, Worker, Alive, CountInv, TypeInv, TypeOK
  <2> QED BY <2>1, <2>2, <2>3, ShownFrame DEF ViewInv, Worker, TrueState
<1> QED BY <1>1, <1>2, <1>3, <1>4, <1>5, <1>6, <1>7

\* Only a service that has no process gets a new pipe.
LEMMA RereadView ==
  ASSUME CountInv, ViewInv, Regular, reread_conf
  PROVE  ViewInv'
<1>1. UNCHANGED <<pst, psi, cstate>> BY DEF reread_conf, tblVars
<1>2. PICK on \in SUBSET Services :
        /\ \A s \in on : status[s] = "removed"
        /\ pipe' = [s \in Services |-> IF s \in on THEN <<>> ELSE pipe[s]]
        /\ linked' = [p \in Pids |-> linked[p] /\ psi[p] \notin on]
  <2>1. PICK conf \in SUBSET Services :
          LET on == {s \in conf : status[s] # "enabled"}
          IN /\ RecycleDraining \/ \A s \in on : status[s] = "removed"
             /\ pipe' = [s \in Services |-> IF s \in on THEN <<>> ELSE pipe[s]]
             /\ linked' = [p \in Pids |-> linked[p] /\ psi[p] \notin on]
    BY DEF reread_conf
  <2> DEFINE on == {s \in conf : status[s] # "enabled"}
  <2> WITNESS on \in SUBSET Services
  <2> QED BY <2>1 DEF Regular
<1>3. ASSUME NEW q \in Pids, Worker(q) PROVE psi[q] \in Services /\ psi[q] \notin on
  <2>1. psi[q] \in Services /\ q \in Processes(psi[q]) BY <1>3, WorkerService DEF Processes
  <2> QED BY <1>2, <2>1 DEF CountInv, CoreInv, RemovedInv
<1>4. ASSUME NEW q \in Pids, Worker(q) PROVE linked'[q] = linked[q] /\ pipe'[psi[q]] = pipe[psi[q]]
  <2>1. linked[q] \in BOOLEAN BY DEF CountInv, TypeInv, TypeOK
  <2> QED BY <1>2, <1>3, <1>4, <2>1
<1> QED BY <1>1, <1>4, ShownFrame DEF ViewInv, Worker, TrueState

\* Whatever the entry was, the message leaves it in the state that the sender
\* reported.
LEMMA TransitionOutcome ==
  ASSUME NEW st \in {"READY", "BUSY"}, NEW m \in Messages
  PROVE  Transition(st, m).st = Outcome(m)
BY DEF Transition, Messages, Outcome

\* A bounded set of numbers that is not empty has a greatest one.
LEMMA Greatest ==
  ASSUME NEW n \in Nat, NEW T \in SUBSET (1..n), T # {}
  PROVE  \E x \in T : \A y \in T : y <= x
<1> DEFINE U == {n - x : x \in T}
<1>1. U \subseteq Nat /\ U # {}
  <2>1. \A x \in T : x \in 1..n OBVIOUS
  <2>2. \A x \in 1..n : n - x \in Nat OBVIOUS
  <2>3. PICK x \in T : TRUE OBVIOUS
  <2>4. n - x \in U OBVIOUS
  <2>5. ASSUME NEW u \in U PROVE u \in Nat
    <3>1. PICK y \in T : u = n - y OBVIOUS
    <3> QED BY <2>1, <2>2, <3>1
  <2> HIDE DEF U
  <2> QED BY <2>4, <2>5
<1>2. PICK u \in U : \A v \in U : ~(<<v, u>> \in OpToRel(<, Nat))
  BY <1>1, NatLessThanWellFounded, WFMin
<1>3. PICK x \in T : u = n - x OBVIOUS
<1>4. ASSUME NEW y \in T PROVE y <= x
  <2>1. n - y \in U OBVIOUS
  <2>2. ~(n - y < u) BY <1>1, <1>2, <2>1 DEF OpToRel
  <2>3. x \in 1..n /\ y \in 1..n OBVIOUS
  <2> QED BY <1>3, <2>2, <2>3
<1> QED BY <1>4

LEMMA ReadView ==
  ASSUME CountInv, ViewInv, read_service
  PROVE  ViewInv'
<1> DEFINE s == idx
<1>1. s \in Services /\ UNCHANGED <<pst, psi, linked>> BY DEF read_service, procVars
<1>2. CASE s \notin rfds.stat
  BY <1>1, <1>2, StillView DEF read_service
<1>3. CASE s \in rfds.stat
  <2>1. pipe \in [Services -> Seq(Msg)] /\ pipe[s] # <<>> /\ pc = "read"
        /\ cstate \in [Pids -> States \cup {"NONE"}]
    BY <1>1, <1>3 DEF CountInv, TypeInv, TypeOK, PipeReady, read_service, Services
  <2> DEFINE msg == Head(pipe[s])
             p == msg.pid
             n == Len(pipe[s])
  <2>2. msg \in Msg /\ msg = pipe[s][1] /\ 1 \in DOMAIN pipe[s] BY <1>1, <2>1, HeadTail
  <2>3. process_msg(s, msg) /\ pipe' = [pipe EXCEPT ![s] = Tail(@)] BY <1>3 DEF read_service
  <2>4. p \in Pids /\ msg.msg \in Messages BY <2>2 DEF Msg
  <2>5. /\ DOMAIN pipe[s] = 1..n /\ n \in Nat /\ n >= 1 /\ pipe'[s] = Tail(pipe[s])
        /\ DOMAIN (pipe'[s]) = 1..(n - 1) /\ \A i \in 1..(n - 1) : pipe'[s][i] = pipe[s][i + 1]
    <3>1. pipe[s] \in Seq(Msg) BY <1>1, <2>1
    <3>2. Tail(pipe[s]) \in Seq(Msg) /\ Len(Tail(pipe[s])) = n - 1 BY <3>1, <2>1
    <3> QED BY <1>1, <2>1, <2>3, <3>1, <3>2
  <2>6. \A r \in Services : r # s => pipe'[r] = pipe[r] BY <2>1, <2>3
  <2>7. \A q \in Pids : q # p => cstate'[q] = cstate[q] BY <2>1, <2>3 DEF process_msg
  <2>8. cstate[p] \in {"READY", "BUSY"} => cstate'[p] = Outcome(msg.msg)
    <3> SUFFICES ASSUME cstate[p] \in {"READY", "BUSY"} PROVE cstate'[p] = Outcome(msg.msg)
      OBVIOUS
    <3>1. cstate' = [cstate EXCEPT ![p] = Transition(cstate[p], msg.msg).st]
      BY <2>3 DEF process_msg
    <3>2. Transition(cstate[p], msg.msg).st = Outcome(msg.msg) BY <2>4, TransitionOutcome
    <3> QED BY <2>1, <2>4, <3>1, <3>2
  <2> HIDE DEF s, msg, p, n
  <2> SUFFICES ASSUME NEW q \in Pids, Worker(q)' PROVE Shown(q)'
    BY DEF ViewInv
  <2>9. /\ Worker(q) /\ TrueState(q)' = TrueState(q) /\ psi[q] \in Services
        /\ cstate[q] \in {"READY", "BUSY"} /\ Shown(q)
    BY <1>1, WorkerService DEF Worker, TrueState, ViewInv
  <2>10. CASE psi[q] # s
    <3>1. q # p
      <4>1. csi[p] = s BY <1>1, <2>2 DEF CountInv, PipeInv, p
      <4>2. csi[q] = psi[q] BY <2>9 DEF CountInv, CoreInv, TableInv, Worker, Alive
      <4> QED BY <4>1, <4>2, <2>10
    <3> QED BY <1>1, <2>6, <2>7, <2>9, <2>10, <3>1, ShownFrame
  <2>11. CASE psi[q] = s
    <3>1. \A i \in Last(q)' : i \in 1..(n - 1) /\ i + 1 \in Last(q)
      <4> SUFFICES ASSUME NEW i \in Last(q)' PROVE i \in 1..(n - 1) /\ i + 1 \in Last(q)
        OBVIOUS
      <4>1. /\ i \in 1..(n - 1) /\ pipe'[s][i].pid = q
            /\ \A j \in 1..(n - 1) : pipe'[s][j].pid = q => j <= i
        BY <1>1, <2>5, <2>11 DEF Last
      <4>2. i + 1 \in 1..n /\ pipe[s][i + 1].pid = q BY <4>1, <2>5
      <4>3. ASSUME NEW j \in 1..n, pipe[s][j].pid = q PROVE j <= i + 1
        <5>1. CASE j = 1 BY <5>1, <4>1
        <5>2. CASE j # 1
          <6>1. j - 1 \in 1..(n - 1) /\ (j - 1) + 1 = j BY <5>2, <2>5
          <6>2. pipe'[s][j - 1].pid = q BY <6>1, <4>3, <2>5
          <6> QED BY <6>1, <6>2, <4>1
        <5> QED BY <5>1, <5>2
      <4> QED BY <4>1, <4>2, <4>3, <2>5, <2>11 DEF Last
    <3>2. \A i \in Last(q)' : Outcome(pipe'[psi'[q]][i].msg) = TrueState(q)
      BY <1>1, <2>5, <2>9, <2>11, <3>1 DEF Shown
    <3>3. ASSUME Last(q)' = {} PROVE cstate'[q] = TrueState(q)
      <4>1. CASE q = p
        <5>1. 1 \in Last(q)
          <6>1. pipe[s][1].pid = q BY <4>1, <2>2 DEF p
          <6>2. ASSUME NEW j \in 1..n, pipe[s][j].pid = q, j # 1 PROVE FALSE
            <7> DEFINE T == {i \in 1..(n - 1) : pipe'[s][i].pid = q}
            <7>1. j - 1 \in 1..(n - 1) /\ (j - 1) + 1 = j BY <6>2, <2>5
            <7>2. pipe'[s][j - 1].pid = q BY <7>1, <6>2, <2>5
            <7>3. j - 1 \in T BY <7>1, <7>2
            <7>4. T \subseteq 1..(n - 1) /\ n - 1 \in Nat BY <2>5
            <7> HIDE DEF T
            <7>5. PICK x \in T : \A y \in T : y <= x BY <7>3, <7>4, Greatest
            <7>6. x \in Last(q)' BY <7>5, <1>1, <2>5, <2>11 DEF Last, T
            <7> QED BY <7>6, <3>3
          <6> QED BY <6>1, <6>2, <2>5, <2>11 DEF Last
        <5>2. Outcome(pipe[s][1].msg) = TrueState(q) BY <5>1, <2>9, <2>11 DEF Shown
        <5> QED BY <5>2, <4>1, <2>2, <2>8, <2>9
      <4>2. CASE q # p
        <5>1. Last(q) = {}
          <6> SUFFICES ASSUME NEW i \in Last(q) PROVE FALSE
            OBVIOUS
          <6>1. /\ i \in 1..n /\ pipe[s][i].pid = q
                /\ \A j \in 1..n : pipe[s][j].pid = q => j <= i
            BY <2>5, <2>11 DEF Last
          <6>2. i # 1 BY <6>1, <4>2, <2>2 DEF p
          <6>3. i - 1 \in 1..(n - 1) /\ (i - 1) + 1 = i BY <6>1, <6>2, <2>5
          <6>4. pipe'[s][i - 1].pid = q BY <6>1, <6>3, <2>5
          <6>5. ASSUME NEW j \in 1..(n - 1), pipe'[s][j].pid = q PROVE j <= i - 1
            <7>1. j + 1 \in 1..n /\ pipe[s][j + 1].pid = q BY <6>5, <2>5
            <7> QED BY <7>1, <6>1
          <6>6. i - 1 \in Last(q)' BY <6>3, <6>4, <6>5, <1>1, <2>5, <2>11 DEF Last
          <6> QED BY <6>6, <3>3
        <5> QED BY <4>2, <5>1, <2>7, <2>9 DEF Shown
      <4> QED BY <4>1, <4>2
    <3> QED BY <1>1, <2>9, <3>2, <3>3 DEF Shown
  <2> QED BY <2>10, <2>11
<1> QED BY <1>2, <1>3

LEMMA ViewStep == Regular /\ CountInv /\ ViewInv /\ [Next]_vars => ViewInv'
<1> SUFFICES ASSUME Regular, CountInv, ViewInv, [Next]_vars PROVE ViewInv'
  OBVIOUS
<1>1. CASE MasterNext
  BY <1>1, LoopView, RereadView, ReadView DEF MasterNext
<1>2. ASSUME NEW p \in Pids, ProcNext(p) \/ Deny(p) \/ Timeout(p) \/ Crash(p)
      PROVE  ViewInv'
  BY <1>2, NotifyStepView, QuietStepView DEF ProcNext
<1>3. CASE SigHup \/ \E s \in Services : Connect(s)
  BY <1>3, StillView DEF SigHup, Connect, tblVars, procVars, kernVars
<1>4. CASE UNCHANGED vars
  BY <1>4, StillView DEF vars, tblVars, procVars, kernVars
<1> QED BY <1>1, <1>2, <1>3, <1>4 DEF Next

\* Once master has read what a process wrote, its child table tells whether the
\* process is busy, however its messages wait in the pipe behind others, its
\* service is reconfigured and its neighbours die.
THEOREM MasterViewCorrect == Regular => (Spec => []MasterView)
<1> SUFFICES ASSUME Regular PROVE Spec => []MasterView
  OBVIOUS
<1>1. Spec => []CountInv
  BY CountInvariant
<1>2. Init => ViewInv
  BY DEF Init, ViewInv, Worker, Alive
<1>3. CountInv /\ ViewInv /\ [Next]_vars => ViewInv'
  BY ViewStep
<1>4. ViewInv => MasterView
  BY DEF ViewInv, MasterView, Worker, Shown
<1> QED BY <1>1, <1>2, <1>3, <1>4, PTL DEF Spec

=============================================================================
