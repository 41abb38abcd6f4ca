------------------------------- MODULE TxnMap -------------------------------
(***************************************************************************)
(* What a cyrusdb backend with transactions promises its callers           *)
(* (lib/cyrusdb.h): a map from keys to values that one process at a time   *)
(* changes.  A commit makes all of a transaction's changes permanent, an   *)
(* abort undoes them all, and a machine that goes down comes up with the   *)
(* last committed map; a commit that had not returned may count or not.    *)
(***************************************************************************)
CONSTANTS Procs, Keys, Vals, Absent, NoProc

VARIABLES
  durable,     \* the map a restarted machine comes up with
  working,     \* the map the holder of the lock sees
  writer,      \* the process with a transaction open, or NoProc
  committing   \* its commit has been written but has not returned

tmVars == <<durable, working, writer, committing>>

Maps == [Keys -> Vals \cup {Absent}]

TMInit == /\ durable = [k \in Keys |-> Absent]
          /\ working = durable
          /\ writer = NoProc
          /\ committing = FALSE

MayWrite(p) == writer \in {NoProc, p} /\ ~committing

\* store, create, delete, fetchlock: at most one key changes, and the process
\* has a transaction from now on.
Write(p) ==
  /\ MayWrite(p)
  /\ writer' = p
  /\ \E k \in Keys, v \in Vals \cup {Absent} :
       working' \in {working, [working EXCEPT ![k] = v]}
  /\ UNCHANGED <<durable, committing>>

StartCommit(p) == /\ writer = p /\ ~committing
                  /\ committing' = TRUE
                  /\ UNCHANGED <<durable, working, writer>>

EndCommit(p) == /\ writer = p
                /\ committing \/ working = durable
                /\ durable' = working
                /\ writer' = NoProc /\ committing' = FALSE
                /\ UNCHANGED working

Abort(p) == /\ writer \in {NoProc, p}
            /\ working' = durable
            /\ writer' = NoProc /\ committing' = FALSE
            /\ UNCHANGED durable

Restart == /\ \/ durable' = durable
              \/ committing /\ durable' = working
           /\ working' = durable'
           /\ writer' = NoProc /\ committing' = FALSE

TMNext == \/ \E p \in Procs : Write(p) \/ StartCommit(p) \/ EndCommit(p) \/ Abort(p)
          \/ Restart

TMSpec == TMInit /\ [][TMNext]_tmVars

=============================================================================
