------------------------------ MODULE MasterMC ------------------------------
(* Instances of Master for TLC.                                            *)
EXTENDS Master, TLC

CONSTANTS p1, p2, p3, p4

PidSymmetry == Permutations(Pids)

\* One prefork service with at most two workers, named "imap".
PreforkOne == <<1>>
MaxTwo     == <<2>>

\* An on-demand service and a babysat multi-threaded one, one worker each.
PreforkPair == <<0, 1>>
MaxPair     == <<1, 1>>

\* A service that keeps two workers ready and may have three processes.
PreforkTwo == <<2>>
MaxThree   == <<3>>

\* cyrus.conf(5) on maxchild: "The maximum number of instances of this service
\* to spawn"; the loop after select() in main() may fork beyond it.
MaxChildRespected == \A s \in Services : nactive[s] <= MaxChild[s]

\* The paranoia test of main() before select(), which logs "%s has %d
\* workers?!?": ready_workers is a number of processes and never negative.
NoNegativeWorkers == \A s \in Services : ready_workers[s] >= 0

=============================================================================
