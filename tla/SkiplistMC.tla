----------------------------- MODULE SkiplistMC -----------------------------
(* Instances of Skiplist for TLC.                                          *)
EXTENDS Skiplist, TLC

CONSTANTS p1, p2, v1, v2

\* Processes and values are interchangeable.
ProcValSymmetry == Permutations(Procs) \cup Permutations(Vals)

\* cyrusdb_skiplist.c:89: "a checkpoint rewrites the data file in order, removing
\* any unused records": recovery, which links the nodes of the last checkpoint
\* in file order, finds in a file at rest the list that is in it.
CheckpointInOrder ==
  Recovered /\ txn = NoTxn =>
    LET r == recovery(file) IN
    r.ok /\ myconsistent(r.file.recs) /\ ListMap(r.file) = ListMap(file)

=============================================================================
