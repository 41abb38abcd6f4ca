------------------------------- MODULE SyncMC -------------------------------
(* Instances of Sync: one user with an INBOX and two folders.              *)
EXTENDS Sync, TLC

MCOrder == <<"i", "a", "b">>
MCFolders == {"a", "b"}
MCBusy == {"i", "a"}
Swap == Permutations(Writers)
=============================================================================
