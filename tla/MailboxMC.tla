----------------------------- MODULE MailboxMC -----------------------------
(* The mailbox for TLC: one imapd session and one process that delivers and *)
(* runs the administrators' tools.                                          *)
EXTENDS Mailbox
CONSTANTS s1, u1

\* States that differ only in files nobody can reach any more are the same.
Inode(i) ==
  i = dir.index \/ \E p \in Users : i \in {view[p].mfd, view[p].ino, op[p].fd}
Generation(g) == g \in {dir.cache, Current.gen} \/ \E p \in Users : g = view[p].gen
Reachable ==
  <<[i \in DOMAIN index |-> IF Inode(i) THEN <<index[i]>> ELSE <<>>],
    [g \in Inodes |-> IF Generation(g) THEN cache[g] ELSE <<>>],
    dir, xfile, msgs, used, header_lock, index_lock, op, view, mid, faults, history>>
=============================================================================
