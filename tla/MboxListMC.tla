----------------------------- MODULE MboxListMC -----------------------------
(* Two processes serve requests for three names.                           *)
EXTENDS MboxList, TLC
Swap == Permutations(Procs)

(* Four processes, each with its own requests: "a" is deleted while one    *)
(* RENAME of it waits, and is made again by two others.                    *)
StaleNext ==
  \/ Request("p", "rename", "a", "d") \/ Request("q", "rename", "b", "a")
  \/ Request("r", "rename", "c", "a")
  \/ Request("s", "delete", "a", "a") \/ Request("s", "delete", "b", "b")
  \/ \E p \in Procs : Step(p)
StaleSpec == Init /\ [][StaleNext]_vars
=============================================================================
