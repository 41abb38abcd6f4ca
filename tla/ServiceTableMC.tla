--------------------------- MODULE ServiceTableMC ---------------------------
(* Instances of ServiceTable for TLC.                                      *)
EXTENDS ServiceTable, TLC

CONSTANTS a, b, x, y, z

NameSymmetry == Permutations(Names)

\* master(8): "Services and events may be added, deleted or modified when the
\* configuration file is reread": after a SIGHUP the configured services run.
AllConfigured == ~dirty => Enabled(Addrs)

=============================================================================
