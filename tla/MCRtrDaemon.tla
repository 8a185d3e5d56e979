---------------------------- MODULE MCRtrDaemon ----------------------------
(* Small instances of RtrDaemon for TLC. *)
EXTENDS RtrDaemon

CONSTANTS c1, c2, t1, t2

OneCxn == {c1}
TwoCxns == {c1, c2}
TwoDbs == {t1, t2}
DaemonSymmetry == Permutations(Cxn) \cup Permutations(Db)
=============================================================================
