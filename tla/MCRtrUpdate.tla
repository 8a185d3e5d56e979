---------------------------- MODULE MCRtrUpdate ----------------------------
(* Small instances of RtrUpdate for TLC. *)
EXTENDS RtrUpdate, TLC

CONSTANT u1, u2

OneUpdater == {u1}
TwoUpdaters == {u1, u2}

\* random() is about to wrap around.
LastSerial == {SerialModulus - 1}
NoSerials == {}
Forced == {1}
=============================================================================
