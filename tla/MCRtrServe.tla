----------------------------- MODULE MCRtrServe -----------------------------
(* Small instances of RtrServe for TLC. *)
EXTENDS RtrServe

CONSTANTS u1, r1

OneUpdater == {u1}
OneRouter == {r1}
NoSerials == {}
FirstSerial == {SerialModulus - 1}
=============================================================================
