---------------------------- MODULE MCRtrNotify ----------------------------
(***************************************************************************)
(* RtrNotify with few serial numbers, so that they wrap around.            *)
(***************************************************************************)
EXTENDS RtrNotify

MCFirstSerials == {SerialModulus - 2}
=============================================================================
