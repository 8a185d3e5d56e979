----------------------------- MODULE RtrTables -----------------------------
(***************************************************************************)
(* The rpki-rtr tables of the database (lib/rpki/scmmain.h) and the SQL    *)
(* statements on them (lib/db/prep-stmt.c) that both the updater           *)
(* (bin/rpki-rtr/rtr-update.c) and the server (lib/db/clients/rtr.c) run.  *)
(* The tables are InnoDB and no client opens a transaction, so a statement *)
(* is one atomic step and nothing larger is.                               *)
(*                                                                         *)
(*   rtr_update       serial_num -> the other columns of its row           *)
(*   rtr_full         serial_num -> the VRPs stored for it ({}: no rows)   *)
(*   rtr_incremental  serial_num -> the announced and the withdrawn VRPs   *)
(*                                                                         *)
(* A VRP stands for (asn, prefix, prefix_length, prefix_max_length); it is *)
(* its rank in the order of the statements' "order by".                    *)
(***************************************************************************)
EXTENDS Integers, FiniteSets

CONSTANTS
    SerialModulus,  \* 2^32: serial_number_t is uint32_t
    NumVRP,         \* how many VRPs the validated cache can hold
    Retention,      \* CONFIG_RPKI_RTR_RETENTION_HOURS
    NULL            \* SQL's NULL

ASSUME SerialModulusAssumption == SerialModulus \in Nat \ {0, 1}
ASSUME NumVRPAssumption == NumVRP \in Nat
ASSUME RetentionAssumption == Retention \in Nat

Serial == 0 .. (SerialModulus - 1)
VRP == 1 .. NumVRP

ASSUME NullAssumption == NULL \notin Serial

VARIABLES rtr_update, rtr_full, rtr_incremental, now

tableVars == <<rtr_update, rtr_full, rtr_incremental, now>>

UpdateRow == [prev_serial_num : Serial \cup {NULL},
              create_time     : Nat,
              has_full        : BOOLEAN]
Delta == [announce : SUBSET VRP, withdraw : SUBSET VRP]
NoDelta == [announce |-> {}, withdraw |-> {}]

TablesTypeOK ==
    /\ DOMAIN rtr_update \subseteq Serial
    /\ \A s \in DOMAIN rtr_update : rtr_update[s] \in UpdateRow
    /\ rtr_full \in [Serial -> SUBSET VRP]
    /\ rtr_incremental \in [Serial -> Delta]
    /\ now \in Nat

\* The tables as they are created; rpki-rtr-initialize adds nothing to them.
TablesInit ==
    /\ rtr_update = [s \in {} |-> NULL]
    /\ rtr_full = [s \in Serial |-> {}]
    /\ rtr_incremental = [s \in Serial |-> NoDelta]
    /\ now = 0

-----------------------------------------------------------------------------
(***************************************************************************)
(* Queries.                                                                *)
(***************************************************************************)

\* The rows "order by create_time desc limit 1" may pick: create_time has a
\* resolution of one second, so there may be several.
LatestSerials ==
    {s \in DOMAIN rtr_update : \A t \in DOMAIN rtr_update :
        rtr_update[t].create_time <= rtr_update[s].create_time}

\* The rows whose prev_serial_num is s (UNIQUE KEY: at most one).
SerNumAsPrev(s) ==
    {n \in DOMAIN rtr_update : rtr_update[n].prev_serial_num = s}

MutInconsistentSerials(previous, current) ==
    \/ current \in DOMAIN rtr_update
    \/ SerNumAsPrev(previous) # {}

\* Using the serials would overwrite a row, close a loop or fork the history.
InconsistentSerials(previous, current) ==
    \/ current \in DOMAIN rtr_update
    \/ SerNumAsPrev(current) # {}
    \/ SerNumAsPrev(previous) # {}

\* PRIMARY KEY (serial_num) and UNIQUE KEY (prev_serial_num) of rtr_update
\* admit a new row.
KeysFree(serial, prev) ==
    /\ serial \notin DOMAIN rtr_update
    /\ prev # NULL => SerNumAsPrev(prev) = {}

\* The VRPs with a row in rtr_incremental for one serial.
Keys(delta) == delta.announce \cup delta.withdraw

HasChanges(s) == Keys(rtr_incremental[s]) # {}

\* The VRPs of serial t1 that serial t2 lacks: the left join of
\* DB_PSTMT_RTR_INSERT_INCREMENTAL.
OnlyIn(t1, t2) == rtr_full[t1] \ rtr_full[t2]

=============================================================================
