----------------------------- MODULE RtrUpdate -----------------------------
(***************************************************************************)
(* rtr-update (bin/rpki-rtr/rtr-update.c): each run copies the validated   *)
(* VRPs into rtr_full under a new serial number, computes what changed     *)
(* since the previous serial, publishes the serial by inserting its row in *)
(* rtr_update, and retires old data.  One action is one SQL statement with *)
(* the local computation that follows it.  A run may die between any two   *)
(* statements; a statement that fails ends the run in the same way.        *)
(***************************************************************************)
EXTENDS RtrTables

CONSTANTS
    Updater,       \* the rtr-update processes that may overlap
    FirstSerials,  \* what random() may give an empty database
    ForcedSerials, \* serial numbers given on the command line (test mode)
    MaxTime        \* bound on the clock

ASSUME UpdaterAssumption ==
    /\ FirstSerials \subseteq Serial
    /\ ForcedSerials \subseteq Serial

VARIABLES
    pc,               \* the statement each updater executes next
    first_time,       \* the variables of main() in rtr-update.c
    force_update,
    previous_serial,
    current_serial,
    copied,  \* history: what insert_full read from the ROA tables
    snap     \* history: the VRPs each serial was last published for, or NULL

locals == <<first_time, force_update, previous_serial, current_serial, copied>>
updateVars == <<rtr_update, rtr_full, rtr_incremental, now, pc, first_time,
                force_update, previous_serial, current_serial, copied, snap>>

Statements ==
    {"get_latest_sernum", "delete_incomplete_incremental",
     "delete_incomplete_full", "good_serials", "insert_full",
     "insert_announcements", "insert_withdrawals",
     "has_incremental_changes", "insert_update", "delete_full",
     "ignore_old_full", "delete_old_full", "delete_old_update",
     "ignore_old_incremental", "delete_old_incremental"}

\* Type invariant of the tables and of the updaters.
TypeOK ==
    /\ TablesTypeOK
    /\ pc \in [Updater -> Statements]
    /\ first_time \in [Updater -> BOOLEAN]
    /\ force_update \in [Updater -> BOOLEAN]
    /\ previous_serial \in [Updater -> Serial \cup {NULL}]
    /\ current_serial \in [Updater -> Serial \cup {NULL}]
    /\ copied \in [Updater -> SUBSET VRP]
    /\ snap \in [Serial -> (SUBSET VRP) \cup {NULL}]

Init ==
    /\ TablesInit
    /\ pc = [u \in Updater |-> "get_latest_sernum"]
    /\ first_time = [u \in Updater |-> FALSE]
    /\ force_update = [u \in Updater |-> FALSE]
    /\ previous_serial = [u \in Updater |-> NULL]
    /\ current_serial = [u \in Updater |-> NULL]
    /\ copied = [u \in Updater |-> {}]
    /\ snap = [s \in Serial |-> NULL]

Goto(u, l) == pc' = [pc EXCEPT ![u] = l]

\* The process ends, for whatever reason; the next one starts afresh.
Exit(u) ==
    /\ Goto(u, "get_latest_sernum")
    /\ first_time' = [first_time EXCEPT ![u] = FALSE]
    /\ force_update' = [force_update EXCEPT ![u] = FALSE]
    /\ previous_serial' = [previous_serial EXCEPT ![u] = NULL]
    /\ current_serial' = [current_serial EXCEPT ![u] = NULL]
    /\ copied' = [copied EXCEPT ![u] = {}]

-----------------------------------------------------------------------------
(***************************************************************************)
(* Choosing the serial numbers, after sweeping up what dead runs left.     *)
(***************************************************************************)

\* A run gets here only with a valid session (has_valid_session; RtrNotify has
\* the session and its clearing).
GetLatestSernum(u) ==
    /\ pc[u] = "get_latest_sernum"
    /\ \E s \in IF DOMAIN rtr_update = {} THEN FirstSerials
                                          ELSE LatestSerials :
          previous_serial' = [previous_serial EXCEPT ![u] = s]
    /\ first_time' = [first_time EXCEPT ![u] = (DOMAIN rtr_update = {})]
    /\ Goto(u, "delete_incomplete_incremental")
    /\ UNCHANGED <<tableVars, force_update, current_serial, copied, snap>>

MutDeleteIncompleteIncremental(u) ==
    /\ pc[u] = "delete_incomplete_incremental"
    /\ Goto(u, "delete_incomplete_full")
    /\ UNCHANGED <<tableVars, locals, snap>>

DeleteIncompleteIncremental(u) ==
    /\ pc[u] = "delete_incomplete_incremental"
    /\ rtr_incremental' = [s \in Serial |->
            IF s \in DOMAIN rtr_update THEN rtr_incremental[s] ELSE NoDelta]
    /\ Goto(u, "delete_incomplete_full")
    /\ UNCHANGED <<rtr_update, rtr_full, now, locals, snap>>

MutNextSerial(s) == s + 1

\* "this relies on unsigned integer wrap-around to zero"
NextSerial(s) == (s + 1) % SerialModulus

\* delete_incomplete_updates forgets rtr_full.
MutPublishedFull == rtr_full

PublishedFull ==
    [s \in Serial |-> IF s \in DOMAIN rtr_update THEN rtr_full[s] ELSE {}]

\* The run then takes the serial after the previous one, or the one the
\* command line forces.
DeleteIncompleteFull(u) ==
    /\ pc[u] = "delete_incomplete_full"
    /\ rtr_full' = PublishedFull
    /\ \E forced \in BOOLEAN :
       \E s \in IF forced THEN ForcedSerials
                ELSE {NextSerial(previous_serial[u])} :
          /\ current_serial' = [current_serial EXCEPT ![u] = s]
          /\ force_update' = [force_update EXCEPT ![u] = forced]
    /\ Goto(u, IF first_time[u] THEN "insert_full" ELSE "good_serials")
    /\ UNCHANGED <<rtr_update, rtr_incremental, now, first_time,
                   previous_serial, copied, snap>>

GoodSerials(u) ==
    /\ pc[u] = "good_serials"
    /\ IF InconsistentSerials(previous_serial[u], current_serial[u])
       THEN Exit(u)
       ELSE Goto(u, "insert_full") /\ UNCHANGED locals
    /\ UNCHANGED <<tableVars, snap>>

-----------------------------------------------------------------------------
(***************************************************************************)
(* Storing the new data.  Nothing of it is visible to routers before       *)
(* InsertUpdate.                                                           *)
(***************************************************************************)

\* "insert ignore": rows already stored under the serial stay.
InsertFull(u) ==
    /\ pc[u] = "insert_full"
    /\ \E cache \in SUBSET VRP :
          /\ rtr_full' = [rtr_full EXCEPT ![current_serial[u]] =
                            @ \cup cache]
          /\ copied' = [copied EXCEPT ![u] = cache]
    /\ Goto(u, IF first_time[u] THEN "insert_update"
                                    ELSE "insert_announcements")
    /\ UNCHANGED <<rtr_update, rtr_incremental, now, first_time,
                   force_update, previous_serial, current_serial, snap>>

\* A plain insert: a key that is already there fails the statement.
InsertAnnouncements(u) ==
    LET current == current_serial[u]
        rows == OnlyIn(current, previous_serial[u])
    IN  /\ pc[u] = "insert_announcements"
        /\ IF rows \cap Keys(rtr_incremental[current]) = {}
           THEN /\ rtr_incremental' = [rtr_incremental EXCEPT
                        ![current] = [announce |-> @.announce \cup rows,
                                      withdraw |-> @.withdraw]]
                /\ Goto(u, "insert_withdrawals")
                /\ UNCHANGED locals
           ELSE Exit(u) /\ UNCHANGED rtr_incremental
        /\ UNCHANGED <<rtr_update, rtr_full, now, snap>>

InsertWithdrawals(u) ==
    LET current == current_serial[u]
        rows == OnlyIn(previous_serial[u], current)
    IN  /\ pc[u] = "insert_withdrawals"
        /\ IF rows \cap Keys(rtr_incremental[current]) = {}
           THEN /\ rtr_incremental' = [rtr_incremental EXCEPT
                        ![current] = [announce |-> @.announce,
                                      withdraw |-> @.withdraw \cup rows]]
                /\ Goto(u, "has_incremental_changes")
                /\ UNCHANGED locals
           ELSE Exit(u) /\ UNCHANGED rtr_incremental
        /\ UNCHANGED <<rtr_update, rtr_full, now, snap>>

HasIncrementalChanges(u) ==
    /\ pc[u] = "has_incremental_changes"
    /\ Goto(u, IF HasChanges(current_serial[u]) \/ force_update[u]
               THEN "insert_update" ELSE "delete_full")
    /\ UNCHANGED <<tableVars, locals, snap>>

PrevSerial(u) == IF first_time[u] THEN NULL ELSE previous_serial[u]

\* Publishes the serial.
InsertUpdate(u) ==
    LET current == current_serial[u]
    IN  /\ pc[u] = "insert_update"
        /\ IF KeysFree(current, PrevSerial(u))
           THEN /\ rtr_update' =
                     [s \in DOMAIN rtr_update \cup {current} |->
                        IF s = current
                        THEN [prev_serial_num |-> PrevSerial(u),
                              create_time |-> now, has_full |-> TRUE]
                        ELSE rtr_update[s]]
                /\ snap' = [snap EXCEPT ![current] = copied[u]]
                /\ Goto(u, "ignore_old_full")
                /\ UNCHANGED locals
           ELSE Exit(u) /\ UNCHANGED <<rtr_update, snap>>
        /\ UNCHANGED <<rtr_full, rtr_incremental, now>>

\* The cache has not changed: the copy is useless.
DeleteFull(u) ==
    /\ pc[u] = "delete_full"
    /\ rtr_full' = [rtr_full EXCEPT ![current_serial[u]] = {}]
    /\ Goto(u, "ignore_old_full")
    /\ UNCHANGED <<rtr_update, rtr_incremental, now, locals, snap>>

-----------------------------------------------------------------------------
(***************************************************************************)
(* Retiring old data: first its rtr_update row is marked, then it goes.    *)
(***************************************************************************)

MutKept(u) == {previous_serial[u]}

Kept(u) == {current_serial[u], previous_serial[u]}

MutIgnoreOldFull(u) ==
    /\ pc[u] = "ignore_old_full"
    /\ Goto(u, "delete_old_full")
    /\ UNCHANGED <<tableVars, locals, snap>>

IgnoreOldFull(u) ==
    /\ pc[u] = "ignore_old_full"
    /\ rtr_update' = [s \in DOMAIN rtr_update |->
            IF s \in Kept(u) THEN rtr_update[s]
            ELSE [rtr_update[s] EXCEPT !.has_full = FALSE]]
    /\ Goto(u, "delete_old_full")
    /\ UNCHANGED <<rtr_full, rtr_incremental, now, locals, snap>>

DeleteOldFull(u) ==
    /\ pc[u] = "delete_old_full"
    /\ rtr_full' = [s \in Serial |->
            IF s \in Kept(u) THEN rtr_full[s] ELSE {}]
    /\ Goto(u, "delete_old_update")
    /\ UNCHANGED <<rtr_update, rtr_incremental, now, locals, snap>>

Expired(s) == rtr_update[s].create_time < now - Retention

DeleteOldUpdate(u) ==
    /\ pc[u] = "delete_old_update"
    /\ rtr_update' =
         [s \in {t \in DOMAIN rtr_update : t \in Kept(u) \/ ~Expired(t)} |->
            rtr_update[s]]
    /\ Goto(u, "ignore_old_incremental")
    /\ UNCHANGED <<rtr_full, rtr_incremental, now, locals, snap>>

IgnoreOldIncremental(u) ==
    /\ pc[u] = "ignore_old_incremental"
    /\ rtr_update' = [s \in DOMAIN rtr_update |->
            IF rtr_update[s].prev_serial_num \in DOMAIN rtr_update
            THEN rtr_update[s]
            ELSE [rtr_update[s] EXCEPT !.prev_serial_num = NULL]]
    /\ Goto(u, "delete_old_incremental")
    /\ UNCHANGED <<rtr_full, rtr_incremental, now, locals, snap>>

HasPrev(s) ==
    s \in DOMAIN rtr_update /\ rtr_update[s].prev_serial_num # NULL

DeleteOldIncremental(u) ==
    /\ pc[u] = "delete_old_incremental"
    /\ rtr_incremental' = [s \in Serial |->
            IF HasPrev(s) THEN rtr_incremental[s] ELSE NoDelta]
    /\ Exit(u)
    /\ UNCHANGED <<rtr_update, rtr_full, now, snap>>

-----------------------------------------------------------------------------

\* The process is killed, or its next statement fails.
Crash(u) ==
    /\ pc[u] # "get_latest_sernum"
    /\ Exit(u)
    /\ UNCHANGED <<tableVars, snap>>

Tick ==
    /\ now < MaxTime
    /\ now' = now + 1
    /\ UNCHANGED <<rtr_update, rtr_full, rtr_incremental, pc,
                   locals, snap>>

Step(u) ==
    \/ GetLatestSernum(u)
    \/ DeleteIncompleteIncremental(u)
    \/ DeleteIncompleteFull(u)
    \/ GoodSerials(u)
    \/ InsertFull(u)
    \/ InsertAnnouncements(u)
    \/ InsertWithdrawals(u)
    \/ HasIncrementalChanges(u)
    \/ InsertUpdate(u)
    \/ DeleteFull(u)
    \/ IgnoreOldFull(u)
    \/ DeleteOldFull(u)
    \/ DeleteOldUpdate(u)
    \/ IgnoreOldIncremental(u)
    \/ DeleteOldIncremental(u)
    \/ Crash(u)

Next == Tick \/ \E u \in Updater : Step(u)

Spec == Init /\ [][Next]_updateVars

-----------------------------------------------------------------------------
(***************************************************************************)
(* Properties.                                                             *)
(***************************************************************************)

\* A serial marked has_full in rtr_update has in rtr_full exactly the VRPs
\* that were valid when it was copied: no rows of a run that died before
\* (delete_incomplete_updates) and none lost to the clean-up.
FullMatchesSnapshot ==
    \A s \in DOMAIN rtr_update :
        rtr_update[s].has_full => rtr_full[s] = snap[s]

\* A serial with a prev_serial_num has in rtr_incremental exactly the
\* difference from that serial's VRPs to its own, whatever happened to the
\* rtr_full rows it was computed from.
IncrementalIsDifference ==
    \A s \in DOMAIN rtr_update :
        LET p == rtr_update[s].prev_serial_num
        IN  p # NULL => rtr_incremental[s] =
                [announce |-> snap[s] \ snap[p], withdraw |-> snap[p] \ snap[s]]

\* The rows no other row names as its predecessor.
Tips == {s \in DOMAIN rtr_update : SerNumAsPrev(s) = {}}

\* The serials form one chain: from every one of them a serial query is led,
\* row by row, to a single newest serial (good_serials: no overwriting, no
\* loop, no diverging history), even when serial numbers are reused.
HistoryIsChain ==
    /\ DOMAIN rtr_update # {} => \E s \in Serial : Tips = {s}
    /\ \A s, t \in DOMAIN rtr_update :
          /\ rtr_update[s].prev_serial_num # NULL
          /\ rtr_update[s].prev_serial_num = rtr_update[t].prev_serial_num
          => s = t

\* The newest serial of the chain can always be sent in full, also between
\* the statements of a run and after a run that died (rtr.c:1040, reset
\* queries answer "no data available" otherwise).
NewestHasFull == \A s \in Tips : rtr_update[s].has_full

\* rtr.c:176: "Each timestamp in rtr_update occurs in exactly 1 row", which
\* get_latest_sernum relies on.  Two runs in one second break it; it is a
\* constraint where equal timestamps are to be left out.
TimestampsUnique ==
    \A s, t \in DOMAIN rtr_update :
        rtr_update[s].create_time = rtr_update[t].create_time => s = t

\* Only data that rtr_update does not offer to routers is deleted.
DeletesOnlyMarked ==
    \A s \in DOMAIN rtr_update :
        /\ rtr_update[s].has_full => rtr_full[s] \subseteq rtr_full'[s]
        /\ rtr_update[s].prev_serial_num # NULL
           => Keys(rtr_incremental[s]) \subseteq Keys(rtr_incremental'[s])

\* rtr-update.c:229: "All data must be marked as unusable according to
\* rtr_update before it is deleted from rtr_full or rtr_incremental."
MarkedBeforeDeleted == [][DeletesOnlyMarked]_updateVars

=============================================================================
