-------------------------- MODULE RtrUpdateProofs --------------------------
(***************************************************************************)
(* Proofs about RtrUpdate, for every number of serials and VRPs, every     *)
(* retention time and every clock.  The safety properties need that runs   *)
(* of rtr-update do not overlap; crashes at any statement are included.    *)
(***************************************************************************)
EXTENDS RtrUpdate, TLAPS

-----------------------------------------------------------------------------
(***************************************************************************)
(* Type correctness, however many updaters overlap.                        *)
(***************************************************************************)

\* The serial after any other is a serial number again.
LEMMA NextSerialType == \A s \in Serial : NextSerial(s) \in Serial
  BY SerialModulusAssumption DEF Serial, NextSerial

Starting == {"get_latest_sernum", "delete_incomplete_incremental",
             "delete_incomplete_full"}

\* A run has read its previous serial, and chosen its own, before it uses it.
SerialsSet(u) ==
    /\ pc[u] # "get_latest_sernum" => previous_serial[u] \in Serial
    /\ pc[u] \notin Starting => current_serial[u] \in Serial

TypeInv ==
    /\ TypeOK
    /\ \A u \in Updater : SerialsSet(u)

\* The initial state is well typed.
LEMMA TypeInvInit == Init => TypeInv
  BY DEF Init, TablesInit, TypeInv, TypeOK, TablesTypeOK, Statements,
         SerialsSet, Starting, NoDelta, Delta

\* Every statement of a run, and its end, keeps the types.
LEMMA TypeInvStep ==
  ASSUME NEW u \in Updater, TypeInv, Step(u)
  PROVE  TypeInv'
PROOF
  <1> USE DEF TypeInv, TypeOK, TablesTypeOK, tableVars, locals, Goto,
              Statements, SerialsSet, Starting
  <1>0. ASSUME Exit(u) PROVE
          /\ pc' \in [Updater -> Statements]
          /\ first_time' \in [Updater -> BOOLEAN]
          /\ force_update' \in [Updater -> BOOLEAN]
          /\ previous_serial' \in [Updater -> Serial \cup {NULL}]
          /\ current_serial' \in [Updater -> Serial \cup {NULL}]
          /\ copied' \in [Updater -> SUBSET VRP]
          /\ \A v \in Updater : SerialsSet(v)'
    BY <1>0 DEF Exit
  <1>1. CASE GetLatestSernum(u)
    <2>1. PICK s \in Serial :
            previous_serial' = [previous_serial EXCEPT ![u] = s]
      BY <1>1, UpdaterAssumption, ZenonT(30) DEF GetLatestSernum, LatestSerials
    <2> QED
      BY <1>1, <2>1 DEF GetLatestSernum
  <1>2. CASE DeleteIncompleteIncremental(u)
    BY <1>2 DEF DeleteIncompleteIncremental, NoDelta, Delta
  <1>3. CASE DeleteIncompleteFull(u)
    <2>1. NextSerial(previous_serial[u]) \in Serial
      BY <1>3, NextSerialType DEF DeleteIncompleteFull
    <2>2. PICK s \in Serial, forced \in BOOLEAN :
            /\ current_serial' = [current_serial EXCEPT ![u] = s]
            /\ force_update' = [force_update EXCEPT ![u] = forced]
      BY <1>3, <2>1, UpdaterAssumption, ZenonT(30) DEF DeleteIncompleteFull
    <2> QED
      BY <1>3, <2>2 DEF DeleteIncompleteFull, PublishedFull
  <1>4. CASE GoodSerials(u)
    BY <1>4, <1>0 DEF GoodSerials
  <1>5. CASE InsertFull(u)
    BY <1>5 DEF InsertFull
  <1>6. CASE InsertAnnouncements(u)
    <2>1. OnlyIn(current_serial[u], previous_serial[u]) \subseteq VRP
      BY <1>6 DEF InsertAnnouncements, OnlyIn
    <2>2. rtr_incremental' \in [Serial -> Delta]
      BY <1>6, <2>1 DEF InsertAnnouncements, Delta
    <2> QED
      BY <1>6, <2>2, <1>0 DEF InsertAnnouncements
  <1>7. CASE InsertWithdrawals(u)
    <2>1. OnlyIn(previous_serial[u], current_serial[u]) \subseteq VRP
      BY <1>7 DEF InsertWithdrawals, OnlyIn
    <2>2. rtr_incremental' \in [Serial -> Delta]
      BY <1>7, <2>1 DEF InsertWithdrawals, Delta
    <2> QED
      BY <1>7, <2>2, <1>0 DEF InsertWithdrawals
  <1>8. CASE HasIncrementalChanges(u)
    BY <1>8 DEF HasIncrementalChanges
  <1>9. CASE InsertUpdate(u)
    <2>1. CASE KeysFree(current_serial[u], PrevSerial(u))
      <3> DEFINE row == [prev_serial_num |-> PrevSerial(u),
                         create_time |-> now, has_full |-> TRUE]
      <3>0. row \in UpdateRow
        BY DEF UpdateRow, PrevSerial
      <3>1. \A s \in DOMAIN rtr_update' : rtr_update'[s] \in UpdateRow
        <4> HIDE DEF row
        <4>1. rtr_update' = [s \in DOMAIN rtr_update \cup {current_serial[u]}
                |-> IF s = current_serial[u] THEN row ELSE rtr_update[s]]
          BY <1>9, <2>1 DEF InsertUpdate, row
        <4> QED
          BY <3>0, <4>1
      <3>2. DOMAIN rtr_update' \subseteq Serial
        BY <1>9, <2>1 DEF InsertUpdate
      <3>3. snap' \in [Serial -> (SUBSET VRP) \cup {NULL}]
        BY <1>9, <2>1 DEF InsertUpdate
      <3> QED
        BY <1>9, <2>1, <3>1, <3>2, <3>3 DEF InsertUpdate
    <2>2. CASE ~KeysFree(current_serial[u], PrevSerial(u))
      BY <1>9, <2>2, <1>0 DEF InsertUpdate
    <2> QED
      BY <2>1, <2>2
  <1>10. CASE DeleteFull(u)
    BY <1>10 DEF DeleteFull
  <1>11. CASE IgnoreOldFull(u)
    BY <1>11, ZenonT(30) DEF IgnoreOldFull, UpdateRow
  <1>12. CASE DeleteOldFull(u)
    BY <1>12 DEF DeleteOldFull
  <1>13. CASE DeleteOldUpdate(u)
    BY <1>13 DEF DeleteOldUpdate
  <1>14. CASE IgnoreOldIncremental(u)
    BY <1>14 DEF IgnoreOldIncremental, UpdateRow
  <1>15. CASE DeleteOldIncremental(u)
    BY <1>15, <1>0 DEF DeleteOldIncremental, NoDelta, Delta
  <1>16. CASE Crash(u)
    BY <1>16, <1>0 DEF Crash
  <1> QED
    BY <1>1, <1>2, <1>3, <1>4, <1>5, <1>6, <1>7, <1>8, <1>9, <1>10, <1>11, ZenonT(30),
       <1>12, <1>13, <1>14, <1>15, <1>16 DEF Step

\* The tables and the local variables of rtr-update are well typed whatever
\* runs overlap or die.
THEOREM TypeCorrect == Spec => []TypeOK
PROOF
  <1>1. TypeInv /\ [Next]_updateVars => TypeInv'
    <2> SUFFICES ASSUME TypeInv, [Next]_updateVars PROVE TypeInv'
      OBVIOUS
    <2>1. CASE Tick
      BY <2>1 DEF Tick, TypeInv, TypeOK, TablesTypeOK, locals, SerialsSet
    <2>2. CASE \E u \in Updater : Step(u)
      BY <2>2, TypeInvStep
    <2>3. CASE UNCHANGED updateVars
      BY <2>3 DEF updateVars, TypeInv, TypeOK, TablesTypeOK, SerialsSet
    <2> QED
      BY <2>1, <2>2, <2>3 DEF Next
  <1>2. TypeInv => TypeOK
    BY DEF TypeInv
  <1> QED
    BY TypeInvInit, <1>1, <1>2, PTL DEF Spec

-----------------------------------------------------------------------------
(***************************************************************************)
(* The inductive invariant.  FullMatchesSnapshot, IncrementalIsDifference  *)
(* and HistoryIsChain are not inductive: they hold after InsertUpdate only *)
(* because of what the statements before it have established about the     *)
(* rows of a serial that is not published yet, and after DeleteOldUpdate   *)
(* only because a predecessor is never younger than its successor.         *)
(***************************************************************************)

\* Runs of rtr-update do not overlap.
OneUpdater == \A u, v \in Updater : u = v

Choosing == {"delete_incomplete_incremental", "delete_incomplete_full",
             "good_serials"}
Storing == {"insert_full", "insert_announcements", "insert_withdrawals",
            "has_incremental_changes", "insert_update", "delete_full"}
Cleaning == {"ignore_old_full", "delete_old_full", "delete_old_update",
             "ignore_old_incremental", "delete_old_incremental"}

\* No row is younger than the clock, no predecessor than its successor.
TimesInv ==
    \A s \in DOMAIN rtr_update :
        /\ rtr_update[s].create_time <= now
        /\ \A t \in SerNumAsPrev(s) :
              rtr_update[s].create_time <= rtr_update[t].create_time

TableInv == HistoryIsChain /\ NewestHasFull /\ TimesInv

\* A run that has chosen its previous serial, before it publishes.
StartInv(u) ==
    pc[u] \in Choosing \cup Storing =>
        /\ first_time[u] <=> DOMAIN rtr_update = {}
        /\ ~first_time[u] => previous_serial[u] \in DOMAIN rtr_update

\* The sweep has removed the rows of unpublished serials.
SweptInv(u) ==
    /\ pc[u] \in {"delete_incomplete_full", "good_serials", "insert_full"} =>
          \A s \in Serial \ DOMAIN rtr_update : rtr_incremental[s] = NoDelta
    /\ pc[u] \in {"good_serials", "insert_full"} =>
          \A s \in Serial \ DOMAIN rtr_update : rtr_full[s] = {}

\* The serials of a run that good_serials has let through.
SerialsInv(u) ==
    /\ pc[u] \in Storing =>
          /\ current_serial[u] \notin DOMAIN rtr_update
          /\ SerNumAsPrev(current_serial[u]) = {}
          /\ ~first_time[u] => previous_serial[u] \in Tips
    /\ pc[u] \in Storing \ {"insert_full", "insert_update"} => ~first_time[u]

\* What has been stored for the new serial so far.
StoredInv(u) ==
    LET current == current_serial[u]
        previous == previous_serial[u]
    IN  /\ pc[u] \in Storing \ {"insert_full"} =>
              rtr_full[current] = copied[u]
        /\ pc[u] = "insert_announcements" =>
              rtr_incremental[current] = NoDelta
        /\ pc[u] = "insert_withdrawals" =>
              rtr_incremental[current] =
                [announce |-> OnlyIn(current, previous), withdraw |-> {}]
        /\ /\ pc[u] \in {"has_incremental_changes", "insert_update"}
           /\ ~first_time[u]
           => rtr_incremental[current] =
                [announce |-> OnlyIn(current, previous),
                 withdraw |-> OnlyIn(previous, current)]

\* While old data is retired, the newest serial is the run's own and its
\* predecessor the run's previous one, or it is the run's own and the only
\* one, or the run has published nothing and it is the previous one.
CleaningInv(u) ==
    /\ pc[u] \in Cleaning =>
          \/ /\ current_serial[u] \in Tips
             /\ previous_serial[u] \in DOMAIN rtr_update
             /\ current_serial[u] \in SerNumAsPrev(previous_serial[u])
          \/ DOMAIN rtr_update = {current_serial[u]}
          \/ /\ current_serial[u] \notin DOMAIN rtr_update
             /\ previous_serial[u] \in Tips
    /\ pc[u] = "delete_old_full" =>
          \A s \in DOMAIN rtr_update :
              rtr_update[s].has_full => s \in Kept(u)

RunInv(u) ==
    /\ StartInv(u)
    /\ SweptInv(u)
    /\ SerialsInv(u)
    /\ StoredInv(u)
    /\ CleaningInv(u)

IndInv ==
    /\ TypeInv
    /\ TableInv
    /\ FullMatchesSnapshot
    /\ IncrementalIsDifference
    /\ \A u \in Updater : RunInv(u)

\* The empty tables satisfy the invariant.
LEMMA IndInvInit == Init => IndInv
PROOF
  <1> SUFFICES ASSUME Init PROVE IndInv
    OBVIOUS
  <1>1. TypeInv
    BY TypeInvInit
  <1>2. DOMAIN rtr_update = {}
    BY DEF Init, TablesInit
  <1>3. TableInv /\ FullMatchesSnapshot /\ IncrementalIsDifference
    BY <1>2 DEF TableInv, HistoryIsChain, NewestHasFull, Tips, TimesInv,
                FullMatchesSnapshot, IncrementalIsDifference
  <1>4. \A u \in Updater : RunInv(u)
    BY DEF Init, RunInv, StartInv, SweptInv, SerialsInv, StoredInv,
           CleaningInv, Choosing, Storing, Cleaning
  <1> QED
    BY <1>1, <1>3, <1>4 DEF IndInv

\* The invariants of the published rows depend on these rows alone.
LEMMA RowsKept ==
  ASSUME TableInv, FullMatchesSnapshot, IncrementalIsDifference,
         UNCHANGED <<rtr_update, now, snap>>,
         \A s \in DOMAIN rtr_update :
            /\ rtr_update[s].has_full => rtr_full'[s] = rtr_full[s]
            /\ rtr_update[s].prev_serial_num # NULL =>
                  rtr_incremental'[s] = rtr_incremental[s]
  PROVE  TableInv' /\ FullMatchesSnapshot' /\ IncrementalIsDifference'
PROOF
  <1>1. TableInv'
    BY SMTT(30) DEF TableInv, HistoryIsChain, NewestHasFull, Tips, TimesInv,
           SerNumAsPrev
  <1>2. FullMatchesSnapshot'
    BY DEF FullMatchesSnapshot
  <1>3. IncrementalIsDifference'
    BY DEF IncrementalIsDifference
  <1> QED
    BY <1>1, <1>2, <1>3

\* The statements before InsertUpdate store only rows of a serial that is
\* not published.
LEMMA BeforePublishing ==
  ASSUME NEW u \in Updater, IndInv,
         \/ GetLatestSernum(u)
         \/ DeleteIncompleteIncremental(u)
         \/ DeleteIncompleteFull(u)
         \/ GoodSerials(u)
         \/ InsertFull(u)
         \/ InsertAnnouncements(u)
         \/ InsertWithdrawals(u)
         \/ HasIncrementalChanges(u)
         \/ DeleteFull(u)
         \/ Crash(u)
  PROVE  TableInv' /\ FullMatchesSnapshot' /\ IncrementalIsDifference'
PROOF
  <1> USE DEF IndInv, tableVars
  <1>1. UNCHANGED <<rtr_update, now, snap>>
    BY DEF GetLatestSernum, DeleteIncompleteIncremental,
           DeleteIncompleteFull, GoodSerials, InsertFull,
           InsertAnnouncements, InsertWithdrawals, HasIncrementalChanges,
           DeleteFull, Crash
  <1>2. pc[u] \in Storing => current_serial[u] \notin DOMAIN rtr_update
    BY DEF RunInv, SerialsInv
  <1>3. \A s \in DOMAIN rtr_update : s \in Serial /\ rtr_full'[s] = rtr_full[s]
    BY <1>2 DEF GetLatestSernum, DeleteIncompleteIncremental,
           DeleteIncompleteFull, PublishedFull, GoodSerials, InsertFull,
           InsertAnnouncements, InsertWithdrawals, HasIncrementalChanges,
           DeleteFull, Crash, Storing, TypeInv, TypeOK, TablesTypeOK
  <1>4. \A s \in DOMAIN rtr_update : rtr_incremental'[s] = rtr_incremental[s]
    BY <1>2, <1>3 DEF GetLatestSernum, DeleteIncompleteIncremental,
           DeleteIncompleteFull, GoodSerials, InsertFull,
           InsertAnnouncements, InsertWithdrawals, HasIncrementalChanges,
           DeleteFull, Crash, Storing, TypeInv, TypeOK, TablesTypeOK
  <1> QED
    BY <1>1, <1>3, <1>4, RowsKept

\* The rows that name a predecessor, and the newest rows, are read off
\* rtr_update.
LEMMA TipsKept ==
  ASSUME UNCHANGED rtr_update
  PROVE  /\ Tips' = Tips
         /\ \A s : SerNumAsPrev(s)' = SerNumAsPrev(s)
  BY DEF Tips, SerNumAsPrev

\* What the run knows grows with each of its statements.
LEMMA RunBeforePublishing ==
  ASSUME NEW u \in Updater, IndInv, TypeInv',
         \/ GetLatestSernum(u)
         \/ DeleteIncompleteIncremental(u)
         \/ DeleteIncompleteFull(u)
         \/ GoodSerials(u)
         \/ InsertFull(u)
         \/ InsertAnnouncements(u)
         \/ InsertWithdrawals(u)
         \/ HasIncrementalChanges(u)
         \/ DeleteFull(u)
         \/ Crash(u)
  PROVE  RunInv(u)'
PROOF
  <1> USE DEF IndInv, tableVars, locals, Goto, TypeInv, TypeOK, TablesTypeOK
  <1>0. ASSUME Exit(u) PROVE RunInv(u)'
    <2>1. pc'[u] = "get_latest_sernum"
      BY <1>0 DEF Exit
    <2> QED
      BY <2>1, ZenonT(30) DEF RunInv, StartInv, SweptInv, SerialsInv, StoredInv,
                  CleaningInv, Choosing, Storing, Cleaning
  <1>1. CASE GetLatestSernum(u)
    <2>1. /\ pc'[u] = "delete_incomplete_incremental"
          /\ UNCHANGED rtr_update
          /\ first_time'[u] = (DOMAIN rtr_update = {})
      BY <1>1 DEF GetLatestSernum
    <2>2. DOMAIN rtr_update # {} => previous_serial'[u] \in DOMAIN rtr_update
      BY <1>1 DEF GetLatestSernum, LatestSerials
    <2> QED
      BY <2>1, <2>2, ZenonT(30)
         DEF RunInv, StartInv, SweptInv, SerialsInv, StoredInv,
                  CleaningInv, Choosing, Storing, Cleaning
  <1>2. CASE DeleteIncompleteIncremental(u)
    <2>1. /\ pc[u] = "delete_incomplete_incremental"
          /\ pc'[u] = "delete_incomplete_full"
          /\ UNCHANGED <<rtr_update, locals>>
      BY <1>2 DEF DeleteIncompleteIncremental
    <2>2. \A s \in Serial \ DOMAIN rtr_update : rtr_incremental'[s] = NoDelta
      BY <1>2 DEF DeleteIncompleteIncremental
    <2> QED
      BY <2>1, <2>2, ZenonT(30)
         DEF RunInv, StartInv, SweptInv, SerialsInv, StoredInv,
                  CleaningInv, Choosing, Storing, Cleaning
  <1>3. CASE DeleteIncompleteFull(u)
    <2>1. /\ pc[u] = "delete_incomplete_full"
          /\ pc'[u] = IF first_time[u] THEN "insert_full" ELSE "good_serials"
          /\ UNCHANGED <<rtr_update, rtr_incremental, first_time,
                         previous_serial>>
      BY <1>3 DEF DeleteIncompleteFull
    <2>2. \A s \in Serial \ DOMAIN rtr_update : rtr_full'[s] = {}
      BY <1>3, SMTT(30) DEF DeleteIncompleteFull, PublishedFull
    <2>3. StartInv(u) /\ SweptInv(u)
      BY SMTT(30) DEF RunInv
    <2>4. StartInv(u)' /\ SweptInv(u)'
      BY <2>1, <2>2, <2>3 DEF StartInv, SweptInv, Choosing, Storing
    <2>5. SerialsInv(u)'
      <3>1. CASE first_time[u]
        <4>1. DOMAIN rtr_update' = {} /\ first_time'[u]
          BY <2>1, <2>3, <3>1 DEF StartInv, Choosing
        <4> QED
          BY <2>1, <3>1, <4>1, SMTT(30) DEF SerialsInv, SerNumAsPrev
      <3>2. CASE ~first_time[u]
        BY <2>1, <3>2 DEF SerialsInv, Storing
      <3> QED
        BY <3>1, <3>2, SMTT(30)
    <2> QED
      BY <2>1, <2>4, <2>5, ZenonT(30)
         DEF RunInv, StoredInv, CleaningInv, Storing,
                              Cleaning
  <1>4. CASE GoodSerials(u)
    <2>1. CASE Exit(u)
      BY <1>0, <2>1
    <2>2. CASE ~Exit(u)
      <3>1. /\ pc[u] = "good_serials"
            /\ pc'[u] = "insert_full"
            /\ UNCHANGED <<rtr_update, rtr_full, rtr_incremental, locals>>
            /\ ~InconsistentSerials(previous_serial[u], current_serial[u])
        BY <1>4, <2>2 DEF GoodSerials
      <3>2. /\ current_serial[u] \notin DOMAIN rtr_update
            /\ SerNumAsPrev(current_serial[u]) = {}
            /\ SerNumAsPrev(previous_serial[u]) = {}
        BY <3>1 DEF InconsistentSerials
      <3>3. StartInv(u)' /\ SweptInv(u)'
        BY <3>1, ZenonT(30) DEF RunInv, StartInv, SweptInv, Choosing, Storing
      <3>4. ~first_time[u] => previous_serial[u] \in Tips
        BY <3>1, <3>2, SMTT(30) DEF RunInv, StartInv, Choosing, Tips
      <3>5. SerialsInv(u)'
        BY <3>1, <3>2, <3>4, TipsKept DEF SerialsInv, Storing
      <3> QED
        BY <3>1, <3>3, <3>5, ZenonT(30)
           DEF RunInv, StoredInv, CleaningInv, Cleaning
    <2> QED
      BY <2>1, <2>2
  <1>5. CASE InsertFull(u)
    <2>1. /\ pc[u] = "insert_full"
          /\ pc'[u] = IF first_time[u] THEN "insert_update"
                                       ELSE "insert_announcements"
          /\ UNCHANGED <<rtr_update, rtr_incremental, first_time,
                         previous_serial, current_serial>>
      BY <1>5, SMTT(30) DEF InsertFull
    <2>2. /\ StartInv(u) /\ SweptInv(u) /\ SerialsInv(u)
          /\ current_serial[u] \in Serial \ DOMAIN rtr_update
      BY <2>1, SMTT(30) DEF RunInv, SerialsInv, Storing, SerialsSet, Starting
    <2>3. StartInv(u)' /\ SweptInv(u)'
      BY <2>1, <2>2, SMTT(30) DEF StartInv, SweptInv, Storing
    <2>4. SerialsInv(u)'
      BY <2>1, <2>2, TipsKept, SMTT(30) DEF SerialsInv, Storing
    <2>5. StoredInv(u)'
      <3>1. rtr_full[current_serial[u]] = {}
            /\ rtr_incremental[current_serial[u]] = NoDelta
        BY <2>1, <2>2, SMTT(30) DEF SweptInv
      <3>2. rtr_full'[current_serial[u]] = copied'[u]
        <4>1. PICK cache \in SUBSET VRP :
                /\ rtr_full' = [rtr_full EXCEPT ![current_serial[u]] =
                                  @ \cup cache]
                /\ copied' = [copied EXCEPT ![u] = cache]
          BY <1>5, ZenonT(30) DEF InsertFull
        <4>2. rtr_full \in [Serial -> SUBSET VRP] /\ copied \in [Updater -> SUBSET VRP]
          BY DEF IndInv, TypeInv, TypeOK, TablesTypeOK
        <4>3. rtr_full'[current_serial[u]] = {} \cup cache
          BY <2>2, <3>1, <4>1, <4>2, ZenonT(30)
        <4>4. copied'[u] = cache
          BY <4>1, <4>2
        <4> QED
          BY <4>3, <4>4
      <3> QED
        BY <2>1, <3>1, <3>2, SMTT(30) DEF StoredInv
    <2> QED
      BY <2>1, <2>3, <2>4, <2>5, ZenonT(30) DEF RunInv, CleaningInv, Cleaning
  <1>6. CASE InsertAnnouncements(u)
    <2>1. CASE Exit(u)
      BY <1>0, <2>1
    <2>2. CASE ~Exit(u)
      <3> DEFINE rows == OnlyIn(current_serial[u], previous_serial[u])
      <3>1. /\ pc[u] = "insert_announcements"
            /\ pc'[u] = "insert_withdrawals"
            /\ UNCHANGED <<rtr_update, rtr_full, locals>>
        BY <1>6, <2>2 DEF InsertAnnouncements
      <3>2. /\ StartInv(u) /\ SerialsInv(u) /\ StoredInv(u)
            /\ current_serial[u] \in Serial
        BY <3>1, ZenonT(30) DEF RunInv, SerialsSet, Starting
      <3>3. rtr_incremental[current_serial[u]] = NoDelta
        BY <3>1, <3>2, ZenonT(30) DEF StoredInv
      <3>4. rtr_incremental'[current_serial[u]] =
                [announce |-> rows, withdraw |-> {}]
        BY <1>6, <2>2, <3>2, <3>3 DEF InsertAnnouncements, NoDelta
      <3>5. StoredInv(u)'
        BY <3>1, <3>2, <3>4, ZenonT(30) DEF StoredInv, Storing, OnlyIn
      <3>6. StartInv(u)' /\ SweptInv(u)'
        BY <3>1, <3>2 DEF StartInv, SweptInv, Storing
      <3>7. SerialsInv(u)'
        BY <3>1, <3>2, TipsKept, ZenonT(30) DEF SerialsInv, Storing
      <3> QED
        BY <3>1, <3>5, <3>6, <3>7, ZenonT(30) DEF RunInv, CleaningInv, Cleaning
    <2> QED
      BY <2>1, <2>2
  <1>7. CASE InsertWithdrawals(u)
    <2>1. CASE Exit(u)
      BY <1>0, <2>1
    <2>2. CASE ~Exit(u)
      <3> DEFINE rows == OnlyIn(previous_serial[u], current_serial[u])
      <3>1. /\ pc[u] = "insert_withdrawals"
            /\ pc'[u] = "has_incremental_changes"
            /\ UNCHANGED <<rtr_update, rtr_full, locals>>
        BY <1>7, <2>2 DEF InsertWithdrawals
      <3>2. /\ StartInv(u) /\ SerialsInv(u) /\ StoredInv(u)
            /\ current_serial[u] \in Serial
        BY <3>1, ZenonT(30) DEF RunInv, SerialsSet, Starting
      <3>3. rtr_incremental[current_serial[u]] =
                [announce |-> OnlyIn(current_serial[u], previous_serial[u]),
                 withdraw |-> {}]
        BY <3>1, <3>2, ZenonT(30) DEF StoredInv
      <3>4. rtr_incremental'[current_serial[u]] =
                [announce |-> OnlyIn(current_serial[u], previous_serial[u]),
                 withdraw |-> rows]
        BY <1>7, <2>2, <3>2, <3>3 DEF InsertWithdrawals
      <3>5. StoredInv(u)'
        BY <3>1, <3>2, <3>4, ZenonT(30) DEF StoredInv, Storing, OnlyIn
      <3>6. StartInv(u)' /\ SweptInv(u)'
        BY <3>1, <3>2, SMTT(30) DEF StartInv, SweptInv, Storing
      <3>7. SerialsInv(u)'
        BY <3>1, <3>2, TipsKept DEF SerialsInv, Storing
      <3> QED
        BY <3>1, <3>5, <3>6, <3>7, ZenonT(30) DEF RunInv, CleaningInv, Cleaning
    <2> QED
      BY <2>1, <2>2
  <1>8. CASE HasIncrementalChanges(u)
    <2>1. /\ pc[u] = "has_incremental_changes"
          /\ pc'[u] \in {"insert_update", "delete_full"}
          /\ UNCHANGED <<rtr_update, rtr_full, rtr_incremental, locals>>
      BY <1>8 DEF HasIncrementalChanges
    <2>2. StartInv(u)' /\ SweptInv(u)'
      BY <2>1, ZenonT(30) DEF RunInv, StartInv, SweptInv, Storing
    <2>3. SerialsInv(u)'
      BY <2>1, TipsKept, ZenonT(30) DEF RunInv, SerialsInv, Storing
    <2>4. StoredInv(u)'
      BY <2>1, ZenonT(30) DEF RunInv, StoredInv, Storing, OnlyIn
    <2> QED
      BY <2>1, <2>2, <2>3, <2>4, ZenonT(30) DEF RunInv, CleaningInv, Cleaning
  <1>10. CASE DeleteFull(u)
    <2>1. /\ pc[u] = "delete_full"
          /\ pc'[u] = "ignore_old_full"
          /\ UNCHANGED <<rtr_update, locals>>
      BY <1>10, ZenonT(30) DEF DeleteFull
    <2>2. CleaningInv(u)'
      BY <2>1, TipsKept, ZenonT(30) DEF RunInv, SerialsInv, CleaningInv, Storing
    <2> QED
      BY <2>1, <2>2, ZenonT(30)
         DEF RunInv, StartInv, SweptInv, SerialsInv, StoredInv,
                        Choosing, Storing
  <1>16. CASE Crash(u)
    BY <1>0, <1>16, ZenonT(30) DEF Crash
  <1> QED
    BY <1>1, <1>2, <1>3, <1>4, <1>5, <1>6, <1>7, <1>8, <1>10, <1>16

\* Publishing a serial extends the chain by one row.
LEMMA Publishing ==
  ASSUME NEW u \in Updater, IndInv, InsertUpdate(u), ~Exit(u)
  PROVE  /\ TableInv' /\ FullMatchesSnapshot' /\ IncrementalIsDifference'
         /\ RunInv(u)'
PROOF
  <1> DEFINE current == current_serial[u]
             previous == previous_serial[u]
             rows == DOMAIN rtr_update
  <1>1. /\ pc[u] = "insert_update"
        /\ pc' = [pc EXCEPT ![u] = "ignore_old_full"]
        /\ UNCHANGED <<rtr_full, rtr_incremental, now, first_time,
                       force_update, previous_serial, current_serial, copied>>
        /\ snap' = [snap EXCEPT ![current] = copied[u]]
        /\ rtr_update' = [s \in rows \cup {current} |->
              IF s = current
              THEN [prev_serial_num |-> PrevSerial(u), create_time |-> now,
                    has_full |-> TRUE]
              ELSE rtr_update[s]]
    BY DEF InsertUpdate, Goto, locals
  <1>2. /\ rows \subseteq Serial
        /\ current \in Serial /\ previous \in Serial
        /\ now \in Nat
        /\ \A s \in rows : rtr_update[s] \in UpdateRow
        /\ pc \in [Updater -> Statements]
        /\ snap \in [Serial -> (SUBSET VRP) \cup {NULL}]
    BY <1>1 DEF IndInv, TypeInv, TypeOK, TablesTypeOK, SerialsSet, Starting
  <1>3. /\ first_time[u] <=> rows = {}
        /\ current \notin rows
        /\ SerNumAsPrev(current) = {}
        /\ ~first_time[u] => previous \in Tips
        /\ rtr_full[current] = copied[u]
        /\ ~first_time[u] => rtr_incremental[current] =
              [announce |-> rtr_full[current] \ rtr_full[previous],
               withdraw |-> rtr_full[previous] \ rtr_full[current]]
    BY <1>1, ZenonT(30)
       DEF IndInv, RunInv, StartInv, SerialsInv, StoredInv, Storing,
                OnlyIn
  <1>4. /\ DOMAIN rtr_update' = rows \cup {current}
        /\ \A s \in rows : rtr_update'[s] = rtr_update[s]
        /\ rtr_update'[current].prev_serial_num = PrevSerial(u)
        /\ rtr_update'[current].create_time = now
        /\ rtr_update'[current].has_full
    BY <1>1, <1>3, ZenonT(30)
  <1>5. /\ snap'[current] = copied[u]
        /\ \A s \in Serial \ {current} : snap'[s] = snap[s]
    BY <1>1, <1>2, ZenonT(30)
  <1> HIDE DEF current, previous, rows
  <1>6. NULL \notin Serial
    BY NullAssumption, SMTT(30)
  <1>7. FullMatchesSnapshot'
    BY <1>1, <1>2, <1>3, <1>4, <1>5, SMTT(30)
       DEF FullMatchesSnapshot, IndInv, rows
  <1>8. ~first_time[u] =>
          /\ previous \in rows /\ previous # current
          /\ rtr_full[previous] = snap[previous]
    BY <1>3 DEF IndInv, TableInv, NewestHasFull, FullMatchesSnapshot, Tips,
                rows
  <1>9. IncrementalIsDifference'
    <2> SUFFICES ASSUME NEW s \in rows \cup {current},
                        rtr_update'[s].prev_serial_num # NULL
                 PROVE  LET p == rtr_update'[s].prev_serial_num
                        IN  rtr_incremental'[s] =
                              [announce |-> snap'[s] \ snap'[p],
                               withdraw |-> snap'[p] \ snap'[s]]
      BY <1>4 DEF IncrementalIsDifference
    <2>1. CASE s = current
      <3>1. ~first_time[u] /\ rtr_update'[s].prev_serial_num = previous
        BY <2>1, <1>4 DEF PrevSerial, previous
      <3>2. snap'[previous] = rtr_full[previous]
        BY <3>1, <1>2, <1>5, <1>8
      <3> QED
        BY <2>1, <3>1, <3>2, <1>1, <1>3, <1>5, ZenonT(30)
    <2>2. CASE s # current
      <3>1. /\ s \in rows
            /\ rtr_update'[s].prev_serial_num = rtr_update[s].prev_serial_num
            /\ rtr_update[s].prev_serial_num \in Serial
        BY <2>2, <1>2, <1>4 DEF UpdateRow
      <3>2. rtr_update[s].prev_serial_num # current
        BY <3>1, <1>3 DEF SerNumAsPrev, rows
      <3>3. snap'[s] = snap[s]
            /\ snap'[rtr_update[s].prev_serial_num] =
                  snap[rtr_update[s].prev_serial_num]
        BY <2>2, <3>1, <3>2, <1>2, <1>5
      <3> QED
        BY <3>1, <3>3, <1>1 DEF IndInv, IncrementalIsDifference, rows
    <2> QED
      BY <2>1, <2>2
  <1>10. /\ \A s \in Serial : SerNumAsPrev(s)' = SerNumAsPrev(s) \cup
              (IF s = PrevSerial(u) THEN {current} ELSE {})
    BY <1>3, <1>4 DEF SerNumAsPrev, rows
  <1>11. Tips' = {current}
    <2>1. PrevSerial(u) # current
      BY <1>2, <1>6, <1>8 DEF PrevSerial, previous
    <2>2. current \in Tips'
      BY <2>1, <1>2, <1>3, <1>4, <1>10 DEF Tips
    <2>3. ASSUME NEW s \in rows PROVE s \notin Tips'
      <3>1. ~first_time[u]
        BY <2>3, <1>3
      <3>2. CASE s = previous
        BY <3>1, <3>2, <1>2, <1>10 DEF Tips, PrevSerial, previous
      <3>3. CASE s # previous
        <4>1. s \notin Tips
          BY <3>1, <3>3, <1>3 DEF IndInv, TableInv, HistoryIsChain, rows
        <4> QED
          BY <4>1, <2>3, <1>2, <1>10 DEF Tips, rows
      <3> QED
        BY <3>2, <3>3
    <2> QED
      BY <2>2, <2>3, <1>4 DEF Tips
  <1>12. HistoryIsChain'
    <2>1. ASSUME NEW s \in rows \cup {current}, NEW t \in rows \cup {current},
                 rtr_update'[s].prev_serial_num # NULL,
                 rtr_update'[s].prev_serial_num =
                    rtr_update'[t].prev_serial_num
          PROVE  s = t
      <3>1. ~first_time[u] => SerNumAsPrev(previous) = {}
        BY <1>3 DEF Tips
      <3>2. \A x \in rows : rtr_update[x].prev_serial_num = PrevSerial(u) =>
                PrevSerial(u) = NULL
        BY <3>1 DEF SerNumAsPrev, PrevSerial, rows, previous
      <3> QED
        BY <2>1, <3>2, <1>4 DEF IndInv, TableInv, HistoryIsChain, rows
    <2> QED
      BY <2>1, <1>2, <1>4, <1>11 DEF HistoryIsChain
  <1>13. NewestHasFull'
    BY <1>4, <1>11 DEF NewestHasFull
  <1>14. TimesInv'
    <2>1. \A s \in rows : rtr_update[s].create_time <= now
      BY DEF IndInv, TableInv, TimesInv, rows
    <2>2. \A s \in rows \cup {current} :
            \A t \in SerNumAsPrev(s)' :
              rtr_update'[s].create_time <= rtr_update'[t].create_time
      <3> SUFFICES ASSUME NEW s \in rows \cup {current},
                          NEW t \in SerNumAsPrev(s)'
                   PROVE  rtr_update'[s].create_time
                            <= rtr_update'[t].create_time
        OBVIOUS
      <3>1. CASE t = current
        BY <3>1, <2>1, <1>2, <1>4
      <3>2. CASE t # current
        <4>1. t \in SerNumAsPrev(s) /\ t \in rows
          BY <3>2, <1>2, <1>10 DEF SerNumAsPrev, rows
        <4>2. s \in rows
          BY <4>1, <1>3
        <4> QED
          BY <4>1, <4>2, <1>4 DEF IndInv, TableInv, TimesInv, rows
      <3> QED
        BY <3>1, <3>2
    <2>3. \A s \in rows \cup {current} : rtr_update'[s].create_time <= now'
      BY <2>1, <1>1, <1>2, <1>4
    <2> QED
      BY <2>2, <2>3, <1>4 DEF TimesInv
  <1>15. CleaningInv(u)'
    <2>1. pc'[u] = "ignore_old_full"
      BY <1>1, <1>2, SMTT(30)
    <2>2. CASE first_time[u]
      BY <2>1, <2>2, <1>1, <1>3, <1>4 DEF CleaningInv, current
    <2>3. CASE ~first_time[u]
      <3>1. current_serial'[u] = current /\ previous_serial'[u] = previous
        BY <1>1, ZenonT(30) DEF current, previous
      <3>2. PrevSerial(u) = previous
        BY <2>3 DEF PrevSerial, previous
      <3>3. /\ current_serial'[u] \in DOMAIN rtr_update'
            /\ rtr_update'[current_serial'[u]].prev_serial_num =
                  previous_serial'[u]
        BY <3>1, <3>2, <1>4
      <3>4. (current_serial[u] \in SerNumAsPrev(previous_serial[u]))'
        BY <3>3, SMTT(30) DEF SerNumAsPrev
      <3>5. current_serial'[u] \in Tips'
            /\ previous_serial'[u] \in DOMAIN rtr_update'
        BY <2>3, <3>1, <1>4, <1>8, <1>11, SMTT(30)
      <3> QED
        BY <2>1, <3>4, <3>5 DEF CleaningInv
    <2> QED
      BY <2>2, <2>3
  <1>16. RunInv(u)'
    BY <1>1, <1>2, <1>15 DEF RunInv, StartInv, SweptInv, SerialsInv,
       StoredInv, Choosing, Storing
  <1> QED
    BY <1>7, <1>9, <1>12, <1>13, <1>14, <1>16 DEF TableInv

\* Retiring data removes rows of the chain from its old end only, and only
\* data that is already marked.
LEMMA Retiring ==
  ASSUME NEW u \in Updater, IndInv,
         \/ IgnoreOldFull(u)
         \/ DeleteOldFull(u)
         \/ DeleteOldUpdate(u)
         \/ IgnoreOldIncremental(u)
         \/ DeleteOldIncremental(u)
  PROVE  /\ TableInv' /\ FullMatchesSnapshot' /\ IncrementalIsDifference'
         /\ RunInv(u)'
PROOF
  <1> DEFINE rows == DOMAIN rtr_update
  <1>1. /\ TableInv /\ FullMatchesSnapshot /\ IncrementalIsDifference
        /\ CleaningInv(u)
    BY DEF IndInv, RunInv
  <1>2. /\ rows \subseteq Serial
        /\ \A s \in rows : rtr_update[s] \in UpdateRow
        /\ pc \in [Updater -> Statements]
        /\ now \in Nat /\ Retention \in Nat
        /\ NULL \notin Serial
    BY RetentionAssumption, NullAssumption, ZenonT(30)
    DEF IndInv, TypeInv, TypeOK, TablesTypeOK
  <1>3. ASSUME pc'[u] \in Cleaning, CleaningInv(u)' PROVE RunInv(u)'
    BY <1>3, ZenonT(30)
       DEF RunInv, StartInv, SweptInv, SerialsInv, StoredInv, Choosing,
                Storing, Cleaning
  <1>4. CASE IgnoreOldFull(u)
    <2>1. /\ pc[u] = "ignore_old_full" /\ pc'[u] = "delete_old_full"
          /\ UNCHANGED <<rtr_full, rtr_incremental, now, first_time,
                force_update, previous_serial, current_serial, copied, snap>>
          /\ DOMAIN rtr_update' = rows
          /\ \A s \in rows :
                /\ rtr_update'[s].prev_serial_num = rtr_update[s].prev_serial_num
                /\ rtr_update'[s].create_time = rtr_update[s].create_time
                /\ s \in Kept(u) => rtr_update'[s] = rtr_update[s]
                /\ s \notin Kept(u) => ~rtr_update'[s].has_full
      BY <1>4, <1>2 DEF IgnoreOldFull, Goto, locals, UpdateRow
    <2>2. /\ \A s : SerNumAsPrev(s)' = SerNumAsPrev(s)
          /\ Tips' = Tips
      BY <2>1 DEF SerNumAsPrev, Tips
    <2>3. \A s \in Tips : s \in Kept(u)
      <3>1. \/ current_serial[u] \in Tips
            \/ rows = {current_serial[u]}
            \/ previous_serial[u] \in Tips
        BY <2>1, <1>1 DEF CleaningInv, Cleaning
      <3>2. Tips \subseteq rows
        BY DEF Tips
      <3>3. \A s, t \in Tips : s = t
        BY <1>1, <3>2, SMTT(30) DEF TableInv, HistoryIsChain
      <3> QED
        BY <3>1, <3>2, <3>3 DEF Kept
    <2>4. NewestHasFull'
      BY <2>1, <2>2, <2>3, <1>1 DEF NewestHasFull, TableInv, Tips
    <2>5. HistoryIsChain'
      BY <2>1, <2>2, <1>1 DEF HistoryIsChain, TableInv
    <2>6. TimesInv'
      BY <2>1, <1>1, ZenonT(30) DEF TimesInv, TableInv, SerNumAsPrev
    <2>7. FullMatchesSnapshot'
      BY <2>1, <1>1 DEF FullMatchesSnapshot
    <2>8. IncrementalIsDifference'
      BY <2>1, <1>1, SMTT(30) DEF IncrementalIsDifference
    <2>9. CleaningInv(u)'
      BY <2>1, <2>2, <1>1, ZenonT(30)
         DEF CleaningInv, Cleaning, Kept, Tips, SerNumAsPrev
    <2> QED
      BY <2>1, <2>4, <2>5, <2>6, <2>7, <2>8, <2>9, <1>3 DEF TableInv, Cleaning
  <1>5. CASE DeleteOldFull(u)
    <2>1. /\ pc[u] = "delete_old_full" /\ pc'[u] = "delete_old_update"
          /\ UNCHANGED <<rtr_update, rtr_incremental, now, first_time,
                force_update, previous_serial, current_serial, copied, snap>>
          /\ \A s \in Kept(u) \cap Serial : rtr_full'[s] = rtr_full[s]
      BY <1>5, <1>2, SMTT(30) DEF DeleteOldFull, Goto, locals
    <2>2. \A s \in rows : rtr_update[s].has_full => rtr_full'[s] = rtr_full[s]
      BY <2>1, <1>1, <1>2 DEF CleaningInv
    <2>3. TableInv' /\ FullMatchesSnapshot' /\ IncrementalIsDifference'
      BY <2>1, <2>2, <1>1, RowsKept
    <2>4. CleaningInv(u)'
      BY <2>1, <1>1, TipsKept DEF CleaningInv, Cleaning, SerNumAsPrev
    <2> QED
      BY <2>1, <2>3, <2>4, <1>3, ZenonT(30) DEF Cleaning
  <1>6. CASE DeleteOldUpdate(u)
    <2>1. /\ pc[u] = "delete_old_update" /\ pc'[u] = "ignore_old_incremental"
          /\ UNCHANGED <<rtr_full, rtr_incremental, now, first_time,
                force_update, previous_serial, current_serial, copied, snap>>
          /\ DOMAIN rtr_update' = {s \in rows : s \in Kept(u) \/ ~Expired(s)}
          /\ \A s \in DOMAIN rtr_update' : rtr_update'[s] = rtr_update[s]
      BY <1>6, <1>2 DEF DeleteOldUpdate, Goto, locals
    <2>2. \A s : SerNumAsPrev(s)' = SerNumAsPrev(s) \cap DOMAIN rtr_update'
      BY <2>1 DEF SerNumAsPrev
    <2>3. PICK t \in Serial : Tips = {t}
      BY <2>1, <1>1, ZenonT(30)
         DEF TableInv, HistoryIsChain, CleaningInv, Cleaning, Tips
    <2>4. /\ t \in Kept(u) /\ t \in rows
          /\ SerNumAsPrev(t) = {}
      BY <2>1, <2>3, <1>1, ZenonT(30) DEF CleaningInv, Cleaning, Kept, Tips
    <2>5. ASSUME NEW s \in DOMAIN rtr_update', s # t
          PROVE  SerNumAsPrev(s)' # {}
      <3>1. PICK x \in rows : x \in SerNumAsPrev(s)
        BY <2>1, <2>3, <2>5 DEF Tips, SerNumAsPrev
      <3>2. SUFFICES ASSUME x \notin DOMAIN rtr_update' PROVE FALSE
        BY <3>1, <2>2, SMTT(30)
      <3>3. x \notin Kept(u) /\ Expired(x)
        BY <3>1, <3>2, <2>1, SMTT(30)
      <3>4. Expired(s)
        <4>1. rtr_update[s].create_time <= rtr_update[x].create_time
          BY <3>1, <2>1, <2>5, <1>1, ZenonT(30) DEF TableInv, TimesInv
        <4>2. rtr_update[s].create_time \in Nat
              /\ rtr_update[x].create_time \in Nat
          BY <3>1, <2>1, <2>5, <1>2, ZenonT(30) DEF UpdateRow
        <4> QED
          BY <4>1, <4>2, <3>3, <1>2 DEF Expired
      <3>5. s \in Kept(u) /\ s \in rows
        BY <3>4, <2>1, <2>5, ZenonT(30)
      <3>6. CASE current_serial[u] \in SerNumAsPrev(previous_serial[u])
                 /\ current_serial[u] \in Tips
        <4>1. s = previous_serial[u]
          BY <3>5, <3>6, <2>3, <2>5, SMTT(30) DEF Kept
        <4>2. /\ current_serial[u] \in rows
              /\ rtr_update[x].prev_serial_num = s
              /\ rtr_update[current_serial[u]].prev_serial_num = s
              /\ s # NULL
          BY <3>1, <3>5, <3>6, <4>1, <1>2 DEF SerNumAsPrev
        <4>3. x = current_serial[u]
          BY <3>1, <4>2, <1>1 DEF TableInv, HistoryIsChain
        <4> QED
          BY <4>3, <3>3 DEF Kept
      <3>7. CASE rows = {current_serial[u]}
        BY <3>7, <3>5, <2>4, <2>5
      <3>8. CASE current_serial[u] \notin rows /\ previous_serial[u] \in Tips
        BY <3>8, <3>5, <2>3, <2>5, SMTT(30) DEF Kept
      <3> QED
        BY <3>6, <3>7, <3>8, <2>1, <1>1, ZenonT(30) DEF CleaningInv, Cleaning
    <2>6. Tips' = {t}
      BY <2>1, <2>2, <2>4, <2>5 DEF Tips
    <2>7. HistoryIsChain'
      BY <2>1, <2>6, <1>1, SMTT(30) DEF HistoryIsChain, TableInv
    <2>8. NewestHasFull'
      BY <2>1, <2>3, <2>4, <2>6, <1>1, SMTT(30) DEF NewestHasFull, TableInv
    <2>9. TimesInv'
      BY <2>1, <1>1, SMTT(30) DEF TimesInv, TableInv, SerNumAsPrev
    <2>10. FullMatchesSnapshot' /\ IncrementalIsDifference'
      BY <2>1, <1>1, SMTT(30) DEF FullMatchesSnapshot, IncrementalIsDifference
    <2>11. CleaningInv(u)'
      <3>1. CASE /\ current_serial[u] \in Tips
                 /\ previous_serial[u] \in rows
                 /\ current_serial[u] \in SerNumAsPrev(previous_serial[u])
        <4>1. current_serial[u] \in Tips' /\ previous_serial[u] \in DOMAIN rtr_update'
          BY <3>1, <2>1, <2>3, <2>6, ZenonT(30) DEF Kept
        <4>2. (current_serial[u] \in SerNumAsPrev(previous_serial[u]))'
          BY <3>1, <4>1, <2>1, ZenonT(30) DEF SerNumAsPrev, Tips
        <4> QED
          BY <4>1, <4>2, <2>1, ZenonT(30) DEF CleaningInv
      <3>2. CASE rows = {current_serial[u]}
        BY <3>2, <2>1, SMTT(30) DEF CleaningInv, Kept
      <3>3. CASE current_serial[u] \notin rows /\ previous_serial[u] \in Tips
        BY <3>3, <2>1, <2>3, <2>6 DEF CleaningInv
      <3> QED
        BY <3>1, <3>2, <3>3, <2>1, <1>1, ZenonT(30) DEF CleaningInv, Cleaning
    <2> QED
      BY <2>1, <2>7, <2>8, <2>9, <2>10, <2>11, <1>3 DEF TableInv, Cleaning
  <1>7. CASE IgnoreOldIncremental(u)
    <2>1. /\ pc[u] = "ignore_old_incremental"
          /\ pc'[u] = "delete_old_incremental"
          /\ UNCHANGED <<rtr_full, rtr_incremental, now, first_time,
                force_update, previous_serial, current_serial, copied, snap>>
          /\ DOMAIN rtr_update' = rows
          /\ \A s \in rows :
                /\ rtr_update'[s].has_full = rtr_update[s].has_full
                /\ rtr_update'[s].create_time = rtr_update[s].create_time
                /\ rtr_update'[s].prev_serial_num =
                      IF rtr_update[s].prev_serial_num \in rows
                      THEN rtr_update[s].prev_serial_num ELSE NULL
      BY <1>7, <1>2, SMTT(30) DEF IgnoreOldIncremental, Goto, locals, UpdateRow
    <2>2. \A s \in rows : SerNumAsPrev(s)' = SerNumAsPrev(s)
      BY <2>1, <1>2, SMTT(30) DEF SerNumAsPrev
    <2>3. Tips' = Tips
      BY <2>1, <2>2 DEF Tips
    <2>4. HistoryIsChain'
      BY <2>1, <2>3, <1>1 DEF HistoryIsChain, TableInv
    <2>5. NewestHasFull'
      BY <2>1, <2>3, <1>1 DEF NewestHasFull, TableInv, Tips
    <2>6. TimesInv'
      BY <2>1, <2>2, <1>1 DEF TimesInv, TableInv, SerNumAsPrev
    <2>7. FullMatchesSnapshot' /\ IncrementalIsDifference'
      BY <2>1, <1>1, SMTT(30) DEF FullMatchesSnapshot, IncrementalIsDifference
    <2>8. CleaningInv(u)'
      BY <2>1, <2>3, <1>1, <1>2, ZenonT(30)
         DEF CleaningInv, Cleaning, SerNumAsPrev
    <2> QED
      BY <2>1, <2>4, <2>5, <2>6, <2>7, <2>8, <1>3, ZenonT(30)
         DEF TableInv, Cleaning
  <1>8. CASE DeleteOldIncremental(u)
    <2>1. /\ UNCHANGED <<rtr_update, rtr_full, now, snap>>
          /\ pc'[u] = "get_latest_sernum"
          /\ \A s \in rows : rtr_update[s].prev_serial_num # NULL =>
                rtr_incremental'[s] = rtr_incremental[s]
      BY <1>8, <1>2, ZenonT(30) DEF DeleteOldIncremental, Exit, Goto, HasPrev
    <2>2. TableInv' /\ FullMatchesSnapshot' /\ IncrementalIsDifference'
      BY <2>1, <1>1, RowsKept, ZenonT(30)
    <2>3. RunInv(u)'
      BY <2>1 DEF RunInv, StartInv, SweptInv, SerialsInv, StoredInv,
                  CleaningInv, Choosing, Storing, Cleaning
    <2> QED
      BY <2>2, <2>3
  <1> QED
    BY <1>4, <1>5, <1>6, <1>7, <1>8

-----------------------------------------------------------------------------
(***************************************************************************)
(* The theorems.                                                           *)
(***************************************************************************)

\* What a run knows does not depend on the clock.
LEMMA RunInvKept ==
  ASSUME NEW u \in Updater, RunInv(u),
         UNCHANGED <<rtr_update, rtr_full, rtr_incremental, pc, first_time,
                     previous_serial, current_serial, copied>>
  PROVE  RunInv(u)'
PROOF
  <1>1. StartInv(u)' /\ SweptInv(u)'
    BY ZenonT(30) DEF RunInv, StartInv, SweptInv
  <1>2. SerialsInv(u)'
    BY TipsKept DEF RunInv, SerialsInv, SerNumAsPrev
  <1>3. StoredInv(u)'
    BY ZenonT(30) DEF RunInv, StoredInv, OnlyIn
  <1>4. CleaningInv(u)'
    BY TipsKept, ZenonT(30) DEF RunInv, CleaningInv, SerNumAsPrev, Kept
  <1> QED
    BY <1>1, <1>2, <1>3, <1>4 DEF RunInv

\* Every step of a lone updater, and of the clock, keeps the invariant.
LEMMA IndInvStep ==
  ASSUME OneUpdater, IndInv, [Next]_updateVars
  PROVE  IndInv'
PROOF
  <1>1. CASE Tick
    <2>1. /\ UNCHANGED <<rtr_update, rtr_full, rtr_incremental, pc,
                first_time, force_update, previous_serial, current_serial,
                copied, snap>>
          /\ now \in Nat /\ now' = now + 1
      BY <1>1, SMTT(30) DEF Tick, locals, IndInv, TypeInv, TypeOK, TablesTypeOK
    <2>2. TypeInv'
      BY <2>1 DEF IndInv, TypeInv, TypeOK, TablesTypeOK, SerialsSet
    <2>3. HistoryIsChain' /\ NewestHasFull'
          /\ FullMatchesSnapshot' /\ IncrementalIsDifference'
      BY <2>1 DEF IndInv, TableInv, HistoryIsChain, NewestHasFull, Tips,
            SerNumAsPrev, FullMatchesSnapshot, IncrementalIsDifference
    <2>4. TimesInv'
      <3>1. \A s \in DOMAIN rtr_update :
              /\ rtr_update[s].create_time \in Nat
              /\ rtr_update[s].create_time <= now
        BY DEF IndInv, TypeInv, TypeOK, TablesTypeOK, UpdateRow, TableInv,
               TimesInv
      <3> QED
        BY <2>1, <3>1 DEF IndInv, TableInv, TimesInv, SerNumAsPrev
    <2>5. \A u \in Updater : RunInv(u)'
      BY <2>1, RunInvKept DEF IndInv
    <2> QED
      BY <2>2, <2>3, <2>4, <2>5 DEF IndInv, TableInv
  <1>2. ASSUME NEW u \in Updater, Step(u) PROVE IndInv'
    <2>1. TypeInv'
      BY <1>2, TypeInvStep DEF IndInv
    <2>2. /\ TableInv' /\ FullMatchesSnapshot' /\ IncrementalIsDifference'
          /\ RunInv(u)'
      <3>1. CASE InsertUpdate(u) /\ ~Exit(u)
        BY <3>1, Publishing
      <3>2. CASE InsertUpdate(u) /\ Exit(u)
        <4>1. /\ UNCHANGED <<rtr_update, rtr_full, rtr_incremental, now, snap>>
              /\ pc'[u] = "get_latest_sernum"
          BY <3>2 DEF InsertUpdate, Exit, Goto, IndInv, TypeInv, TypeOK
        <4>2. TableInv' /\ FullMatchesSnapshot' /\ IncrementalIsDifference'
          BY <4>1, RowsKept, SMTT(30) DEF IndInv
        <4>3. RunInv(u)'
          BY <4>1 DEF RunInv, StartInv, SweptInv, SerialsInv, StoredInv,
                      CleaningInv, Choosing, Storing, Cleaning
        <4> QED
          BY <4>2, <4>3
      <3>3. CASE \/ IgnoreOldFull(u)
                 \/ DeleteOldFull(u)
                 \/ DeleteOldUpdate(u)
                 \/ IgnoreOldIncremental(u)
                 \/ DeleteOldIncremental(u)
        BY <3>3, Retiring
      <3>4. CASE \/ GetLatestSernum(u)
                 \/ DeleteIncompleteIncremental(u)
                 \/ DeleteIncompleteFull(u)
                 \/ GoodSerials(u)
                 \/ InsertFull(u)
                 \/ InsertAnnouncements(u)
                 \/ InsertWithdrawals(u)
                 \/ HasIncrementalChanges(u)
                 \/ DeleteFull(u)
                 \/ Crash(u)
        BY <3>4, <2>1, BeforePublishing, RunBeforePublishing
      <3> QED
        BY <1>2, <3>1, <3>2, <3>3, <3>4 DEF Step
    <2>3. \A v \in Updater : v = u
      BY DEF OneUpdater
    <2> QED
      BY <2>1, <2>2, <2>3 DEF IndInv
  <1>3. CASE UNCHANGED updateVars
    <2>1. UNCHANGED <<rtr_update, rtr_full, rtr_incremental, now, pc,
                first_time, force_update, previous_serial, current_serial,
                copied, snap>>
      BY <1>3, SMTT(30) DEF updateVars
    <2>2. TypeInv'
      BY <2>1, SMTT(30) DEF IndInv, TypeInv, TypeOK, TablesTypeOK, SerialsSet
    <2>3. TableInv' /\ FullMatchesSnapshot' /\ IncrementalIsDifference'
      BY <2>1, RowsKept DEF IndInv
    <2>4. \A u \in Updater : RunInv(u)'
      BY <2>1, RunInvKept DEF IndInv
    <2> QED
      BY <2>2, <2>3, <2>4 DEF IndInv
  <1> QED
    BY <1>1, <1>2, <1>3 DEF Next

\* The strengthening is an invariant of the specification.
THEOREM IndInvHolds == OneUpdater => (Spec => []IndInv)
PROOF
  <1> SUFFICES ASSUME OneUpdater PROVE Spec => []IndInv
    OBVIOUS
  <1>1. IndInv /\ [Next]_updateVars => IndInv'
    BY IndInvStep
  <1> QED
    BY IndInvInit, <1>1, PTL DEF Spec

\* A serial marked has_full always has exactly the VRPs it was published for
\* in rtr_full, whatever runs died before it.
THEOREM FullSafety == OneUpdater => (Spec => []FullMatchesSnapshot)
PROOF
  <1>1. IndInv => FullMatchesSnapshot
    BY DEF IndInv
  <1> QED
    BY IndInvHolds, <1>1, PTL

\* A serial with a predecessor always has exactly the difference from it in
\* rtr_incremental, also after its full data and the predecessor's are gone.
THEOREM IncrementalSafety == OneUpdater => (Spec => []IncrementalIsDifference)
PROOF
  <1>1. IndInv => IncrementalIsDifference
    BY DEF IndInv
  <1> QED
    BY IndInvHolds, <1>1, PTL

\* The published serials always form one chain with one newest serial, which
\* can be sent in full.
THEOREM ChainSafety ==
    OneUpdater => (Spec => [](HistoryIsChain /\ NewestHasFull))
PROOF
  <1>1. IndInv => HistoryIsChain /\ NewestHasFull
    BY DEF IndInv, TableInv
  <1> QED
    BY IndInvHolds, <1>1, PTL

\* Data is deleted only after its rtr_update row has been marked.
THEOREM MarkingSafety == OneUpdater => (Spec => MarkedBeforeDeleted)
PROOF
  <1> SUFFICES ASSUME OneUpdater PROVE Spec => MarkedBeforeDeleted
    OBVIOUS
  <1>1. ASSUME IndInv, [Next]_updateVars
        PROVE  [DeletesOnlyMarked]_updateVars
    <2>1. DOMAIN rtr_update \subseteq Serial
          /\ rtr_full \in [Serial -> SUBSET VRP]
          /\ rtr_incremental \in [Serial -> Delta]
      BY <1>1 DEF IndInv, TypeInv, TypeOK, TablesTypeOK
    <2>2. CASE Tick
      BY <2>2 DEF Tick, DeletesOnlyMarked
    <2>3. ASSUME NEW u \in Updater, Step(u) PROVE DeletesOnlyMarked
      <3>1. /\ pc[u] \in Storing => current_serial[u] \notin DOMAIN rtr_update
            /\ pc[u] = "delete_old_full" =>
                  \A s \in DOMAIN rtr_update :
                      rtr_update[s].has_full => s \in Kept(u)
        BY <1>1, ZenonT(30) DEF IndInv, RunInv, SerialsInv, CleaningInv
      <3>2. \A s \in DOMAIN rtr_update :
              rtr_update[s].has_full => rtr_full'[s] = rtr_full[s]
        BY <2>1, <2>3, <3>1 DEF Step, GetLatestSernum,
            DeleteIncompleteIncremental, DeleteIncompleteFull, PublishedFull,
            GoodSerials, InsertFull, InsertAnnouncements, InsertWithdrawals,
            HasIncrementalChanges, InsertUpdate, DeleteFull, IgnoreOldFull,
            DeleteOldFull, DeleteOldUpdate, IgnoreOldIncremental,
            DeleteOldIncremental, Crash, Storing, tableVars
      <3>3. \A s \in DOMAIN rtr_update :
              rtr_update[s].prev_serial_num # NULL =>
                  rtr_incremental'[s] = rtr_incremental[s]
        BY <2>1, <2>3, <3>1 DEF Step, GetLatestSernum,
            DeleteIncompleteIncremental, DeleteIncompleteFull, GoodSerials,
            InsertFull, InsertAnnouncements, InsertWithdrawals,
            HasIncrementalChanges, InsertUpdate, DeleteFull, IgnoreOldFull,
            DeleteOldFull, DeleteOldUpdate, IgnoreOldIncremental,
            DeleteOldIncremental, HasPrev, Crash, Storing, tableVars
      <3> QED
        BY <3>2, <3>3 DEF DeletesOnlyMarked
    <2> QED
      BY <1>1, <2>2, <2>3 DEF Next
  <1> QED
    BY IndInvHolds, <1>1, PTL DEF Spec, MarkedBeforeDeleted

=============================================================================
