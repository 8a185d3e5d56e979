------------------------------ MODULE RtrServe ------------------------------
(***************************************************************************)
(* Answering routers' queries from the tables (lib/db/clients/rtr.c) while *)
(* rtr-update runs.  A query is answered by a query_init call and get_next *)
(* calls of at most MaxRows PDUs; each runs several SQL statements, and    *)
(* the updater's statements may come between any two of them.  One action  *)
(* is one statement with the local computation around it.                  *)
(*                                                                         *)
(* The session is fixed, and a router applies a response when its End of   *)
(* Data PDU arrives and drops one that ends in any other way.              *)
(***************************************************************************)
EXTENDS RtrUpdate, FiniteSetsExt

CONSTANTS
    Router,
    MaxRows     \* DB_ROWS_PER_RESPONSE

\* rtr.c refuses a max_rows below 2.
ASSUME MaxRowsAssumption == MaxRows \in Nat \ {0, 1}

VARIABLES
    query,  \* the query_state of each router's query, and where it stands
    router  \* what each router holds

serveVars == <<updateVars, query, router>>

Labels == {"idle", "init_as_prev", "init_as_current", "init_has_rows",
           "init_latest", "init_has_full", "get_next", "do_query",
           "post_as_current", "post_as_prev"}
Modes == {"data", "no_new_data", "bad_ser_num", "not_ready"}

\* first_row is the last VRP sent (0: first_time).  num_pdus is the number of
\* PDUs in the array being filled, or returned last.  work and lapsed are
\* history fields: the VRPs the router will hold, and whether data of a serial
\* that rtr_update had already marked unusable went into them.
Query == [pc        : Labels,
          reset     : BOOLEAN,
          mode      : Modes,
          ser_num   : Serial,
          data_sent : BOOLEAN,
          first_row : 0 .. NumVRP,
          num_pdus  : 0 .. MaxRows,
          work      : SUBSET VRP,
          lapsed    : BOOLEAN]
NoQuery == [pc |-> "idle", reset |-> FALSE, mode |-> "data", ser_num |-> 0,
            data_sent |-> FALSE, first_row |-> 0, num_pdus |-> 0,
            work |-> {}, lapsed |-> FALSE]

\* Type invariant of the queries and the routers.
ServeTypeOK ==
    /\ TypeOK
    /\ query \in [Router -> Query]
    /\ router \in [Router -> [serial : Serial \cup {NULL},
                              vrps   : SUBSET VRP,
                              lapsed : BOOLEAN]]

ServeInit ==
    /\ Init
    /\ query = [r \in Router |-> NoQuery]
    /\ router = [r \in Router |->
                    [serial |-> NULL, vrps |-> {}, lapsed |-> FALSE]]

\* The tables are only read.
Becomes(r, q) ==
    /\ query' = [query EXCEPT ![r] = q]
    /\ UNCHANGED <<updateVars, router>>

\* The response ends with an Error Report or a Cache Reset.
Refuse(r) == Becomes(r, NoQuery)

\* The response ends with an End of Data PDU for the serial.
EndOfData(r, q) ==
    /\ query' = [query EXCEPT ![r] = NoQuery]
    /\ router' = [router EXCEPT ![r] = [serial |-> q.ser_num,
                            vrps |-> q.work, lapsed |-> q.lapsed]]
    /\ UNCHANGED updateVars

MutBatch(rows, first_row, limit) ==
    LET rest == {v \in rows : v > first_row}
    IN  {v \in rest : Cardinality({w \in rest : w < v}) <= limit}

\* The first limit rows after first_row, "order by ... limit".
Batch(rows, first_row, limit) ==
    LET rest == {v \in rows : v > first_row}
    IN  {v \in rest : Cardinality({w \in rest : w < v}) < limit}

MutLastRow(rows, first_row) == first_row

\* first_row after the rows were put into PDUs.
LastRow(rows, first_row) == IF rows = {} THEN first_row ELSE Max(rows)

-----------------------------------------------------------------------------
(***************************************************************************)
(* Serial queries.                                                         *)
(***************************************************************************)

ReceiveSerialQuery(r) ==
    /\ query[r].pc = "idle"
    /\ router[r].serial # NULL
    /\ Becomes(r, [NoQuery EXCEPT !.pc = "init_as_prev",
                                  !.ser_num = router[r].serial,
                                  !.work = router[r].vrps,
                                  !.lapsed = router[r].lapsed])

\* The router's serial has a successor: send data, beginning with that.
SerialInitAsPrev(r) ==
    LET q == query[r]
    IN  /\ q.pc = "init_as_prev"
        /\ \/ \E n \in SerNumAsPrev(q.ser_num) :
                 Becomes(r, [q EXCEPT !.pc = "get_next", !.ser_num = n])
           \/ /\ SerNumAsPrev(q.ser_num) = {}
              /\ Becomes(r, [q EXCEPT !.pc = "init_as_current"])

SerialInitAsCurrent(r) ==
    LET q == query[r]
    IN  /\ q.pc = "init_as_current"
        /\ Becomes(r, IF q.ser_num \in DOMAIN rtr_update
                      THEN [q EXCEPT !.pc = "get_next",
                                     !.mode = "no_new_data"]
                      ELSE [q EXCEPT !.pc = "init_has_rows"])

SerialInitHasRows(r) ==
    LET q == query[r]
    IN  /\ q.pc = "init_has_rows"
        /\ Becomes(r, [q EXCEPT !.pc = "get_next",
                                !.mode = IF DOMAIN rtr_update = {}
                                         THEN "not_ready" ELSE "bad_ser_num"])

\* The first call of serial_query_get_next: an answer without data, or the
\* Cache Response PDU.
SerialPreQuery(r) ==
    LET q == query[r]
    IN  /\ q.pc = "get_next" /\ ~q.reset /\ ~q.data_sent
        /\ CASE q.mode \in {"not_ready", "bad_ser_num"} -> Refuse(r)
             [] q.mode = "no_new_data" -> EndOfData(r, q)
             [] q.mode = "data" ->
                  Becomes(r, [q EXCEPT !.pc = "do_query",
                                       !.data_sent = TRUE, !.num_pdus = 1])

\* PDUs of changes: later calls start with an empty array.  A full array is
\* returned, otherwise post_query looks at the serial again.
SerialDoQuery(r) ==
    LET q == query[r]
        filled == IF q.pc = "do_query" THEN q.num_pdus ELSE 0
        delta == rtr_incremental[q.ser_num]
        rows == Batch(Keys(delta), q.first_row, MaxRows - filled)
        num == filled + Cardinality(rows)
    IN  /\ ~q.reset /\ q.data_sent /\ q.pc \in {"get_next", "do_query"}
        /\ Becomes(r, [q EXCEPT
                !.pc = IF num = MaxRows THEN "get_next" ELSE "post_as_current",
                !.first_row = LastRow(rows, q.first_row),
                !.num_pdus = num,
                !.work = (@ \ (rows \cap delta.withdraw))
                            \cup (rows \cap delta.announce)])

MutSerialPostAsCurrent(r) ==
    /\ query[r].pc = "post_as_current"
    /\ Becomes(r, [query[r] EXCEPT !.pc = "post_as_prev"])

\* "check whether sn is still valid"
SerialPostAsCurrent(r) ==
    LET q == query[r]
    IN  /\ q.pc = "post_as_current"
        /\ IF HasPrev(q.ser_num)
           THEN Becomes(r, [q EXCEPT !.pc = "post_as_prev"])
           ELSE Refuse(r)

MutSerialPostAsPrev(r) ==
    LET q == query[r]
    IN  /\ q.pc = "post_as_prev"
        /\ \/ \E n \in SerNumAsPrev(q.ser_num) :
                 Becomes(r, [q EXCEPT !.pc = "get_next", !.ser_num = n])
           \/ SerNumAsPrev(q.ser_num) = {} /\ EndOfData(r, q)

\* "check whether to End or continue with next ser num"
SerialPostAsPrev(r) ==
    LET q == query[r]
    IN  /\ q.pc = "post_as_prev"
        /\ \/ \E n \in SerNumAsPrev(q.ser_num) :
                 Becomes(r, [q EXCEPT !.pc = "get_next", !.ser_num = n,
                                      !.first_row = 0])
           \/ SerNumAsPrev(q.ser_num) = {} /\ EndOfData(r, q)

\* "even though error, still feeding previous results"
SerialPostAsPrevFails(r) ==
    /\ query[r].pc = "post_as_prev"
    /\ EndOfData(r, query[r])

-----------------------------------------------------------------------------
(***************************************************************************)
(* Reset queries.                                                          *)
(***************************************************************************)

ReceiveResetQuery(r) ==
    /\ query[r].pc = "idle"
    /\ Becomes(r, [NoQuery EXCEPT !.pc = "init_latest", !.reset = TRUE])

ResetInitLatest(r) ==
    LET q == query[r]
    IN  /\ q.pc = "init_latest"
        /\ \/ \E s \in LatestSerials :
                 Becomes(r, [q EXCEPT !.pc = "init_has_full", !.ser_num = s])
           \/ /\ LatestSerials = {}
              /\ Becomes(r, [q EXCEPT !.pc = "get_next",
                                      !.mode = "not_ready"])

ResetInitHasFull(r) ==
    LET q == query[r]
    IN  /\ q.pc = "init_has_full"
        /\ IF q.ser_num \notin DOMAIN rtr_update
           THEN Refuse(r)
           ELSE Becomes(r, [q EXCEPT !.pc = "get_next",
                    !.mode = IF rtr_update[q.ser_num].has_full
                             THEN "data" ELSE "not_ready"])

HasFull(s) == s \in DOMAIN rtr_update /\ rtr_update[s].has_full

\* reset_query_get_next does not look at rtr_update again.
ResetGetNext(r) ==
    LET q == query[r]
        filled == IF q.data_sent THEN 0 ELSE 1
        rows == Batch(rtr_full[q.ser_num], q.first_row, MaxRows - filled)
        num == filled + Cardinality(rows)
        q2 == [q EXCEPT !.data_sent = TRUE,
                        !.first_row = LastRow(rows, q.first_row),
                        !.num_pdus = num,
                        !.work = @ \cup rows,
                        !.lapsed = @ \/ ~HasFull(q.ser_num)]
    IN  /\ q.pc = "get_next" /\ q.reset
        /\ IF q.mode = "not_ready" THEN Refuse(r)
           ELSE IF num = MaxRows THEN Becomes(r, q2)
           ELSE EndOfData(r, q2)

-----------------------------------------------------------------------------

\* A statement fails, the daemon stops or the router disconnects.
QueryFails(r) ==
    /\ query[r].pc # "idle"
    /\ Refuse(r)

QueryStep(r) ==
    \/ ReceiveSerialQuery(r)
    \/ SerialInitAsPrev(r)
    \/ SerialInitAsCurrent(r)
    \/ SerialInitHasRows(r)
    \/ SerialPreQuery(r)
    \/ SerialDoQuery(r)
    \/ SerialPostAsCurrent(r)
    \/ SerialPostAsPrev(r)
    \/ SerialPostAsPrevFails(r)
    \/ ReceiveResetQuery(r)
    \/ ResetInitLatest(r)
    \/ ResetInitHasFull(r)
    \/ ResetGetNext(r)
    \/ QueryFails(r)

\* Bound: no serial number is published twice.  2^32 updates take longer than
\* any router keeps a serial number.
\* Once all are used up, the cache no longer changes.
SerialsNotReused ==
    \A u \in Updater :
        /\ pc[u] = "insert_full" /\ pc'[u] = "insert_announcements"
        /\ snap[current_serial[u]] # NULL
        => copied'[u] = rtr_full[previous_serial[u]]

ServeNext ==
    \/ Next /\ SerialsNotReused /\ UNCHANGED <<query, router>>
    \/ \E r \in Router : QueryStep(r)

ServeSpec == ServeInit /\ [][ServeNext]_serveVars

-----------------------------------------------------------------------------
(***************************************************************************)
(* Properties.                                                             *)
(***************************************************************************)

\* After an End of Data PDU a router holds exactly the VRPs that were valid
\* when its serial was published, although the response was put together from
\* several serials and many statements while rtr-update published, expired
\* and deleted (db_schema_requirements.txt T10), provided that no full data
\* was read after rtr_update had marked it unusable.
RouterConsistent ==
    \A r \in Router :
        router[r].serial # NULL /\ ~router[r].lapsed =>
            router[r].vrps = snap[router[r].serial]

\* While the serial being sent is still valid, the changes sent so far turn
\* the predecessor's VRPs into the serial's own in the order of the rows, so
\* that no router is told to withdraw a VRP it does not have or to add one
\* it has (first_row is kept in step with the PDUs across get_next calls and
\* across serials).
ChangesApplyInOrder ==
    \A r \in Router :
        LET q == query[r]
            p == rtr_update[q.ser_num].prev_serial_num
            Upto(rows) == {v \in rows : v <= q.first_row}
        IN  /\ ~q.reset /\ q.data_sent /\ ~q.lapsed
            /\ HasPrev(q.ser_num)
            => q.work = (snap[p] \ Upto(snap[p] \ snap[q.ser_num]))
                            \cup Upto(snap[q.ser_num] \ snap[p])

\* A reset query sends every row once and in order, and holds, until it ends,
\* exactly the rows up to first_row of a serial that is still marked
\* has_full.
FullSentInOrder ==
    \A r \in Router :
        LET q == query[r]
        IN  q.reset /\ q.data_sent /\ HasFull(q.ser_num) /\ ~q.lapsed
            => q.work = {v \in snap[q.ser_num] : v <= q.first_row}

\* rtr-update.c:225: "save last two full updates so that no problems at
\* transition (with client still receiving data from previous one)"; no
\* router ends up with a set of VRPs that was never valid.
RouterNeverTruncated ==
    \A r \in Router :
        router[r].serial # NULL => router[r].vrps = snap[router[r].serial]

=============================================================================
