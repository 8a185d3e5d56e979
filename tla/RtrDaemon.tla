----------------------------- MODULE RtrDaemon -----------------------------
(***************************************************************************)
(* The threads of the rpki-rtr daemon (bin/rpki-rtr): a connection thread  *)
(* per router (connection.c), the connection control thread that wakes     *)
(* them (connection_control.c), the database threads (db.c), and main's    *)
(* shutdown (main.c).  They meet in queues, in the bag of requests being   *)
(* processed and in counting semaphores; one action is the code between    *)
(* two such operations.                                                    *)
(*                                                                         *)
(* PDUs arrive whole.  What a response says is left to RtrServe: here it   *)
(* is "more", "done", or "fatal" (done, with a fatal Error Report).  The   *)
(* cache state and the Serial Notify are left out.  A semaphore post to a  *)
(* connection whose thread has ended has no effect.                        *)
(***************************************************************************)
EXTENDS Integers, SequencesExt

CONSTANTS
    Cxn,          \* connections
    Db,           \* database threads that could connect to the database
    BufferLength, \* DB_RESPONSE_BUFFER_LENGTH
    MaxBatches,   \* bound: get_next calls a query takes
    MaxPDUs,      \* bound: PDUs a router sends
    MaxPosts,     \* bound: cxnctl leaves a semaphore alone from this value on
    Pipelining,   \* whether routers send PDUs before a response has ended
    Signals,      \* whether the daemon is told to stop
    NULL

ASSUME BufferLengthAssumption == BufferLength \in Nat \ {0}
ASSUME MaxBatchesAssumption == MaxBatches \in Nat \ {0}
ASSUME NullCxnAssumption == NULL \notin Cxn

VARIABLES
    socket,       \* what the router sent and the connection has not read
    to_send,      \* how many PDUs the router may still send
    semaphore,    \* of each connection
    cxn,          \* where each connection thread is
    state,        \* READY or RESPONDING
    to_process,   \* length of to_process_queue, which holds only queries
    response,     \* the response being sent, or NULL
    cancel_request,
    response_queue,
    batches,      \* get_next calls the current query still takes
    db_semaphore,
    db_request_queue,
    db_currently_processing,
    db,           \* where each database thread is
    request,      \* the request it services, or NULL
    unvisited,    \* the entries of the bag its iteration has still to visit
    result,       \* the response it sends
    cxnctl        \* where the connection control thread is

cxnVars == <<socket, to_send, cxn, state, to_process, response,
             cancel_request>>
dbVars == <<db, request, unvisited, result, batches,
            db_currently_processing>>
vars == <<cxnVars, dbVars, semaphore, response_queue, db_semaphore,
          db_request_queue, cxnctl>>

\* A Serial Query with the wrong session; any PDU that ends the connection.
PDU == {"query", "wrong_session", "unexpected"}
Results == {"more", "done", "fatal"}
CxnLabels == {"none", "wait", "read", "post_request", "respond", "send",
              "cleanup", "cleanup_post", "cleanup_wait", "cleanup_pop",
              "ended"}
DbLabels == {"wait", "find", "iterate", "new", "service", "push", "post",
             "put_back", "post_back", "ended"}

\* Type invariant.
DaemonTypeOK ==
    /\ socket \in [Cxn -> Seq(PDU \cup {"eof"})]
    /\ to_send \in [Cxn -> 0 .. MaxPDUs]
    /\ semaphore \in [Cxn -> Nat]
    /\ cxn \in [Cxn -> CxnLabels]
    /\ state \in [Cxn -> {"READY", "RESPONDING"}]
    /\ to_process \in [Cxn -> 0 .. MaxPDUs]
    /\ response \in [Cxn -> Results \cup {NULL}]
    /\ cancel_request \in [Cxn -> BOOLEAN]
    /\ response_queue \in [Cxn -> Seq(Results)]
    /\ batches \in [Cxn -> 0 .. MaxBatches]
    /\ db_semaphore \in Nat
    /\ db_request_queue \in Seq(Cxn)
    /\ db_currently_processing \in SUBSET Cxn
    /\ db \in [Db -> DbLabels]
    /\ request \in [Db -> Cxn \cup {NULL}]
    /\ unvisited \in [Db -> SUBSET Cxn]
    /\ result \in [Db -> Results \cup {NULL}]
    /\ cxnctl \in {"select", "join", "ended"}

DaemonInit ==
    /\ socket = [c \in Cxn |-> <<>>]
    /\ to_send = [c \in Cxn |-> MaxPDUs]
    /\ semaphore = [c \in Cxn |-> 0]
    /\ cxn = [c \in Cxn |-> "none"]
    /\ state = [c \in Cxn |-> "READY"]
    /\ to_process = [c \in Cxn |-> 0]
    /\ response = [c \in Cxn |-> NULL]
    /\ cancel_request = [c \in Cxn |-> FALSE]
    /\ response_queue = [c \in Cxn |-> <<>>]
    /\ batches = [c \in Cxn |-> 0]
    /\ db_semaphore = 0
    /\ db_request_queue = <<>>
    /\ db_currently_processing = {}
    /\ db = [t \in Db |-> "wait"]
    /\ request = [t \in Db |-> NULL]
    /\ unvisited = [t \in Db |-> {}]
    /\ result = [t \in Db |-> NULL]
    /\ cxnctl = "select"

Put(f, c, v) == [f EXCEPT ![c] = v]
Up(f, c) == [f EXCEPT ![c] = @ + 1]
Down(f, c) == [f EXCEPT ![c] = @ - 1]

-----------------------------------------------------------------------------
(***************************************************************************)
(* Routers and the connection control thread.                              *)
(***************************************************************************)

\* connection_control_main accepts the connection and starts its thread.
Accept(c) ==
    /\ cxnctl = "select" /\ cxn[c] = "none"
    /\ cxn' = Put(cxn, c, "wait")
    /\ UNCHANGED <<socket, to_send, state, to_process, response,
                   cancel_request, dbVars, semaphore, response_queue,
                   db_semaphore, db_request_queue, cxnctl>>

Open(c) == cxn[c] \notin {"none", "ended"} /\ "eof" \notin Range(socket[c])

\* The router has had an answer to everything it sent.
Quiet(c) == socket[c] = <<>> /\ state[c] = "READY" /\ cxn[c] = "wait"

RouterSends(c) ==
    /\ Open(c) /\ to_send[c] > 0
    /\ Pipelining \/ Quiet(c)
    /\ \E pdu \in PDU : socket' = Put(socket, c, Append(socket[c], pdu))
    /\ to_send' = Down(to_send, c)
    /\ UNCHANGED <<cxn, state, to_process, response, cancel_request, dbVars,
                   semaphore, response_queue, db_semaphore, db_request_queue,
                   cxnctl>>

RouterCloses(c) ==
    /\ Open(c)
    /\ socket' = Put(socket, c, Append(socket[c], "eof"))
    /\ UNCHANGED <<to_send, cxn, state, to_process, response, cancel_request,
                   dbVars, semaphore, response_queue, db_semaphore,
                   db_request_queue, cxnctl>>

\* select() found the socket readable.
Select(c) ==
    /\ cxnctl = "select" /\ cxn[c] \notin {"none", "ended"}
    /\ socket[c] # <<>>
    /\ semaphore[c] < MaxPosts
    /\ semaphore' = Up(semaphore, c)
    /\ UNCHANGED <<cxnVars, dbVars, response_queue, db_semaphore,
                   db_request_queue, cxnctl>>

\* main is interrupted and cancels the connection control thread, whose
\* cleanup cancels every connection thread and then waits for them.
Shutdown ==
    /\ Signals /\ cxnctl = "select"
    /\ cxnctl' = "join"
    /\ UNCHANGED <<cxnVars, dbVars, semaphore, response_queue, db_semaphore,
                   db_request_queue>>

Canceled == cxnctl = "join"

JoinConnections ==
    /\ cxnctl = "join"
    /\ \A c \in Cxn : cxn[c] \in {"none", "ended"}
    /\ cxnctl' = "ended"
    /\ UNCHANGED <<cxnVars, dbVars, semaphore, response_queue, db_semaphore,
                   db_request_queue>>

\* main's cleanup then cancels the database threads, which are cancelable
\* only in sem_wait.
StopDb(t) ==
    /\ cxnctl = "ended" /\ db[t] = "wait"
    /\ db' = Put(db, t, "ended")
    /\ UNCHANGED <<cxnVars, request, unvisited, result, batches,
                   db_currently_processing, semaphore, response_queue,
                   db_semaphore, db_request_queue, cxnctl>>

-----------------------------------------------------------------------------
(***************************************************************************)
(* A connection thread.                                                    *)
(***************************************************************************)

CxnGoto(c, l) == cxn' = Put(cxn, c, l)

MutCxnWait(c) ==
    /\ cxn[c] = "wait" /\ ~Canceled
    /\ semaphore[c] > 0 \/ state[c] = "READY"
    /\ semaphore' = Down(semaphore, c)
    /\ CxnGoto(c, "read")
    /\ UNCHANGED <<socket, to_send, state, to_process, response,
                   cancel_request, dbVars, response_queue, db_semaphore,
                   db_request_queue, cxnctl>>

\* wait_on_semaphore: it times out only when READY, to look at the cache state.
CxnWait(c) ==
    /\ cxn[c] = "wait" /\ ~Canceled
    /\ \/ semaphore[c] > 0 /\ semaphore' = Down(semaphore, c)
       \/ semaphore[c] = 0 /\ state[c] = "READY" /\ UNCHANGED semaphore
    /\ CxnGoto(c, "read")
    /\ UNCHANGED <<socket, to_send, state, to_process, response,
                   cancel_request, dbVars, response_queue, db_semaphore,
                   db_request_queue, cxnctl>>

\* add_db_request, but for its last step, increment_db_semaphore.
AddDbRequest(c) ==
    /\ db_request_queue' = Append(db_request_queue, c)
    /\ cancel_request' = Put(cancel_request, c, FALSE)
    /\ state' = Put(state, c, "RESPONDING")
    /\ CxnGoto(c, "post_request")

\* read_and_handle_pdu.
HandlePdu(c, pdu) ==
    \/ /\ pdu = "query" /\ state[c] = "READY"
       /\ AddDbRequest(c)
       /\ UNCHANGED to_process
    \/ /\ pdu = "query" /\ state[c] = "RESPONDING"
       /\ to_process' = Up(to_process, c)
       /\ CxnGoto(c, "wait")
       /\ UNCHANGED <<state, cancel_request, db_request_queue>>
    \/ /\ pdu = "wrong_session"
       /\ CxnGoto(c, "wait")
       /\ UNCHANGED <<state, cancel_request, db_request_queue, to_process>>
    \/ /\ pdu = "unexpected"
       /\ CxnGoto(c, "cleanup")
       /\ UNCHANGED <<state, cancel_request, db_request_queue, to_process>>

\* The socket comes first; a response is looked for only if it is empty.
CxnRead(c) ==
    /\ cxn[c] = "read"
    /\ socket[c] # <<>> /\ Head(socket[c]) # "eof"
    /\ HandlePdu(c, Head(socket[c]))
    /\ socket' = Put(socket, c, Tail(socket[c]))
    /\ UNCHANGED <<to_send, response, dbVars, semaphore, response_queue,
                   db_semaphore, cxnctl>>

CxnTakeResponse(c) ==
    /\ cxn[c] = "read" /\ socket[c] = <<>>
    /\ IF state[c] = "RESPONDING" /\ response_queue[c] # <<>>
       THEN /\ response' = Put(response, c, Head(response_queue[c]))
            /\ response_queue' = Put(response_queue, c, Tail(response_queue[c]))
            /\ CxnGoto(c, IF Head(response_queue[c]) = "more" THEN "respond"
                                                              ELSE "send")
       ELSE CxnGoto(c, "wait") /\ UNCHANGED <<response, response_queue>>
    /\ UNCHANGED <<socket, to_send, state, to_process, cancel_request, dbVars,
                   semaphore, db_semaphore, db_request_queue, cxnctl>>

\* increment_db_semaphore, in add_db_request, handle_response and cleanup.
CxnPost(c) ==
    /\ cxn[c] \in {"post_request", "respond", "cleanup_post"}
    /\ db_semaphore' = db_semaphore + 1
    /\ CxnGoto(c, CASE cxn[c] = "post_request" -> "wait"
                    [] cxn[c] = "respond" -> "send"
                    [] cxn[c] = "cleanup_post" -> "cleanup_wait")
    /\ UNCHANGED <<socket, to_send, state, to_process, response,
                   cancel_request, dbVars, semaphore, response_queue,
                   db_request_queue, cxnctl>>

\* The rest of handle_response: after the last response the thread goes on to
\* the next query, unless it sent a fatal error.
CxnSend(c) ==
    /\ cxn[c] = "send"
    /\ response' = Put(response, c, NULL)
    /\ \/ /\ response[c] = "more"
          /\ CxnGoto(c, "wait")
          /\ UNCHANGED <<state, to_process, cancel_request, db_request_queue>>
       \/ /\ response[c] = "fatal"
          /\ state' = Put(state, c, "READY")
          /\ CxnGoto(c, "cleanup")
          /\ UNCHANGED <<to_process, cancel_request, db_request_queue>>
       \/ /\ response[c] = "done" /\ to_process[c] > 0
          /\ to_process' = Down(to_process, c)
          /\ AddDbRequest(c)
       \/ /\ response[c] = "done" /\ to_process[c] = 0
          /\ state' = Put(state, c, "READY")
          /\ CxnGoto(c, "wait")
          /\ UNCHANGED <<to_process, cancel_request, db_request_queue>>
    /\ UNCHANGED <<socket, to_send, dbVars, semaphore, response_queue,
                   db_semaphore, cxnctl>>

\* The router has closed the connection (read_nonblock), a write failed, or
\* the thread is at a cancellation point: sem_wait, recv or write.  A PDU
\* arrives whole, so that read_block has nothing to wait for.
CxnExit(c) ==
    /\ \/ cxn[c] = "read" /\ socket[c] # <<>> /\ Head(socket[c]) = "eof"
       \/ cxn[c] = "send"
       \/ cxn[c] \in {"wait", "read", "send"} /\ Canceled
    /\ CxnGoto(c, "cleanup")
    /\ UNCHANGED <<socket, to_send, state, to_process, response,
                   cancel_request, dbVars, semaphore, response_queue,
                   db_semaphore, db_request_queue, cxnctl>>

\* cleanup: an unfinished request is canceled, and its last response awaited.
CxnCleanup(c) ==
    LET unfinished == state[c] = "RESPONDING"
                      /\ response[c] \notin {"done", "fatal"}
    IN  /\ cxn[c] = "cleanup"
        /\ response' = Put(response, c, NULL)
        /\ state' = Put(state, c, IF unfinished THEN "RESPONDING" ELSE "READY")
        /\ cancel_request' = [cancel_request EXCEPT ![c] = @ \/ unfinished]
        /\ CxnGoto(c, IF unfinished THEN "cleanup_post" ELSE "ended")
        /\ to_process' = Put(to_process, c,
                             IF unfinished THEN to_process[c] ELSE 0)
        /\ UNCHANGED <<socket, to_send, dbVars, semaphore, response_queue,
                       db_semaphore, db_request_queue, cxnctl>>

CxnCleanupWait(c) ==
    /\ cxn[c] = "cleanup_wait" /\ semaphore[c] > 0
    /\ semaphore' = Down(semaphore, c)
    /\ CxnGoto(c, "cleanup_pop")
    /\ UNCHANGED <<socket, to_send, state, to_process, response,
                   cancel_request, dbVars, response_queue, db_semaphore,
                   db_request_queue, cxnctl>>

MutCxnCleanupPop(c) ==
    /\ cxn[c] = "cleanup_pop"
    /\ response_queue' = Put(response_queue, c, <<>>)
    /\ CxnGoto(c, IF response_queue[c] = <<>> THEN "cleanup_wait"
                                              ELSE "ended")
    /\ to_process' = Put(to_process, c, 0)
    /\ UNCHANGED <<socket, to_send, state, response, cancel_request, dbVars,
                   semaphore, db_semaphore, db_request_queue, cxnctl>>

CxnCleanupPop(c) ==
    LET last == /\ response_queue[c] # <<>>
                /\ Head(response_queue[c]) # "more"
    IN  /\ cxn[c] = "cleanup_pop"
        /\ response_queue' = Put(response_queue, c,
                IF response_queue[c] = <<>> THEN <<>>
                                            ELSE Tail(response_queue[c]))
        /\ CxnGoto(c, IF last THEN "ended" ELSE "cleanup_wait")
        /\ to_process' = Put(to_process, c, IF last THEN 0 ELSE to_process[c])
        /\ UNCHANGED <<socket, to_send, state, response, cancel_request,
                       dbVars, semaphore, db_semaphore, db_request_queue,
                       cxnctl>>

CxnStep(c) ==
    \/ CxnWait(c)
    \/ CxnRead(c)
    \/ CxnTakeResponse(c)
    \/ CxnPost(c)
    \/ CxnSend(c)
    \/ CxnExit(c)
    \/ CxnCleanup(c)
    \/ CxnCleanupWait(c)
    \/ CxnCleanupPop(c)

-----------------------------------------------------------------------------
(***************************************************************************)
(* A database thread.                                                      *)
(***************************************************************************)

DbGoto(t, l) == db' = Put(db, t, l)

DbWait(t) ==
    /\ db[t] = "wait" /\ db_semaphore > 0
    /\ db_semaphore' = db_semaphore - 1
    /\ DbGoto(t, "find")
    /\ UNCHANGED <<cxnVars, request, unvisited, result, batches,
                   db_currently_processing, semaphore, response_queue,
                   db_request_queue, cxnctl>>

\* No thread iterates over the bag: Bag_start_iteration locks it.
BagUnlocked == \A t \in Db : db[t] # "iterate"

DbStartIteration(t) ==
    /\ db[t] = "find" /\ BagUnlocked
    /\ unvisited' = Put(unvisited, t, db_currently_processing)
    /\ DbGoto(t, "iterate")
    /\ UNCHANGED <<cxnVars, request, result, batches,
                   db_currently_processing, semaphore, response_queue,
                   db_semaphore, db_request_queue, cxnctl>>

MutServiceable(c) ==
    \/ cancel_request[c]
    \/ Len(response_queue[c]) <= BufferLength

MutServiceableIgnoresCancel(c) == Len(response_queue[c]) < BufferLength

Serviceable(c) ==
    \/ cancel_request[c]
    \/ Len(response_queue[c]) < BufferLength

\* find_existing_request_to_service looks at the entries one by one, and
\* their queues change under its eyes.
DbVisit(t) ==
    /\ db[t] = "iterate"
    /\ \E c \in unvisited[t] :
          IF Serviceable(c)
          THEN /\ db_currently_processing' = db_currently_processing \ {c}
               /\ request' = Put(request, t, c)
               /\ unvisited' = Put(unvisited, t, {})
               /\ DbGoto(t, "service")
          ELSE /\ unvisited' = Put(unvisited, t, unvisited[t] \ {c})
               /\ UNCHANGED <<db_currently_processing, request, db>>
    /\ UNCHANGED <<cxnVars, result, batches, semaphore, response_queue,
                   db_semaphore, db_request_queue, cxnctl>>

DbStopIteration(t) ==
    /\ db[t] = "iterate" /\ unvisited[t] = {}
    /\ DbGoto(t, "new")
    /\ UNCHANGED <<cxnVars, request, unvisited, result, batches,
                   db_currently_processing, semaphore, response_queue,
                   db_semaphore, db_request_queue, cxnctl>>

\* try_service_new_request; the query will take some number of batches.
DbNewRequest(t) ==
    /\ db[t] = "new"
    /\ IF db_request_queue = <<>>
       THEN DbGoto(t, "wait") /\ UNCHANGED <<request, batches, db_request_queue>>
       ELSE /\ request' = Put(request, t, Head(db_request_queue))
            /\ db_request_queue' = Tail(db_request_queue)
            /\ \E n \in 1 .. MaxBatches :
                  batches' = Put(batches, Head(db_request_queue), n)
            /\ DbGoto(t, "service")
    /\ UNCHANGED <<cxnVars, unvisited, result, db_currently_processing,
                   semaphore, response_queue, db_semaphore, cxnctl>>

\* service_request up to send_response: a canceled request gets an empty last
\* response, and a failing start_query or query_get_next an Error Report.
DbService(t) ==
    LET c == request[t]
    IN  /\ db[t] = "service"
        /\ \/ /\ cancel_request[c]
              /\ result' = Put(result, t, "done")
              /\ batches' = Put(batches, c, 0)
           \/ /\ ~cancel_request[c]
              /\ result' = Put(result, t, IF batches[c] = 1 THEN "done"
                                                            ELSE "more")
              /\ batches' = Down(batches, c)
           \/ /\ ~cancel_request[c]
              /\ result' = Put(result, t, "fatal")
              /\ batches' = Put(batches, c, 0)
        /\ DbGoto(t, "push")
        /\ UNCHANGED <<cxnVars, request, unvisited, db_currently_processing,
                       semaphore, response_queue, db_semaphore,
                       db_request_queue, cxnctl>>

DbPush(t) ==
    LET c == request[t]
    IN  /\ db[t] = "push"
        /\ response_queue' = Put(response_queue, c,
                                 Append(response_queue[c], result[t]))
        /\ DbGoto(t, "post")
        /\ UNCHANGED <<cxnVars, request, unvisited, result, batches,
                       db_currently_processing, semaphore, db_semaphore,
                       db_request_queue, cxnctl>>

MutDbPost(t) ==
    LET c == request[t]
        last == result[t] = "done"
    IN  /\ db[t] = "post"
        /\ semaphore' = IF cxn[c] = "ended" THEN semaphore ELSE Up(semaphore, c)
        /\ request' = Put(request, t, IF last THEN NULL ELSE c)
        /\ result' = Put(result, t, NULL)
        /\ DbGoto(t, IF last THEN "wait" ELSE "put_back")
        /\ UNCHANGED <<cxnVars, unvisited, batches, db_currently_processing,
                       response_queue, db_semaphore, db_request_queue, cxnctl>>

DbPost(t) ==
    LET c == request[t]
        last == result[t] # "more"
    IN  /\ db[t] = "post"
        /\ semaphore' = IF cxn[c] = "ended" THEN semaphore ELSE Up(semaphore, c)
        /\ request' = Put(request, t, IF last THEN NULL ELSE c)
        /\ result' = Put(result, t, NULL)
        /\ DbGoto(t, IF last THEN "wait" ELSE "put_back")
        /\ UNCHANGED <<cxnVars, unvisited, batches, db_currently_processing,
                       response_queue, db_semaphore, db_request_queue, cxnctl>>

MutDbPutBack(t) ==
    /\ db[t] = "put_back" /\ BagUnlocked
    /\ db_currently_processing' = db_currently_processing \cup {request[t]}
    /\ request' = Put(request, t, NULL)
    /\ DbGoto(t, "wait")
    /\ UNCHANGED <<cxnVars, unvisited, result, batches, semaphore,
                   response_queue, db_semaphore, db_request_queue, cxnctl>>

DbPutBack(t) ==
    /\ db[t] = "put_back" /\ BagUnlocked
    /\ db_currently_processing' = db_currently_processing \cup {request[t]}
    /\ request' = Put(request, t, NULL)
    /\ DbGoto(t, "post_back")
    /\ UNCHANGED <<cxnVars, unvisited, result, batches, semaphore,
                   response_queue, db_semaphore, db_request_queue, cxnctl>>

\* Bag_add fails: the query ends with an Error Report.
DbPutBackFails(t) ==
    /\ db[t] = "put_back" /\ BagUnlocked
    /\ result' = Put(result, t, "fatal")
    /\ batches' = Put(batches, request[t], 0)
    /\ DbGoto(t, "push")
    /\ UNCHANGED <<cxnVars, request, unvisited, db_currently_processing,
                   semaphore, response_queue, db_semaphore, db_request_queue,
                   cxnctl>>

DbPostBack(t) ==
    /\ db[t] = "post_back"
    /\ db_semaphore' = db_semaphore + 1
    /\ DbGoto(t, "wait")
    /\ UNCHANGED <<cxnVars, request, unvisited, result, batches,
                   db_currently_processing, semaphore, response_queue,
                   db_request_queue, cxnctl>>

DbStep(t) ==
    \/ DbWait(t)
    \/ DbStartIteration(t)
    \/ DbVisit(t)
    \/ DbStopIteration(t)
    \/ DbNewRequest(t)
    \/ DbService(t)
    \/ DbPush(t)
    \/ DbPost(t)
    \/ DbPutBack(t)
    \/ DbPutBackFails(t)
    \/ DbPostBack(t)
    \/ StopDb(t)

-----------------------------------------------------------------------------

DaemonNext ==
    \/ \E c \in Cxn : Accept(c) \/ RouterSends(c) \/ RouterCloses(c)
                      \/ Select(c) \/ CxnStep(c)
    \/ \E t \in Db : DbStep(t)
    \/ Shutdown
    \/ JoinConnections

DaemonSpec == DaemonInit /\ [][DaemonNext]_vars

\* Every thread that can run eventually does, select() reports a readable
\* socket, routers read what is sent to them.
DaemonFairness ==
    /\ \A c \in Cxn : WF_vars(CxnStep(c)) /\ WF_vars(Select(c))
    /\ \A t \in Db : WF_vars(DbStep(t))
    /\ WF_vars(JoinConnections)

FairDaemonSpec == DaemonSpec /\ DaemonFairness

-----------------------------------------------------------------------------
(***************************************************************************)
(* Properties.                                                             *)
(***************************************************************************)

\* The database threads that hold a connection's request and have not pushed
\* its last response.
Servicing(c) ==
    {t \in Db : request[t] = c /\ ~(db[t] = "post" /\ result[t] # "more")}

\* How many times a connection's request, or its last response, is somewhere.
Places(c) ==
    Cardinality({i \in DOMAIN db_request_queue : db_request_queue[i] = c})
    + Cardinality(db_currently_processing \cap {c})
    + Cardinality(Servicing(c))
    + Cardinality({i \in DOMAIN response_queue[c] :
                        response_queue[c][i] # "more"})
    + (IF response[c] \in {"done", "fatal"} THEN 1 ELSE 0)

\* connection.c:64: "There can only be one outstanding request at a time".
\* The request of a RESPONDING connection is in exactly one place until its
\* last response has been handled, so the struct is not overwritten while a
\* database thread uses it and no response is left over for the next query;
\* a thread that has ended leaves nothing behind in queue or bag (Queue_free
\* and Bag_free assert that they are empty).
OneOutstandingRequest ==
    \A c \in Cxn :
        Places(c) = IF state[c] = "RESPONDING" /\ cxn[c] # "ended"
                    THEN 1 ELSE 0

\* The last response of a request is the last one in the queue, and nothing
\* is in it when a connection turns READY (add_db_request refuses otherwise).
NothingAfterLastResponse ==
    \A c \in Cxn :
        /\ \A i \in DOMAIN response_queue[c] :
              response_queue[c][i] # "more" => i = Len(response_queue[c])
        /\ (response[c] \in {"done", "fatal"} \/ state[c] = "READY")
           => response_queue[c] = <<>>

\* At most DB_RESPONSE_BUFFER_LENGTH responses wait for a connection, however
\* its reads and the database threads interleave; only the last response of a
\* canceled request, or of a failing Bag_add, may come on top.
ResponsesBuffered ==
    \A c \in Cxn :
        /\ Len(response_queue[c]) <= BufferLength + 1
        /\ Len(response_queue[c]) > BufferLength
           => Last(response_queue[c]) # "more"

\* The requests a database thread could service now.
Waiting ==
    Range(db_request_queue)
    \cup {c \in db_currently_processing : Serviceable(c)}

\* The threads that hold a token of db_semaphore, or are about to post one.
TokenHolders ==
    {t \in Db : db[t] \in {"find", "iterate", "new", "post_back"}}
    \cup {c \in Cxn : cxn[c] \in {"post_request", "respond", "cleanup_post"}}

\* db.c:315-316: db_semaphore is never short of what there is to do: for every
\* request that can be serviced there is a token, held or to come.
TokensCoverRequests ==
    Cardinality(Waiting) <= db_semaphore + Cardinality(TokenHolders)

\* Every response ends, whatever fails on the way, and with it the wait of a
\* connection thread that is cleaning up.
ResponsesEnd ==
    \A c \in Cxn : state[c] = "RESPONDING"
                   ~> (state[c] = "READY" \/ cxn[c] = "ended")

\* doc/rpki-rtr-daemon-outline D6: a signal makes the server "perform a
\* graceful shutdown of all active connections".
ShutdownCompletes == cxnctl = "join" ~> \A t \in Db : db[t] = "ended"

\* doc/rpki-rtr-daemon-outline, Service Request: "db increments the cxn's
\* semaphore" comes before "cxn decrements its semaphore" and "cxn free()s
\* the db_request": a database thread never uses the request or the semaphore
\* of a connection thread that has ended.
RequestOutlivesUse ==
    \A t \in Db : request[t] # NULL => cxn[request[t]] # "ended"

=============================================================================
