----------------------------- MODULE RtrNotify -----------------------------
(***************************************************************************)
(* Sessions, serial numbers and Serial Notifies: how the news of an update *)
(* gets from the database by way of main's global cache state              *)
(* (bin/rpki-rtr/cache_state.c) to the connections (connection.c) and      *)
(* their routers, while an operator may clear and initialize the rpki-rtr  *)
(* data.  The statements of a run of rtr-update and of a query are those   *)
(* of RtrUpdate and RtrServe; here only the latest serial number counts.   *)
(* rtr-update does not run while the tables are being cleared.             *)
(*                                                                         *)
(* Times are countdowns in seconds.  The field ver of a record is history: *)
(* it numbers the updates, whatever their serial numbers.                  *)
(***************************************************************************)
EXTENDS Integers

CONSTANTS
    Cxn,            \* connections
    Session,        \* session ids
    Half,           \* 2^31: half the serial numbers
    FirstSerials,   \* random() + 1, or the argument of the first rtr-update
                    \* (arguments of later ones, in test mode, are left out)
    NotifyInterval, \* CXN_NOTIFY_INTERVAL
    CheckInterval,  \* CXN_CACHE_STATE_INTERVAL
    MaxUpdates,     \* bound on the updates
    MaxQueued,      \* bound on to_process_queue; 0: no router pipelines
    Clears,         \* whether an operator clears the database, once
    NULL

ASSUME HalfAssumption == Half \in Nat \ {0}
ASSUME IntervalAssumption ==
    /\ NotifyInterval \in Nat \ {0}
    /\ CheckInterval \in 1 .. NotifyInterval
\* No two updates are half the serial numbers, or more, apart.
ASSUME MaxUpdatesAssumption == MaxUpdates \in 0 .. Half
ASSUME MaxQueuedAssumption == MaxQueued \in Nat

SerialModulus == 2 * Half
Serial == 0 .. (SerialModulus - 1)

ASSUME FirstSerialsAssumption == FirstSerials \subseteq Serial
ASSUME NullSessionAssumption == NULL \notin Session /\ NULL \notin Serial

\* Mutant: a serial number wide enough never to wrap around.
MutPlus(s, d) == s + d

\* Plus(s, d) is d updates after s.
Plus(s, d) == IF s + d < SerialModulus THEN s + d ELSE s + d - SerialModulus

\* Mutant: serial numbers compared as integers.
MutSerialNumberGreater(s1, s2) == s1 > s2

serial_number_greater(s1, s2) ==
    \/ s1 < s2 /\ s2 - s1 > Half
    \/ s1 > s2 /\ s1 - s2 < Half

VARIABLES
    rtr_session,  \* the row of rtr_session, or NULL
    published,    \* the latest row of rtr_update; first numbers its first row
    clearing,     \* where rpki-rtr-clear is
    global,       \* global_cache_state
    refresh,      \* the session main has read for it (it holds the lock)
    cxn,          \* where each connection thread is
    queued,       \* the queries in its to_process_queue
    local,        \* local_cache_state
    check_time,   \* time until next_cache_state_check_time
    reply,        \* session and serial of the End of Data to come
    told,         \* history: the newest update the router was told of
    quiet,        \* history: time since its last Serial Notify
    gap           \* history: what quiet was at its last Serial Notify

dbVars == <<rtr_session, published, clearing>>
cxnVars == <<cxn, queued, local, check_time, reply, told, quiet, gap>>
vars == <<dbVars, global, refresh, cxnVars>>

\* serial = NULL: no data available.
CacheState == [session : Session \cup {NULL}, serial : Serial \cup {NULL},
               ver : 0 .. MaxUpdates]
NoState == [session |-> NULL, serial |-> NULL, ver |-> 0]

\* Type invariant.
NotifyTypeOK ==
    /\ rtr_session \in Session \cup {NULL}
    /\ published \in [serial : Serial \cup {NULL}, ver : 0 .. MaxUpdates,
                     first : 0 .. MaxUpdates]
    /\ clearing \in {"no", "rtr_session", "rtr_update", "done"}
    /\ global \in CacheState
    /\ refresh \in Session \cup {NULL}
    /\ cxn \in [Cxn -> {"none", "wait", "responding", "pipelined", "loop_end"}]
    /\ queued \in [Cxn -> 0 .. MaxQueued]
    /\ local \in [Cxn -> CacheState]
    /\ check_time \in [Cxn -> 0 .. NotifyInterval]
    /\ reply \in [Cxn -> CacheState]
    /\ told \in [Cxn -> 0 .. MaxUpdates]
    /\ quiet \in [Cxn -> 0 .. NotifyInterval]
    /\ gap \in [Cxn -> 0 .. NotifyInterval]

\* The daemon has started on an initialized, empty database.
NotifyInit ==
    /\ rtr_session \in Session
    /\ published = [serial |-> NULL, ver |-> 0, first |-> 0]
    /\ clearing = IF Clears THEN "rtr_session" ELSE "no"
    /\ global = [NoState EXCEPT !.session = rtr_session]
    /\ refresh = NULL
    /\ cxn = [c \in Cxn |-> "none"]
    /\ queued = [c \in Cxn |-> 0]
    /\ local = [c \in Cxn |-> NoState]
    /\ check_time = [c \in Cxn |-> 0]
    /\ reply = [c \in Cxn |-> NoState]
    /\ told = [c \in Cxn |-> 0]
    /\ quiet = [c \in Cxn |-> NotifyInterval]
    /\ gap = [c \in Cxn |-> NotifyInterval]

Open(c) == cxn[c] # "none"

\* RESPONDING; "pipelined" if another query came since the connection was last
\* READY at the end of its loop.
Responding(c) == cxn[c] \in {"responding", "pipelined"}

-----------------------------------------------------------------------------
(***************************************************************************)
(* The database.                                                           *)
(***************************************************************************)

\* A run of rtr-update: has_valid_session, get_latest_sernum, insert_update.
\* After the first, each update has the next serial number.
Publish ==
    /\ rtr_session # NULL /\ clearing # "rtr_update"
    /\ published.ver < MaxUpdates
    /\ LET ver == published.ver + 1 IN
       \/ /\ published.serial = NULL
          /\ \E s \in FirstSerials :
                published' = [serial |-> s, ver |-> ver, first |-> ver]
       \/ /\ published.serial # NULL
          /\ published' = [published EXCEPT !.serial = Plus(@, 1), !.ver = ver]
    /\ UNCHANGED <<rtr_session, clearing, global, refresh, cxnVars>>

\* rpki-rtr-clear: "prevents a new server from starting"
ClearSession ==
    /\ clearing = "rtr_session"
    /\ rtr_session' = NULL
    /\ clearing' = "rtr_update"
    /\ UNCHANGED <<published, global, refresh, cxnVars>>

\* "makes all queries fail"
ClearUpdate ==
    /\ clearing = "rtr_update"
    /\ published' = [published EXCEPT !.serial = NULL]
    /\ clearing' = "done"
    /\ UNCHANGED <<rtr_session, global, refresh, cxnVars>>

\* rpki-rtr-initialize.
Initialize ==
    /\ rtr_session = NULL /\ clearing = "done"
    /\ rtr_session' \in Session
    /\ UNCHANGED <<published, clearing, global, refresh, cxnVars>>

-----------------------------------------------------------------------------
(***************************************************************************)
(* main's loop: update_global_cache_state, two statements under the lock.  *)
(***************************************************************************)

Locked == refresh # NULL

\* Mutant: the session is read once, when the daemon starts.
MutGetSession ==
    /\ ~Locked /\ rtr_session # NULL
    /\ refresh' = global.session
    /\ UNCHANGED <<dbVars, global, cxnVars>>

GetSession ==
    /\ ~Locked /\ rtr_session # NULL
    /\ refresh' = rtr_session
    /\ UNCHANGED <<dbVars, global, cxnVars>>

GetLatestSernum ==
    /\ Locked
    /\ global' = [session |-> refresh, serial |-> published.serial,
                  ver |-> published.ver]
    /\ refresh' = NULL
    /\ UNCHANGED <<dbVars, cxnVars>>

\* The second statement fails: "leaving cache state unchanged".
GetLatestSernumFails ==
    /\ Locked
    /\ refresh' = NULL
    /\ UNCHANGED <<dbVars, global, cxnVars>>

-----------------------------------------------------------------------------
(***************************************************************************)
(* A connection thread.                                                    *)
(***************************************************************************)

\* initialize_run_state.
Connect(c) ==
    /\ cxn[c] = "none" /\ ~Locked
    /\ cxn' = [cxn EXCEPT ![c] = "wait"]
    /\ local' = [local EXCEPT ![c] = global]
    /\ check_time' = [check_time EXCEPT ![c] = NotifyInterval]
    /\ UNCHANGED <<dbVars, global, refresh, queued, reply, told, quiet, gap>>

\* The thread ends, and its variables with it.
Leave(c) ==
    /\ cxn' = [cxn EXCEPT ![c] = "none"]
    /\ queued' = [queued EXCEPT ![c] = 0]
    /\ local' = [local EXCEPT ![c] = NoState]
    /\ check_time' = [check_time EXCEPT ![c] = 0]
    /\ reply' = [reply EXCEPT ![c] = NoState]
    /\ told' = [told EXCEPT ![c] = 0]
    /\ quiet' = [quiet EXCEPT ![c] = NotifyInterval]
    /\ gap' = [gap EXCEPT ![c] = NotifyInterval]

Disconnect(c) ==
    /\ Open(c)
    /\ Leave(c)
    /\ UNCHANGED <<dbVars, global, refresh>>

\* wait_on_semaphore returns without a query: it timed out, or other PDUs came.
WakeUp(c) ==
    /\ cxn[c] = "wait"
    /\ cxn' = [cxn EXCEPT ![c] = "loop_end"]
    /\ UNCHANGED <<dbVars, global, refresh, queued, local, check_time, reply,
                   told, quiet, gap>>

\* handle_pdu on a query: it becomes the request; while another one is being
\* answered it is put in to_process_queue, or answered with a Cache Reset at
\* once if it is of another session.
ReceiveQuery(c) ==
    /\ \/ /\ cxn[c] = "wait"
          /\ cxn' = [cxn EXCEPT ![c] = "responding"]
          /\ UNCHANGED queued
       \/ /\ Responding(c) /\ queued[c] < MaxQueued
          /\ cxn' = [cxn EXCEPT ![c] = "pipelined"]
          /\ \/ queued' = [queued EXCEPT ![c] = @ + 1]
             \/ UNCHANGED queued
    /\ UNCHANGED <<dbVars, global, refresh, local, check_time, reply, told,
                   quiet, gap>>

\* A query starts, or goes on to a later update: its End of Data will carry
\* the serial of a row of rtr_update, often but not always of the latest (a
\* serial query ends early when it cannot look for the next row).
QuerySerial(c) ==
    /\ Responding(c) /\ published.serial # NULL
    /\ \E back \in 0 .. (published.ver - published.first) :
          reply' = [reply EXCEPT
                      ![c].serial = (published.serial - back) % SerialModulus,
                      ![c].ver = published.ver - back]
    /\ UNCHANGED <<dbVars, global, refresh, cxn, queued, local, check_time, told,
                   quiet, gap>>

\* get_next reads the session; without one it fails, which is fatal.
QuerySession(c) ==
    /\ Responding(c) /\ reply[c].serial # NULL
    /\ \/ /\ rtr_session # NULL
          /\ reply' = [reply EXCEPT ![c].session = rtr_session]
          /\ UNCHANGED <<cxn, queued, local, check_time, told, quiet, gap>>
       \/ rtr_session = NULL /\ Leave(c)
    /\ UNCHANGED <<dbVars, global, refresh>>

Newest(v1, v2) == IF v1 > v2 THEN v1 ELSE v2

\* update_local_cache_state takes the serial number of state.
IsNews(state, c) ==
    /\ state.serial # NULL
    /\ local[c].serial # NULL
       => serial_number_greater(state.serial, local[c].serial)

\* The end of handle_response when the response is done: a queued query is
\* taken up at once, and the check at the end of the loop is not reached.
NextQueued(c) ==
    /\ reply' = [reply EXCEPT ![c] = NoState]
    /\ \/ /\ queued[c] > 0
          /\ queued' = [queued EXCEPT ![c] = @ - 1]
          /\ UNCHANGED cxn
       \/ /\ queued[c] = 0
          /\ cxn' = [cxn EXCEPT ![c] = "loop_end"]
          /\ UNCHANGED queued

\* handle_response on an End of Data PDU: update_local_cache_state without a
\* notify, then the PDU is sent.
EndOfData(c) ==
    /\ Responding(c) /\ reply[c].session # NULL
    /\ \/ reply[c].session # local[c].session /\ Leave(c)
       \/ /\ reply[c].session = local[c].session
          /\ local' = [local EXCEPT ![c] =
                          IF IsNews(reply[c], c) THEN reply[c] ELSE @]
          /\ told' = [told EXCEPT ![c] = Newest(@, reply[c].ver)]
          /\ NextQueued(c)
          /\ UNCHANGED <<check_time, quiet, gap>>
    /\ UNCHANGED <<dbVars, global, refresh>>

\* The response ends with a Cache Reset or with "no data available".
QueryRefused(c) ==
    /\ Responding(c)
    /\ NextQueued(c)
    /\ UNCHANGED <<dbVars, global, refresh, local, check_time, told, quiet, gap>>

\* The check is not due yet.
SkipCheck(c) ==
    /\ cxn[c] = "loop_end" /\ check_time[c] > 0
    /\ cxn' = [cxn EXCEPT ![c] = "wait"]
    /\ UNCHANGED <<dbVars, global, refresh, queued, local, check_time, reply,
                   told, quiet, gap>>

\* Mutant: send_notify leaves the time that copy_cache_state has set.
MutCheckGlobalCacheState(c) ==
    /\ cxn[c] = "loop_end" /\ check_time[c] = 0 /\ ~Locked
    /\ \/ /\ global.session # local[c].session
          /\ Leave(c)
       \/ /\ global.session = local[c].session
          /\ IsNews(global, c)
          /\ local' = [local EXCEPT ![c] = global]
          /\ told' = [told EXCEPT ![c] = Newest(@, global.ver)]
          /\ gap' = [gap EXCEPT ![c] = quiet[c]]
          /\ quiet' = [quiet EXCEPT ![c] = 0]
          /\ check_time' = [check_time EXCEPT ![c] = CheckInterval]
          /\ cxn' = [cxn EXCEPT ![c] = "wait"]
          /\ UNCHANGED <<queued, reply>>
       \/ /\ global.session = local[c].session
          /\ ~IsNews(global, c)
          /\ check_time' = [check_time EXCEPT ![c] = CheckInterval]
          /\ cxn' = [cxn EXCEPT ![c] = "wait"]
          /\ UNCHANGED <<queued, local, reply, told, quiet, gap>>
    /\ UNCHANGED <<dbVars, global, refresh>>

\* check_global_cache_state: the router is sent a Serial Notify if there is
\* news, and no other one for NotifyInterval.
CheckGlobalCacheState(c) ==
    /\ cxn[c] = "loop_end" /\ check_time[c] = 0 /\ ~Locked
    /\ \/ /\ global.session # local[c].session
          /\ Leave(c)
       \/ /\ global.session = local[c].session
          /\ IsNews(global, c)
          /\ local' = [local EXCEPT ![c] = global]
          /\ told' = [told EXCEPT ![c] = Newest(@, global.ver)]
          /\ gap' = [gap EXCEPT ![c] = quiet[c]]
          /\ quiet' = [quiet EXCEPT ![c] = 0]
          /\ check_time' = [check_time EXCEPT ![c] = NotifyInterval]
          /\ cxn' = [cxn EXCEPT ![c] = "wait"]
          /\ UNCHANGED <<queued, reply>>
       \/ /\ global.session = local[c].session
          /\ ~IsNews(global, c)
          /\ check_time' = [check_time EXCEPT ![c] = CheckInterval]
          /\ cxn' = [cxn EXCEPT ![c] = "wait"]
          /\ UNCHANGED <<queued, local, reply, told, quiet, gap>>
    /\ UNCHANGED <<dbVars, global, refresh>>

Tick ==
    /\ check_time' = [c \in Cxn |-> IF check_time[c] = 0 THEN 0
                                    ELSE check_time[c] - 1]
    /\ quiet' = [c \in Cxn |-> IF quiet[c] = NotifyInterval THEN NotifyInterval
                               ELSE quiet[c] + 1]
    /\ UNCHANGED <<dbVars, global, refresh, cxn, queued, local, reply, told, gap>>

-----------------------------------------------------------------------------

CxnStep(c) ==
    \/ WakeUp(c)
    \/ QuerySession(c)
    \/ EndOfData(c)
    \/ QueryRefused(c)
    \/ SkipCheck(c)
    \/ CheckGlobalCacheState(c)

NotifyNext ==
    \/ Publish
    \/ ClearSession
    \/ ClearUpdate
    \/ Initialize
    \/ GetSession
    \/ GetLatestSernum
    \/ GetLatestSernumFails
    \/ Tick
    \/ \E c \in Cxn : Connect(c) \/ Disconnect(c) \/ ReceiveQuery(c)
                      \/ QuerySerial(c) \/ CxnStep(c)

NotifySpec == NotifyInit /\ [][NotifyNext]_vars

\* Time passes; main's loop turns and its statements do not fail for ever; so
\* does every connection's loop: the wait times out, and a thread blocked on
\* the lock gets it while main sleeps.  Responses end for a router that waits
\* for its answers (ResponsesEnd in RtrDaemon).  They need not for one that
\* pipelines queries, whose connection thread may wait forever: nothing is
\* assumed of a "pipelined" response.
NotifyFairness ==
    /\ WF_vars(Tick) /\ WF_vars(GetSession) /\ SF_vars(GetLatestSernum)
    /\ WF_vars(ClearUpdate)
    /\ \A c \in Cxn : /\ WF_vars(WakeUp(c) \/ SkipCheck(c))
                      /\ WF_vars(cxn[c] = "responding" /\ QuerySession(c))
                      /\ WF_vars(/\ cxn[c] = "responding"
                                 /\ EndOfData(c) \/ QueryRefused(c))
                      /\ SF_vars(CheckGlobalCacheState(c))

FairNotifySpec == NotifySpec /\ NotifyFairness

-----------------------------------------------------------------------------
(***************************************************************************)
(* Properties.                                                             *)
(***************************************************************************)

\* rpki-rtr-clear has begun.
Cleared == clearing \in {"rtr_update", "done"}

\* All the serial numbers held at one time, in the database, by main, by the
\* connections and by responses under way, however old, are ordered by
\* serial_number_greater as their updates were made, across the wrap-around
\* (less than half the serial numbers apart: MaxUpdatesAssumption).
GreaterMeansLater ==
    LET held == {published, global} \cup {local[c] : c \in Cxn}
                \cup {reply[c] : c \in Cxn}
    IN  ~Cleared =>
          \A x, y \in {h \in held : h.serial # NULL} :
              serial_number_greater(x.serial, y.serial) <=> x.ver > y.ver

\* config.h:18-19: "The cache MUST rate limit Serial Notifies to no more
\* frequently than one per minute", whatever responses and checks come between
\* two of them (in whole seconds, as time() counts).
NotifyRate == \A c \in Cxn : gap[c] = NotifyInterval

\* A Serial Notify always announces an update newer than all the router has
\* been told of on this connection, by End of Data or by Serial Notify: a
\* global cache state read before a response ended is not announced after it.
\* So it is until the data is cleared: rpki-rtr-initialize may draw the session
\* it had before, and then serial numbers start anew in that session.
NotifyIsNews ==
    [][\A c \in Cxn :
          /\ ~Cleared
          /\ cxn[c] = "loop_end" /\ Open(c)' /\ local'[c] # local[c]
          => told'[c] > told[c]]_vars

\* Once updates stop, every router that stays is told of the last one or was
\* connected after it, by main's refresh and the connection's check, unless the
\* data is cleared.  A router that pipelines queries puts the check off, or is
\* never answered; one that stops pipelining and has its answers is told.
NewsArrives ==
    \A c \in Cxn :
        (Open(c) /\ local[c].ver # published.ver)
        ~> (\/ ~Open(c) \/ Cleared \/ local[c].ver = published.ver
            \/ cxn[c] = "pipelined")

\* A connection of a session that has been replaced by another is closed, for
\* a router that does not pipeline queries.
OldSessionsEnd ==
    \A c \in Cxn :
        (Open(c) /\ rtr_session # NULL /\ local[c].session # rtr_session)
        ~> (\/ ~Open(c) \/ local[c].session = rtr_session
            \/ cxn[c] = "pipelined")

\* rpki-rtr-clear.in:11-12: "Note that this will disconnect all rpki-rtr
\* clients".
ClearDisconnects ==
    \A c \in Cxn : (clearing = "rtr_update" /\ Open(c)) ~> ~Open(c)

=============================================================================
