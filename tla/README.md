# TLA+ models of RPSTIR

RPSTIR is a relying party of the RPKI. It downloads the objects that resource
holders publish, validates them, and serves the validated route origin
authorisations (VRPs: AS number, prefix, maximum length) to routers with the
rpki-rtr protocol (RFC 6810). This directory models the part of it in which
processes and threads meet.

## The system

| Part | State | Operations |
|---|---|---|
| `synchronize`, `updateTA.py`, `rsync_cord.py`, `rsync_aur`, `chaser` | lists of URIs, the downloaded files | download, retry, report what changed, find the next URIs |
| loader `rcli` with `lib/rpki/sqhl.c` | tables of certificates, CRLs, ROAs, manifests with flags | add, update, remove; propagate validity; revoke |
| `garbage` | the same flags | expiry, stale CRLs and manifests |
| `rtr-update` with `lib/db/clients/rtr.c` | `rtr_update`, `rtr_full`, `rtr_incremental` | copy the VRPs under a new serial, compute and publish the changes, retire old data |
| query functions of `lib/db/clients/rtr.c` | a `query_state` per query | answer serial and reset queries in batches |
| daemon `rpki-rtr` | a thread per connection, connection control, database threads, queues, a bag, semaphores | accept, read, respond, cancel, shut down; notify |
| operator scripts | session, tables | initialize, clear |

They interact only through the database and, inside the daemon, through queues,
one bag and semaphores. No program opens a transaction, so the SQL statement is
the unit of atomicity. Nothing orders the programs but cron.

The hard behaviours: a run of `rtr-update` that dies between two statements,
overlapping runs, serial numbers that wrap; a response put together from many
statements while the updater works; a request that moves between queue, bag and
threads while its connection ends; semaphores that stand for two things at once.
`PROJECT.json` lists them as hazards, each at its line.

What makes the system correct: a router that got an End of Data holds exactly
the VRPs of one published serial; published data is what was valid when it was
copied, also after crashes; nothing is deleted while routers may be given it;
every query gets one complete answer and the daemon can stop.

## Modules

| Module | Models | Source |
|---|---|---|
| `RtrTables` | the three tables, their keys, the statements both sides use | `lib/rpki/scmmain.h`, `lib/db/prep-stmt.c` |
| `RtrUpdate` | a run of `rtr-update`, one action per statement | `bin/rpki-rtr/rtr-update.c`, `lib/db/clients/rtr.c` |
| `RtrServe` | serial and reset queries; composes with `RtrUpdate` | `lib/db/clients/rtr.c` |
| `RtrDaemon` | the threads of the daemon | `bin/rpki-rtr/*.c` |
| `RtrNotify` | sessions, cache states and Serial Notifies | `bin/rpki-rtr/cache_state.c`, `connection.c`, `rpki-rtr-clear.in`, `rpki-rtr-initialize.in`, `lib/rpki-rtr/pdu.c` |
| `RtrUpdateProofs`, `RtrNotifyProofs` | theorems about `RtrUpdate` and `RtrNotify` | |
| `MCRtrUpdate`, `MCRtrServe`, `MCRtrDaemon`, `MCRtrNotify` | small instances for TLC | |

**RtrTables, RtrUpdate.** A table is a function from serials. A VRP is a number,
its rank in the `order by` of the statements. `pc[u]` is the statement updater
`u` runs next; `first_time`, `force_update`, `previous_serial` and
`current_serial` are the variables of `main`. `Crash` ends a run anywhere, and so
does a statement that fails. The copy of the valid ROAs (`InsertFull`) takes any
set of VRPs. Two history variables, `copied` and `snap`, remember which set each
serial stands for; no action reads them but `InsertUpdate`, to fill `snap`.
The clock only moves forward, and may stand still between two updates. A run
starts with a valid session; the session and its clearing are in `RtrNotify`.

**RtrServe.** `query[r]` is the `query_state` of the query in progress, with the
statement it runs next. The updater's actions come between any two statements.
A router applies a response at its End of Data, and drops one that ends with an
Error Report, a Cache Reset or a lost connection. The history field `lapsed` says
that full data was read after `rtr_update` no longer offered it.

**RtrDaemon.** An action is the code between two operations on shared state
(queue, bag, semaphore, socket). What a response says is `RtrServe`'s subject;
here it is one of `more`, `done`, `fatal`. `batches` is how many `get_next` calls
a query will take. An iteration over the bag holds its lock and looks at the
entries one by one, in any order. A signal (`Shutdown`) cancels the connection
threads, which act on it only at cancellation points. A PDU arrives whole:
`read_block`, which waits for the rest of one, is not modelled, nor is the start
of the daemon (`startup` in `main.c`).

**RtrNotify.** `global` is main's cache state, refreshed by two statements under
the lock (`refresh` is the session read by the first); `local[c]` is a
connection's copy. `check_time[c]` counts down to `next_cache_state_check_time`.
`"loop_end"` is the end of a turn of `connection_main_loop`, where the check is
made if it is due. A query that comes while another is being answered
(`ReceiveQuery`; the response is then `"pipelined"`) goes to `to_process_queue`,
of which `queued[c]` is the length, and is taken up as soon as the response ends
(`NextQueued`), without the check. A query is reduced to the serial and the session its End of
Data will carry, read by separate statements; the serial need not be the latest,
since a serial query ends early when it cannot look for the next row. Time is in
whole seconds, as in `time()`. The history field `ver` numbers the updates;
`told`, `quiet` and `gap` remember what a router was told, and when.

`rtr-update` takes a serial as its argument, "in test mode" only (its usage
message). `RtrUpdate` has this for every update (`ForcedSerials`); `RtrNotify`
only for the first one (`FirstSerials`), and every later update has the next
serial. A later forced serial that lies behind the latest one, or 2^31 or more
ahead of it or of a serial still held, is not greater: `GreaterMeansLater`, `NotifyIsNews` and
`NewsArrives` do not hold then and are claimed only without it. `NotifyRate` and
`OldSessionsEnd` do not depend on how serials compare.

## Runs

Passing runs:

| Run | Shows | Bounds |
|---|---|---|
| `update` | `FullMatchesSnapshot`, `IncrementalIsDifference`, `HistoryIsChain`, `NewestHasFull`, `MarkedBeforeDeleted` | 3 serials starting at the last one, so that they wrap and are reused at once; 2 VRPs; clock up to 3, retention 1, so that rows expire; a forced serial |
| `serve` | `RouterConsistent`, `ChangesApplyInOrder`, `FullSentInOrder` | 3 serials, 2 VRPs, batches of 2: a serial's rows fit, exceed or exactly fill a batch |
| `daemon` | `TokensCoverRequests` | 2 connections, 2 database threads, one response buffered |
| `one_connection` | `OneOutstandingRequest`, `NothingAfterLastResponse`, `ResponsesBuffered` | 1 connection, 2 database threads, 2 responses buffered, up to 4 batches, 2 PDUs, shutdown |
| `responses_end` | `ResponsesEnd` under fairness | 1 connection, a router that waits for its answers |
| `notify` | `GreaterMeansLater`, `NotifyRate`, `NotifyIsNews`, and under fairness, for routers that do not pipeline, `NewsArrives` and `OldSessionsEnd` | 1 connection (connections meet only at the lock that main holds), with at most one query queued behind another, 8 serials, 3 updates across the wrap-around, intervals of 3 and 1 seconds, one clear and a new session, equal to the old one or not |

`GreaterMeansLater`, `NotifyIsNews` and `NewsArrives` speak of the time before the clear. After it,
`rpki-rtr-initialize` may draw the same session again; then connections survive,
and serials that have nothing to do with each other are compared. They also
assume that no two updates are 2^31 or more apart (`MaxUpdatesAssumption`): to get
there, 2^31 updates would have to be published while one serial is held. What
`serial_number_greater` does at that distance is the theorem `SerialOrder`.

`ResponsesEnd` holds for routers that wait for their answers (`responses_end`) and
fails for routers that pipeline (`pipelining`). `NewsArrives` and `OldSessionsEnd`
therefore say nothing of a connection while it is `"pipelined"`: its response may
never end, and a router that always has a query queued puts the check off. Once
the connection is back at the end of its loop, both hold for it again. Safety
(`GreaterMeansLater`, `NotifyRate`, `NotifyIsNews`) is checked with pipelining.

Runs that show where the code and a statement about it part (the findings in
`PROJECT.json` quote the statement):

| Run | What happens |
|---|---|
| `two_updaters` | two overlapping `rtr-update` processes damage a published serial |
| `truncated` | a reset query that outlasts two updates ends normally with only part of the VRPs |
| `pipelining` | a response stays in the queue of a connection thread that waits forever |
| `shutdown` | a canceled connection thread waits forever, and with it the daemon's stop |
| `clear_disconnects` | after `rpki-rtr-clear` an idle router stays connected |
| `request_lifetime` | a connection thread ends before a database thread last uses its request |

Two smaller disagreements were met while modelling and have no run of their own.
Two runs of `rtr-update` in one second give two rows the same `create_time`
(`rtr.c:176`: "Each timestamp in rtr_update occurs in exactly 1 row"); the models
allow it. `serial_query_get_next` returns no PDU without being done when a full
array ended exactly with a serial's changes and another serial follows
(`rtr.h:57`: "Zero is returned only if is_done is set to true").

Named bounds: `MaxUpdates` (at most `Half`), `MaxQueued` (queries waiting in
`to_process_queue`; 0 in `MCClearDisconnects.cfg`, so that pipelining is not to
blame), `MaxTime` (clock), `MaxBatches`, `MaxPDUs`, `MaxPosts` (connection
control does not post a semaphore that already stands at this value; the code
may, which only adds tokens), and `SerialsNotReused` in `RtrServe`: a router does
not keep a serial while all 2^32 are used up once. `MCRouterNeverTruncated.cfg`
also excludes equal timestamps, so that only the deletion is to blame.
`CHECK_DEADLOCK FALSE` in the daemon's configurations: a connection is not
reused, so a state where all routers have gone and nothing happens is normal.

Fairness (`DaemonFairness`): weak fairness of every connection thread, every
database thread, of `select()` reporting a readable socket, and of the join. The
threads are scheduled by the operating system and block only on semaphores, on
the bag's lock and on the network. Nothing is assumed of routers, except that
they read what is sent to them or the write fails. Routers need not send, and
signals need not come.

`NotifyFairness`: time passes; main's loop turns, and its second statement succeeds
again and again (strong fairness, as it may fail now and then); every connection's
loop turns, and the responses to a router that waits for its answers end (this is
`ResponsesEnd`; nothing is assumed of pipelined responses). A thread waiting for the lock gets it between
main's refreshes (strong fairness): main sleeps 5 seconds after each. The second
statement of `rpki-rtr-clear` follows the first. Routers, updates and
`rpki-rtr-initialize` are not assumed to do anything.

## Proofs

`RtrUpdateProofs` proves for every modulus of at least 2, every number of VRPs,
every retention and every set of updaters that types are kept (`TypeCorrect`),
and for one updater at a time (`OneUpdater`):

- `FullSafety`: `FullMatchesSnapshot`;
- `IncrementalSafety`: `IncrementalIsDifference`;
- `ChainSafety`: `HistoryIsChain` and `NewestHasFull`;
- `MarkingSafety`: `MarkedBeforeDeleted`.

The assumptions are those of `RtrTables` and `RtrUpdate`: the modulus, VRP count
and retention are natural numbers, NULL is no serial, first and forced serials
are serials. `OneUpdater` is what the run `two_updaters` shows to be needed.

None of the properties is inductive alone. That a published serial has the right
rows depends on what the run that published it had stored, which depends on the
tables being swept before, which depends on the serial being unpublished. The
inductive invariant `IndInv` therefore has three parts: types; `TableInv`, which
describes the tables at any moment (one chain, whose newest serial has its full
data, no row older than its predecessor); and `RunInv(u)`, one conjunct per phase
of a run:

- `StartInv`: the previous serial is published, or the database was empty;
- `SweptInv`: after the sweep, unpublished serials have no rows, so that the
  inserts start from nothing;
- `SerialsInv`: after `good_serials`, the new serial is free and the previous one
  is the newest (whichever row of equal age `get_latest_sernum` picked);
- `StoredInv`: what the run has stored so far for its serial;
- `CleaningInv`: while old data is retired, the run's serials are the newest ones,
  and only they are still marked `has_full` when full data is deleted.

The proof goes action by action. Crashes are easy because `IndInv` asks nothing
of the rows of unpublished serials before the sweep.

`RtrNotifyProofs` proves `SerialOrder` (for every `Half`, exactly the serials less than
`Half` ahead are greater, by cases on the wrap-around) and `NotifyRateHolds` (`NotifyRate` for all connections and
intervals, clears included). `NotifyRate` is inductive together with `RateInv`:
the time to the next check and the time since the last Serial Notify add up to at
least the interval, so a check that is due finds the interval over. Without it
nothing relates the timer to the past.

Only model-checked: the properties of `RtrServe` and `RtrDaemon` (proofs planned);
`GreaterMeansLater`, `NotifyIsNews`; liveness (`ResponsesEnd`, `NewsArrives`, `OldSessionsEnd`), which is out of the prover's reach.

## Not modelled, and the plan

In order:

1. The order of PDUs on the wire (a Cache Reset in the middle of a response).
2. `RtrAdmin`: `rpki-rtr-initialize` and `rpki-rtr-clear` against a running
   updater.
3. `RpkiCache`: adding and deleting objects in any order, with the propagation of
   validity and revocation (`sqhl.c`), refined from the abstract statement "an
   object is valid exactly when a chain of valid, unrevoked certificates leads
   to a trust anchor"; then `Garbage` over the same flags and the loader.
4. `Synchronize`: the crawl of `synchronize`, `rsync_cord`, AUR and `chaser`.
5. `Bag`: the container with reallocation and erasing during an iteration, shown
   to implement the set `RtrDaemon` uses.
6. PDU parsing and printing, and the address range arithmetic, as functions.
7. Proofs: `RouterConsistent` from `IndInv`; `OneOutstandingRequest` and
   `TokensCoverRequests` of the daemon.

Left out for good: the ASN.1 library and signature checking (encoding and
cryptography), configuration parsing, reports, statistics, and the tools that make
test objects. The loss of a database thread (failed allocation, or no database at
start) is not modelled: the code logs it and leaves requests unanswered.
