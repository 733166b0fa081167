# TLA+ models of the Home Assistant Chat Companion

This directory holds TLA+ models of the chat companion server
(`home_assistant_chat_companion/`), the TLC configurations that check them, and
TLAPS proofs of what matters most about them. Line numbers below refer to
`home_assistant_chat_companion/src/hachat_companion/` unless a path is given.

Run everything from this directory: `tlc -config X.cfg M` for a run,
`tlapm M.tla` for a module of proofs. `PROJECT.json` lists the runs, the proved
theorems, for each definition the source lines it stands for, the hazards of the
code, and where the code and its documents disagree.

Some definitions have a neighbour that differs from them by one plausible slip
(`DueEventsLate` before `DueEvents`, `SpawnFailsHolding` before `SpawnFails`; a
comment says what the slip is). Nothing in a specification uses them. They are
there to be put in the place of the real definition: the property listed with
them in `PROJECT.json` must then fail, which shows that it says something.


## 1. The system

A companion server keeps accounts, their devices and their encrypted messages in
one SQLite database, and serves two listeners: one for clients and one for other
companion servers ("peers").

    client --HTTPS--> client listener ----+                    +---- federation listener <-- peer
                                          |                    |
                                          +--> storage.Store <-+
                                          |   (SQLite, 1 lock) |
                     boot: run.sh, cli ---+                    +---- OutboxDispatcher --> peers

All threads of a process share one connection behind one re-entrant lock
(`Store._lock`, storage.py); the short commands of `run.sh` open the same file
from processes of their own. So a storage method is atomic as far as its `with
self._lock` and its transaction go, and no further: what a caller read before
it is stale by the time it runs.

### Components

**Message delivery and receipts** (storage.py, federation.py, events.py, the
message endpoints of api.py).
State: `sent_events` (what the sender is shown: queued, accepted, delivered,
read, failed), `inbox_events` (accepted, delivered, read), `event_routes`,
`federation_outbox` and `federation_receipt_outbox` (attempts,
`next_attempt_at`), `devices.last_counter`.
Operations: submit (stored straight into a local inbox, or queued), repeat a
submission, fetch the inbox, acknowledge, the cleanup most of these begin
with, the dispatcher's two reads and four ways to record a result, and the
recipient's two endpoints.
Hard: at-least-once delivery over lost and late answers; receipts that overtake
the answer to the message they are about; purges on two clocks; limits that
refuse half way through a transaction; a crash anywhere.
Correct when: the status never claims more than happened; nothing is lost nor
stored twice; acknowledgements are not undone by retries; receipts arrive in
order and are kept until they are of no use; every queued message settles.

**Federation request acceptance** (`verify_federation_signature`,
`record_federation_nonce`, `_federation_peer`).
State: `federation_nonces`. Operation: judge the timestamp, record the nonce and
delete old ones. Hard: the clock is read twice outside the lock, and handlers
interleave. Correct when no request is accepted twice and none is refused
without having been accepted.

**Devices and key packages.** State: `devices`, `key_packages`. Operations:
enrol, upload a batch, claim, purge. Hard: one-time packages against repeated
claims, a limit that is checked for a batch of which only a part is stored.
Correct when a package goes to one claimant, a repeated claim gets the same one
and the limit holds.

**Boot sequence, accounts and peer table** (run.sh, cli.py). State: `accounts`,
`federation_peers`, the operator's options. Operations: one short process after
the other, any of which can be killed or fail; manual commands meanwhile. Correct
when a serving server has exactly the peers of its list and the first account is
created once.

**Service life cycle and worker slots** (server.py, cli.py, the thread of
federation.py). State: threads, events, semaphores. Operations: start, wait,
close, the signal threads' `request_shutdown`, accept loops. Hard: signals at any
moment, `shutdown()` from several threads at once, slots, a join with a time-out.
Correct when slots are conserved, the store is closed last, and a stop completes.

**Outbox dispatcher** (federation.py). State: the batch it is delivering, `_stop`,
`_wake`. Its work is part of the delivery model, its thread, the interval and the
wake-up part of the life cycle. Hard: a stop at any moment of a wait that clears
the very event a stop sets. Correct when a stop is not missed.

**Rate limiter** (ratelimit.py). State: a deque of times per client address, for
at most `max_keys` addresses. Operation: `allow`. Hard: the time is read before
the lock, so that times are appended out of order and a deque is judged by a
time older than its entries; trimming looks at the head only; a full table
forgets an address. Correct when no burst gets through, nobody is refused without
cause, and the address that is forgotten is the idlest one.

**Schema creation and migration** (`Store.__init__`, `_migrate`). State: the
database file. Operation: eleven statements, of which only the CREATEs share a
transaction. Hard: every command and the server migrate before they do anything
else, several at once, and any may be killed. Correct when an open store has the
schema the program was written for, whatever happened before.

**Sessions and password authentication.** State: `sessions`. Operations: log in
(limiter, password check outside the lock, `create_session`), look a token up,
log out, purge. Hard: three clocks, one of a purge, one of a look-up and the real
one; log-out in two transactions. Correct when live sessions stay and dead ones
stay out.

**Addresses, configuration, payload validation** (address.py, config.py,
events.py): pure functions. **HTTP plumbing and TLS**: framing and certificates.
**Reference client, health probe, self-test**: sequential tools without state.

### How they interact

Delivery uses the peer table (a peer switched off is neither posted to nor
believed: `peerOn` in the delivery model, changed by a restart as the boot
sequence changes it) and is called through request acceptance (a refused request
is `Lose` in the delivery model). The life cycle starts and stops the dispatcher;
a stop at any point of a batch is `Restart` in the delivery model. Key packages
are claimed before a message is written and are purged by the cleanup that the
message operations run, as sessions are. A login goes through the limiter before
it touches the store. Every other part works on a store that `Migration` has
opened.


## 2. Modules

| module | models | source |
|---|---|---|
| `FederatedDelivery` | messages and receipts end to end, for any number of servers | storage.py, federation.py, api.py |
| `DeliveryStatus` | what delivery promises: the status a sender is shown against what happened | abstract |
| `PackagePool` | what key packages promise: pools of one-time packages and what claimants are told | abstract |
| `SchemaUpgrade` | what the migration promises: one indivisible upgrade, one server id | abstract |
| `ReplayGuard` | timestamp, cut-off and nonce of signed requests in concurrent handlers | security.py, api.py, storage.py |
| `KeyPackages` | devices, packages, claims, purge | storage.py, api.py |
| `Startup` | the boot processes, the peer table, the first account | run.sh, cli.py, storage.py |
| `Lifecycle` | owner, signal threads, accept loops, handshakes, slots, dispatcher thread | server.py, cli.py, federation.py |
| `RateLimiter` | the sliding-window limiter | ratelimit.py |
| `Sessions` | login, tokens, log-out; composes `RateLimiter` (EXTENDS) | api.py, storage.py |
| `Migration` | concurrent starts on one database | storage.py |
| `MC...` | instances of these for TLC | |
| `...Proofs` | theorems about these for TLAPS | |

### FederatedDelivery

An *item* is a message or one of its two receipts: a row of an outbox. `sent` and
`inbox` are the states of the rows of a message ("none": no row), `queue` the
attempts of an outbox row (`NoRow`: none).

| action | code |
|---|---|
| `SubmitLocal`, `SubmitRemote` | `create_outgoing_event`, one transaction: cleanup, repetition by client id, counter, quota, rows. `Routed` is the look-up of the peer before it |
| `RefuseFull` | the same when a table is full: the counter is raised, the quota refuses, `ROLLBACK`. The other refusals come before anything is written and are no actions |
| `Resubmit`, `FetchInbox` | the calls that find what they look for and only run the cleanup |
| `MarkReceipt` | `mark_receipt`, and the receipts it queues (both, when a message is read that was never reported as delivered) |
| `DueOutbox`, `DueReceipts` | the two reads of `flush_once`; the attempts are remembered in `snap` as in `item["attempts"]` |
| `Post` | `_deliver_event` / `_deliver_receipt` up to the request: the peer may have been disabled |
| `Validate` | the peer's handler up to the lock: known peer, not expired by its own clock |
| `StoreEvent`, `StoreReceipt` | `accept_federated_event`, `accept_federated_receipt` under the lock |
| `FinishOk`, `FinishErr` | `mark_outbox_delivered`, `mark_outbox_failed` and the two for receipts |
| `Lose`, `TimeOut` | a refusal or a lost answer; an 8 s time-out after which the peer serves the abandoned request whenever it likes (`stray`) |
| `Restart`, `RestartInFailure` | a server stops and starts with any set of enabled peers; the second stops it between the two separately committed updates of `mark_outbox_failed` |
| `Age` | one server's clock passes the end of a message or a receipt |

A handler is two steps because the clock and the peer are looked at before the
lock; `next_attempt_at` is left out: any subset of the rows with attempts left may
be due, up to the per-peer limit. Message bodies, signatures and the payload's
shape are taken as valid. `created`, `ack` and `torn` are histories, which no
guard reads (`Age` apart, which is about rows that have existed).

`DeliveryStatus` knows two things of a message, the status and what the recipient
has acknowledged, and says which steps users may see: the status rises only to
what has happened, is given up or forgotten, and what happened is never taken
back. `PromiseKept` is its specification under the mapping `status <- sent`, with
a purged row shown as "forgotten".

### ReplayGuard

`Verify` is the timestamp check, `ReadCutoff` the second look at the clock,
`Record` what happens under the lock. The network may bring any request at any
time and as often as it likes. `Tick` advances the clock, at most `MaxLag` while
a handler is between judging and recording. Clock seconds are integers as in
`int(time.time())`.

### KeyPackages

One action for each transaction. A claim whose answer is lost is a claim that is
repeated. `given` says who got a package since it was last stored, `held` what a
claimant last got for a device.

`PackagePool` is what devices and claimants see: a pool of free packages for each
device, at most one package reserved for a claimant, and answers that are what is
reserved at that moment. `PoolKept` is its specification with the free rows as
`pool`, the claimed rows as `reserved` and `held` as `answer`. It says that a package
leaves its pool in a claim only, for a claimant who has none of that device, that
it is never another's afterwards, and that it comes back to no pool before the
server has forgotten it.

### Startup

`phase` is the command of `run.sh` that runs. `Kill` may come between any two
commands; a failing command is `RefusePeer` (set -e). `EditOptions`,
`CreateAccount` and `AddPeer` are the operator's, at any time. The list is read
from a process substitution, whose failure the script does not notice: `ReadList`
may read an empty list.

### Lifecycle

`at` and `on` are where the owner and each signal thread stand and on which
listener. The listeners are Python's `socketserver.BaseServer`: `flag` is its
shutdown request and `down` its event; `Shut`, `Awaited`, `Enter`, `EndLoop` keep
its order of assignments (external to `src/`). A request is `Take`, `Acquire`,
`Spawn` or `SpawnFails`, `Handled`; on a listener with a certificate (`Tls`)
`Take` is the accept that does the handshake in the loop's own thread, and
`HandshakeEnds` its end, good or bad. The dispatcher's loop is `FlushBegins`,
`FlushEnds`, `Interval` or `Woken`, `Clear`; `stop` sets its two events in two
steps, `StopOutbox` and `WakeOutbox`.

### RateLimiter

`entries` are the deques, an empty one being a key that is not in the table (after
`allow` none is empty, since the limit is positive). `Allow` and `Refuse` are the
two ways of one call; its time `now` is any of the last `MaxLag` seconds, since it
was read before the lock. `admitted` is a history: when requests were really let
through, for as long as the limiter remembers the key. `Forget` is a new process.

### Sessions

`Login` is `RateLimiter!Allow` and the start of a password check, `TurnAway` is
`RateLimiter!Refuse`. `CreateSession` or `WrongPassword` follow. `BeginLogout` and
`RevokeSession` are the two halves of `DELETE /v1/session`; `Cleanup` is the
sessions' line of the cleanup that message operations run. Each takes its time
before the lock. `due` and `revoked` are histories. The variables of the limiter
keep their names, so the composition implements the limiter under the identity:
`LimiterImplemented` proves it.

### Migration

`stage` is the statement a process executes next; the tables are reduced to the
two that have gained a column (`transport`, `packages`: absent, narrow, full),
the index on the new column, the stamp and the server id. `Init` is any database a
process may find: none, one of an older version with or without these tables and
columns, one that is up to date, one of a newer version. `Duplicate` is the ALTER
TABLE that finds the column there; `Fail` a kill or a failing statement.

`SchemaUpgrade` is what whoever opens the database sees: it is older than the
program, present or newer, becomes present in one step, gets its server id once, and
is worked on only when it is present and has the id. `UpgradeKept` is its
specification under the mapping `Era`.


## 3. Runs

Deadlock is checked in all runs but three: in `lifecycle` and `stop_heeded` the
process ends, in `replay` the bounded clock stops.

| run | instance | states | question |
|---|---|---|---|
| `delivery_expiry` | one message s1 to s2 which may expire, 2 attempts, quota 1, 1 fault | 564 300 | is the status honest, is anything lost, is `DeliveryStatus` implemented |
| `delivery_quota` | three messages of one device, local and remote, a reused client id, quota 1, 1 per peer, the first two messages may expire, no faults | 165 840 | counters and duplicates around refusals |
| `delivery_live` | one message, 3 attempts, quota 2, 2 faults, fairness | 30 676 | does everything queued have attempts left and settle, is what was read reported, when does a status fall |
| `replay` | 2 handlers, 3 requests, one nonce of two peers, skew 1, retention 2, lag 1, clock to 7 | 317 359 | is a request accepted twice |
| `packages` | 1 account, 2 devices, 3 packages, 2 claimants, limit 2 | 37 708 | are packages one-time, do reservations last until they age out, is `PackagePool` implemented |
| `startup` | 2 peers, 2 addresses of 2 ports, 2 boots, 2 accounts | 305 071 | does a server serve its list |
| `lifecycle` | 2 signals, 1 slot, handshakes on one listener, fairness | 163 545 | does a stop complete, in order, and is none lost on its way |
| `access` | 2 handlers, 3 addresses, room for 2, limit 2, window 2, lag 1, lifetime 2, 1 token, clock to 3 | 395 304 | does the limiter limit, do sessions live as long as they should |
| `upgrade` | 3 processes, 2 ids, versions 0 to 3 of which 2 is the present one, 2 faults, fairness | 24 890 | is an open store complete, is `SchemaUpgrade` implemented, does every start get through |
| `status_monotone` | one message, 2 attempts, quota 1, 1 fault | violated | see 6 |
| `list_applies` | as `startup`, nothing added by hand | violated | see 6 |
| `stop_heeded` | 2 signals, 1 slot, fairness | violated | see 6 |

### Bounds, and why they are enough to be worth running

- *One remote message* brings three items (it and its two receipts) and two
  servers that each run a dispatcher and serve the other. Messages interact
  only through the quota, the counter, the client id and the per-peer limit:
  `delivery_quota` has three of them for that.
- *`MaxAttempts` 2 or 1* stands for 10 000. Two separates "failed, will be
  retried" from "last attempt"; `delivery_live` has three so that fewer attempts
  fail than a row has.
- *`MaxFaults`* is the number of losses, time-outs and restarts in a behaviour.
  A refused retry and a peer that is switched off use up attempts without one,
  so that even one fault brings a message to its last attempt.
- *`Mortal`* are the messages that may expire, at any time on either server's
  clock, so also on one only.
- *`Quota`* 1 with one message is the limit exactly; with three messages it refuses
  every submission that comes before the row of the last one is purged.
- *Skew 1, retention 2, lag 1* is the tight case of `Skew + MaxLag <= Retention`;
  the code's is 300 + lag <= 600. The clock runs until the nonce of every request
  has been deleted.
- *One slot, two signals*: a request holds the slot while another waits for it in
  the loop, which is the case of 64; two stop requests and the owner's close
  overlap. Handshakes are on one listener so that both kinds of loop are there.
- *Two handlers, three addresses, one token*: one handler is about to log a session
  out while the other uses, purges or logs out the same one. With room for two of
  three addresses the table is full. With window, lifetime and limit 2 and lag 1 the
  clock runs to 3: a window and a lag pass, and a session is past its expiry while
  some look-up still has the time before. Several sessions at once are left to the
  theorems (a run with two tokens and one handler, 993 232 states, finds no error
  either).
- *Three processes*: one can be past a look while another alters and a third is
  only starting. Two faults let one start be killed half-way and another after it.
- *Two boots, two accounts, two peers*: one boot starts from what another left
  when killed. Peers and addresses are symmetric, since nothing tells them apart.

What the theorems below prove does not depend on any of these.

### Fairness

`FederatedDelivery!Fairness`: the dispatcher thread runs until the server stops
(weak fairness of `DueOutbox` and `DueReceipts`); due rows are read in the order of
`next_attempt_at`, so none is passed over for ever although it is only offered now
and then (strong fairness that each row is in a batch); a pool thread posts, gets
its answer recorded, and the peer serves a request that is waited for (weak).
Nothing is assumed of clients, of abandoned requests, of the clock, of faults.
`ReadIsReported` has the premise that no peer is switched off, and its run more
attempts than faults: the code promises nothing without these.

`Lifecycle!Fairness`: the owner, the signal threads, the loops and the dispatcher
are threads that run; a request ends (its socket times out after 15 s) and a batch
ends (each post times out after 8 s). Nothing is assumed of signals, of requests
coming, of the time-out of joining the dispatcher, nor of the dispatcher's
interval: a stop must complete by its wake-up. Nothing is assumed of handshakes
either, which have no time-out in the code; `StopCompletes` has the premise
`HandshakesEnd` instead, and is no promise where a client can leave one hanging.

`Migration!FairSpec`: a process that runs gets on, and one that ended is started
again, the App by the supervisor, a command by the operator. Faults are bounded.


## 4. Proofs

The theorems hold for all values of the constants under the named assumptions.

| module | theorems | inductive invariant |
|---|---|---|
| `FederatedDeliveryProofs` | `TypeCorrect`, `StatusHonestCorrect`, `InboxFaithfulCorrect`, `NothingLostCorrect`, `CounterIsLastStoredCorrect`, `StoredOnceCorrect` | `DeliveryInv` |
| | `ReadHeldBackCorrect`, `QueuedHasAttemptsCorrect`, `StatusFallsCorrect`, `ReceiptKeptCorrect`, `PromiseKeptCorrect` (a refinement of `DeliveryStatus`) | `DeliveryInv`, `OutboxInv` |
| `ReplayGuardProofs` | `AcceptedOnceCorrect`, `RefusedOnlyReplaysCorrect` | `ReplayInv` |
| `KeyPackagesProofs` | `SoleClaimantCorrect`, `OneReservationCorrect`, `StableReservationCorrect`, `WithinLimitCorrect`, `PoolKeptCorrect` (a refinement of `PackagePool`) | `PackageInv` |
| `StartupProofs` | `ServingMatchesCorrect`, `ListedResolveCorrect`, `BootstrapOnceCorrect` | `BootInv` |
| `LifecycleProofs` | `TypeCorrect`, `SlotsConservedCorrect`, `ReturnedMeansStoppedCorrect`, `StoreClosedLastCorrect`, `StopNotLostCorrect` | `LifecycleInv` |
| `RateLimiterProofs` | `SpacedCorrect`, `RefusedForCauseCorrect`, `EvictsIdleFirstCorrect` | `LimiterInv` |
| `SessionsProofs` | `LimiterImplemented` (a refinement) and from it `LoginsSpaced`, `LoginRefusedForCause`, `LoginEvictsIdleFirst`; `TypeCorrect`, `LiveKeptCorrect`, `DeadStaysOutCorrect` | `SessionInv` |
| `MigrationProofs` | `TypeCorrect`, `StampHonestCorrect`, `OpenCompleteCorrect`, `OneServerIdCorrect`, `NewerUntouchedCorrect`, `UpgradeKeptCorrect` (a refinement of `SchemaUpgrade`) | `MigrationInv` |

Each proof has the same shape: Init establishes the invariant; one step per action
preserves it, with one step per part the action can disturb; the property follows.

- **Delivery.** The status alone is not inductive: an answer under way could raise
  it. `AnswersTrue` says that a positive answer means the message is stored, and
  that every receipt that is queued, picked, posted or abandoned is true of the
  recipient. `InboxFaithful` is needed for that (a receipt is made from the inbox
  row, which must be no further than `ack`), `Bookkeeping` says that nothing at
  all is known of a message before it is created, and that its counter is used up
  afterwards, which is what keeps a purged message from being created again.
  `NothingLost` needs `AnswersTrue` when an answer takes the row from the outbox.
  `CounterIsLastStored` is inductive by itself; `StoredOnce` follows from
  `Bookkeeping`.
  Assumption `DeliveryAssumption`: a device belongs to one account, counters are
  positive, at least one attempt.
- **Outboxes.** What the dispatcher writes depends on rows that may have gone or
  changed since it read them, and `DeliveryInv` says nothing of that. `OutboxInv`
  adds `RowsPaired` (while the dispatcher is busy with a message, its row still
  holds the attempts that were read, or went together with the sent row) and
  `AnswersLearned` (a positive answer to a receipt means the sender's server shows
  it, has nothing to show it on, or has overwritten it by giving up), and with
  them `QueuedHasAttempts` and `ReadHeldBack` are inductive. Without `RowsPaired`
  a failure could be recorded on a row with other attempts than it was read with;
  without `AnswersLearned` `ReceiptKeptUntilLearned` fails where an answer takes a
  receipt from the outbox. `StatusFallsOnlyWhenGivenUp` and
  `ReceiptKeptUntilLearned` follow step by step.
- **`PromiseKept`.** Init maps to Init. `MessageMoves` says once what any step does to
  the rows of any message: leave them (`Untouched`), purge both (`Purged`), store it
  for the first time (`FirstStored`), raise its status (`Shown`), or record how a
  delivery ended. `ShownMoves` turns that into what the sender may see and `AckMoves`
  says it of the recipient; together they are a step of `DeliveryStatus` for every
  message. `StatusHonest` bounds what is learned, `Bookkeeping` tells a message that
  was never created from one that was forgotten, `InboxFaithful` makes an
  acknowledgement rise, and `RowsPaired` leaves nothing to give up on a message
  whose row has gone.
- **Replay.** `Remembered`: an accepted nonce is in the table, or so old that no
  handler can still have judged its timestamp good; every handler's cut-off is at
  least `Retention` behind the clock. Assumptions: `Skew + MaxLag <= Retention`
  (a handler that stalls more than 300 s between its check and its insert, with a
  timestamp at the far end of the skew, is outside the theorem), and that a peer
  never signs two requests with one nonce.
- **Key packages.** The claimant of a row is exactly who was given it, and was told
  of no other package of the device since (`ReservedIsTold`): while it has a row, a
  claim returns that row. `StableReservation` follows, since only a claim makes a
  reservation and only the purge of an aged row ends one. `WithinLimit`
  is proved beside it with the cardinality theorems of the library. For `PoolKept`,
  `ClaimOnDevice` says what a claim does to the rows of one device, reserved packages
  are one by `OneReservation`, an upload is of packages without a row, hence of
  nobody's, and the purge takes claimed rows only.
- **Boot.** No two rows share an endpoint; what is enabled is what this boot has
  configured so far and what was added by hand since `disable-peers`.
- **Rate limiter.** `QueueTrue`: a deque holds the last requests of its key, each
  time at most `MaxLag` before the moment the request was let through; what was
  dropped was let through a window ago, since it stood before an entry that had
  left the window, or had left it itself. Hence `Spaced`: when a request is let
  through, the one `Limit` places before it is among those dropped. Assumption
  `LimiterAssumption`: the limit and `max_keys` are positive.
- **Sessions.** Its steps are steps of the limiter or leave it alone, so `Spaced`,
  `RefusedForCause` and `EvictsIdleFirst` hold of it too, which the run `access`
  checks and `LoginsSpaced` and the two after it prove. A row is that of its
  token, and a purge, whose time is at most the clock, takes no row that is alive.
- **Migration.** `Behind`: what a process has behind it is in the database, and
  nobody undoes it; the stamp comes last, so `StampHonest` follows. A process
  that is past its look has seen that the database is not newer, and no process
  of this version makes it so. For `UpgradeKept`, only the stamp changes the era
  (`EraMoves`), the id is named and the store opened by processes that have the
  stamp behind them, and every other statement is hidden. Two versions of the program on one database at
  the same time are outside the model.
- **Life cycle.** A listener's event is set only when its loop is over; who passed
  it found it over; the owner is where it is only after what comes before.
  `StopNotLost` needs `StopSet` beside it: the wake-up may have been cleared already,
  but `_stop` was set before it, so that the dispatcher, which clears first and then
  looks, finds it. It is what can be proved of `StopCompletes`.

Only model-checked are the liveness properties `QueuedSettles`, `ReadIsReported`,
`StopCompletes` and `EventuallyOpens`: what happens under fairness is out of the
prover's reach. Every other property of a passing run has a theorem.


## 5. What each property is for

- `StatusHonest`: a sender is never shown "accepted" before the peer has the
  message, or "read" before it was read, whatever is repeated.
- `InboxFaithful`: a retry neither resurrects an acknowledged message nor does a
  purge lose one.
- `NothingLost`: between client, outbox and peer there is no gap a crash fits in.
- `ReadHeldBack`: the NOT EXISTS of `due_receipts`, and that the batch in the air keeps to it.
- `ReceiptKeptUntilLearned`: the ways a receipt may leave the outbox.
- `QueuedHasAttempts`: no message is shown as queued that nobody will try again.
- `StatusFallsOnlyWhenGivenUp`: the one way in which "monotonic" is not kept
  (section 6) is the only one.
- `CounterIsLastStored`, `StoredOnce`: the counter against refusals and purges.
- `PromiseKept`: all of this seen from outside.
- `QueuedSettles`: every queued message ends in another state. The exception is
  `torn`: a server that stops between the two updates of `mark_outbox_failed`
  leaves a message without attempts and shown as queued until it expires.
- `Spaced`, `RefusedForCause`, `EvictsIdleFirst`: the limiter against times that are
  appended out of order, in both directions, and against its own eviction.
- `LiveKept`, `DeadStaysOut`: sessions against stale clocks of purges and look-ups.
- `StampHonest`, `OpenComplete`, `NewerUntouched`, `EventuallyOpens`: concurrent and
  interrupted migrations; `UpgradeKept`: all of it seen from outside, the server id
  included.
- `StopNotLost`: a stop between the two events of the dispatcher, and stop requests
  that share a listener's flag.
- `PoolKept`: uploads, claims, repeated claims and purges seen from outside.
- `StableReservation`: a purge that goes by the wrong age, or a claim that passes on
  what another claimant holds, leaves somebody with a package it was told is its own.
- `AcceptedOnce`, `RefusedOnlyReplays`; `SoleClaimant`, `WithinLimit`;
  `ServingMatches` (of the list as `run.sh` read it: a failed read is an empty list
  and no property is against that), `ListedResolve`, `BootstrapOnce`; `SlotsConserved`, `StoreClosedLast`, `ReturnedMeansStopped`,
  `StopCompletes`: as commented in their modules.


## 6. Where the code and its documents disagree

1. **`status_monotone`** (storage.py:956). docs/protocol.md:57 calls delivered and
   read monotonic. When the answer to a message is lost but the message arrives,
   and the retries fail too, its receipts raise the status, and the last failed
   attempt sets it to "failed" whatever it was. The retries need no network fault:
   the recipient's quota is checked before the row is found to be there
   (storage.py:801), so a full inbox refuses them. The program needs 10 000 failures
   at up to 256 s, which is 29.6 of the message's 30 days; the run has two attempts.
2. **`list_applies`** (storage.py:444). Removing a peer from the list only disables
   its row, and the endpoint conflict counts disabled rows. An operator who replaces
   a peer by another at the same address and port gets an App that does not start.
3. **`stop_heeded`** (server.py:121). `request_shutdown` does nothing while no thread
   is registered; a signal in the window between installing the handlers and the
   first `append` is lost.


## 7. Plan

Order, the most important first; what is done in this state of the project is marked.

1. `FederatedDelivery` with `DeliveryStatus` as its abstraction, proofs of its safety
   invariants, `CounterIsLastStored` and `StoredOnce`. **Done.**
2. `ReplayGuard`, `KeyPackages`, `Startup`, `Lifecycle` with proofs; the dispatcher's
   wake-up and TLS handshakes in `Lifecycle`. **Done.**
3. `RateLimiter`, `Sessions` composing it, `Migration`, with proofs. **Done.**
4. `PromiseKept`, `ReadHeldBack`, `ReceiptKeptUntilLearned` and the safety part of a
   stop as theorems; abstract specifications of the key packages and of the
   migration, with proofs that they are implemented. **Done.**
5. An abstract specification of the peer table as a running server sees it (a boot
   replaces the list at once), with a refinement proof. Sessions need none: `LiveKept`
   and `DeadStaysOut` are all that an abstract one would say.


## 8. Not modelled

- Password hashing, HMAC, TLS, the bytes of tokens: cryptography, taken as right.
- SQLite itself: the journal mode, busy time-outs and locks between processes. A
  transaction is atomic and durable; one that fails for any reason is `Fail` in
  `Migration` and a refusal elsewhere.
- Two versions of the program on one database at the same time.
- Parsing and validation of addresses, configuration and payloads: pure functions
  without state. Only what validation decides about time is in the models.
- HTTP framing, JSON, logging. Refusals appear as `Lose`.
- The reference client, the health probe and the self-test: sequential tools.
- Durations. Back-off, intervals and time-outs are nondeterministic; that one slow
  peer delays the batches of all others (`flush_once` waits for the whole batch) is
  modelled, but how long is not a question an untimed model answers.
- Handler threads at close: they are daemons that `close` does not wait for, so
  `StoreClosedLast` is about the loops and the dispatcher only.
- An account made by hand between the two transactions of `bootstrap-account`: the
  model allows it, and no document says what should become of it.
