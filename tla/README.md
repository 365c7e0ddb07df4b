# Verification of banking-demo-revamp

TLA+ models of the Go back end of this repository, model-checked with TLC and proved
with TLAPS: the money-moving core, what is derived from it (balance read model, caches,
WebSocket feed, admin pages), and the way of a request from the gateway to a handler and
back. Paths below are relative to `src/`.

## 1. The system

A React frontend calls an HTTP gateway (`producer/`), which forwards each call
as a NATS request to one of four Go services. PostgreSQL is the source of truth;
Redis holds sessions, a login cache, a balance read model and presence keys;
JetStream holds a durable log of completed transfers.

| Component | State | Operations | Talks to | Module |
|---|---|---|---|---|
| transfer-service (`services/transfer-service`, `internal/db`) | rows of `users`, `transfers`, `notifications`; row locks; one transaction per request | `handleTransfer`: validate, `SerializableTx` retry loop around `runTransferTx`, commit, reply | PostgreSQL; after the commit Redis (Tier 2) and JetStream (Tier 3) | `TransferTx` |
| balance read model (`internal/redis`, `internal/nats/jetstream.go`, `services/account-service`) | Redis hash `balance`; stream `BANKING_EVENTS`; durable consumer | post-commit pipeline, publish, `runBalanceProjection`, `handleBalance` with its database fallback | all of the above | `BalanceReadModel` |
| auth-service | `users`, login cache, sessions | register, login, logout | PostgreSQL, Redis | `AuthService` |
| gateway (`producer`) | calls in flight, its NATS connection, an errgroup | `proxyHandler`, `call`, `run`, `Close`, `main` | the services | `RpcService` |
| NATS consumer, service runner (`internal/nats`, `internal/service`) | subscriptions, dispatch goroutines, an errgroup | `Run`, `dispatch`, shutdown, `InitDeps`' cleanup | every service | `RpcService` |
| notification-service WebSocket (`services/notification-service/ws.go`, `internal/redis`) | connections, presence key, subscriptions and channels | `wsHandler`, heartbeat, `Subscribe`, disconnect | Redis | `WsFeed` |
| account-service admin (`services/account-service/admin.go`) | none of its own | statistics and paginated lists, several statements each | PostgreSQL | `AdminQueries` |

What is hard here: requests run on goroutines of their own and interleave
statement by statement; PostgreSQL may abort any of them; a COMMIT answer may be
lost, or the COMMIT executed after its handler gave up and answered; what follows the
commit is best effort, unordered between requests and may be cut short by a crash; events are redelivered, reordered and eventually given
up; a cache is filled from a read that may be old by the time it is written; a call
may time out while its handler commits; handlers are not waited for at shutdown; three
goroutines of a WebSocket connection must end together although they wait for each other;
the tables grow between two statements of an admin request.

What makes each part correct:

* transfer: money is neither created nor lost, no account is overdrawn, each
  request is booked at most once, the reply tells the truth, nobody waits for ever;
* read model: only balances the account really had are served; acknowledged events were
  written; events settle; at rest the hash equals the database (not so, see 4);
* auth: a session belongs to the user who logged in; the cache mixes up no users and is
  fresh after a transfer (not so, see 4); a registration's reply says what happened to its row;
* gateway and runner: a status says nothing false about the booking, now or later; a client
  that only repeats refused calls is booked once; every call is answered; processes
  stop when told to (the gateway's does not, see 4);
* WebSocket: messages arrive in order, without duplicates or self-inflicted gaps; a beating
  connection keeps its user online; the key goes when the connections have gone; no
  goroutine is leaked;
* admin: turning the pages shows every row; names are resolved; the counts are related as
  the tables are, although they are not one snapshot.

## 2. Modules

| Module | Models | Checked by | Proved in |
|---|---|---|---|
| `Ledger` | what the transfer service promises: a one-step account book (abstract specification) | refined by `TransferTx` | |
| `Booking` | what a caller may conclude from an answer, and when a booking may still follow it (abstract specification) | refined by `TransferTx` and by `RpcService` | |
| `Sums` | the sum of a function's first n values, as SQL's SUM | `MCTransferTx`, `MCBalanceReadModel` | `SumTheorems` |
| `TransferTx` | `handleTransfer` to commit and reply, `SerializableTx`, row locks and snapshots | `MCTransferTx` | `TransferTxProofs` |
| `BalanceReadModel` | the hash `balance` and everything that writes or reads it; commits are steps of `Ledger` | `MCBalanceReadModel` | `BalanceReadModelProofs` |
| `AuthService` | registration, login through the user cache, sessions, logout, and the calls behind `RequireSession` | `MCAuthService` | `AuthServiceProofs` |
| `RpcService` | gateway, NATS request and reply, dispatch, and the processes of gateway and replicas from start to exit | `MCRpcService` | `RpcServiceProofs` |
| `WsFeed` | the WebSocket connections of one user | `MCWsFeed` | `WsFeedProofs` |
| `AdminQueries` | statistics and paged lists over growing tables | `MCAdminQueries` | `AdminQueriesProofs` |

### TransferTx

One process per request; `pc` is the statement the goroutine is about to run.
`db` variables are committed state, the others belong to the request.

* `Accept`/`Reject`: parsing and validation. `sender` (from the session) and
  `target` (what the identifier resolves to) may name users without a row.
* `ResolveReceiver`, `ReceiverNotFound`, `SelfTransfer`: the first statement takes a
  pool connection (`MaxConns`) and the snapshot. From here `missed[r]` collects the
  rows other transactions commit, the rows whose FOR UPDATE must fail with 40001.
* `LockRow`, `LockLastRow`, `LockStaleRow`, `SenderRowMissing`: `ORDER BY id FOR UPDATE`
  row by row.
* `CheckBalance`/`InsufficientFunds`, `UpdateBalances` (with the schema's constraints),
  `InsertTransferRecord` (the sequence moves even if the transaction fails later),
  `InsertNotifications` (also captures the post-transaction balances, in Go).
* `Commit` publishes the private writes; `CommitAnswerLost` commits but reports an
  error; `ReplySuccess` is the 200 after the best-effort tiers.
* `CommitInDoubt`: `RunInTx` returns as soon as the context is cancelled or the connection
  breaks, and the handler replies 500, while the server still has the transaction, with its
  locks and a COMMIT to execute. It commits (`LateCommit`) or rolls back (`LateRollback`)
  later, and other requests wait for its rows meanwhile; its connection has left the pool.
* `SerializationFailure` may strike at any statement, `DatabaseError` stands for every
  other error (connection, `statement_timeout`, cancelled context); `Retry` and
  `CancelBackoff` end the backoff sleep. A transaction that fails before its COMMIT was sent
  can only be rolled back, so `DatabaseError` does so at once: a later rollback would show
  other requests nothing but a longer wait for the same locks.

PostgreSQL itself is external: locks, snapshots and serialization aborts are modelled
as far as the code relies on them. `Nat` ids stand for BIGINT ids; the balance column
keeps its limit (`MaxBalance`). `MaxUserId` bounds the ids in use (`UserIdAssumption`), so that
`TotalOf`, the SUM of `handleAdminStats`, has an order to sum in; it is any natural number.

### BalanceReadModel

`Commit` is one step of `Ledger`, justified by the refinement theorem of
`TransferTxProofs`; the event carries the committed balances, justified by
`EventsCarryCommittedBalances`. Then the handler runs the pipeline command by command,
publishes and replies; any of it may fail, or the process may crash. The durable
consumer delivers new events in stream order and redeliveries at any time, to any idle
replica whose projection runs; `Nak`, `AckWaitExpires` and `MaxDeliver` are those of the code.
A replica's projection is `starting` until `InitStream`, `NewBalanceConsumer` and `Consume` have
all succeeded (`ProjectionStarts`) or one of them failed (`ProjectionFails`): then it is `off` for
as long as the process lives, since the error is only logged and nothing tries again.
`WorkerCrashes` is a crash and restart of the process, at most `MaxRestarts` of them.
A balance request reads the hash, else the database, then fills the hash. An error
from `GetBalance` or the database changes nothing but the reply and is a stuttering
step. The durable consumer keeps its offset over restarts.
The DEL commands of the pipeline are in `AuthService`, the PUBLISH commands in `WsFeed`;
neither is read here. `past` is a history variable.

### AuthService

Registrations, logins and calls are separate sets of requests; a record per request
says where it is, what its body was and what it was answered.

* `RegisterStart`, `RegisterInvalid`, then the insert loop: `InsertUser`, `AccountCollision`
  (`ON CONFLICT (account_number) DO NOTHING` returns no row, whether or not the phone is taken
  too), `DuplicatePhone` (23505), `InsertAnswerLost` and `RegisterError`. The random number is
  any of `AccountNumbers`; `MaxInserts` is `maxAttempts`.
* `LoginInvalid`, `CacheHit`/`CacheMiss`, `QueryUser`/`UserNotFound` (a username may name several
  rows: any of them is returned), the two SET commands of `SetUserCache` (`SetPhoneKey`,
  `SetNameKey`, either of which may fail without failing the login), `WrongPassword`,
  `CreateSession`. `LoginError` is an error of the cache lookup, the query or the session: the
  handler returns it, so the reply is 500. (The comment of `GetUserCache` expects its caller to
  go on to the database; `handleLogin` does not.)
* `Authorize`/`Unauthorized` are `RequireSession`; behind it a call is a logout (`DeleteSession`)
  or a transfer. Of the transfer only the commit, one step of the account book, and the DEL
  of the phone keys matter here.
* Sessions and cache entries expire at any time.

bcrypt is a wrapper only the password opens. A session is named by the login that
created it, since UUIDs do not repeat; one a failed `CreateSession` may leave behind is known
to nobody. Admin rights and the masking of phones in replies are left out.

### RpcService

A call is one HTTP request. `gw` is where `proxyHandler` is, `job` where the NATS message and
the goroutine that serves it are, `box` the reply in the gateway's inbox. A client wants one
booking and calls again, up to `MaxTries` times, after an answer of `RetryOn`.

* Gateway: `Accept`, `BadBody` (400), `Send`, `Relay`, `GiveUp` (a done context or the
  timeout, 504), `RequestFails` (502: any other error of `call`, before or after the message
  went out). `NoResponders` is the server's immediate answer when nobody subscribes (503).
* NATS: `Deliver` to one subscriber of the queue group; `Lose` a message or a reply (a broken
  connection, or the 64-message pending limit).
* Replica: `Spawn` and `Dispatch` a goroutine, `DropOnShutdown`, `Unauthorized`/`SessionError`
  of `RequireSession`, then the transaction as one step that books, refuses or fails not
  knowing which (`Book`, `Refuse`, `TxError`: `ReplyTruthful` and `ImplementsBooking` of
  `TransferTx` justify the statuses), and `Respond`. A transaction that failed may have left a
  COMMIT with PostgreSQL (`indoubt`), and so may one whose process crashed; `Resolve` decides
  it at any later time, before or after the 500, and after the replica is gone.
* Process: the errgroup of `Runner.Run` goroutine by goroutine (`ConsumerStarts`,
  `ConsumerFails`, `ConsumerStops`, `ListenFails`, `Signal`, `CtxDone`, `ServerClosed`,
  `HttpDrained`), then the cleanup of `InitDeps` (`CloseRedis`, `ClosePool`, which waits for
  connections in use), `Crash` and `Restart`. The gateway's `main` is the same shape, without an
  error from its signal goroutine.

Calls of the other services differ only in having nothing to book.

### WsFeed

The connections of one user; keys and channels of different users have nothing in common.
`pump`, `beat` and `fwd` are the three goroutines of a connection, `ctx` the context they
share; `buf`, `hand`, `ch`, `frame` and `out` are the places a message passes from go-redis'
own buffer to the socket. Time is counted in heartbeat intervals: `Tick` ages the key and lets
the tickers fire; a SET takes less than an interval. `SetPresence`/`SetFails`/`BeatEnds` are the
heartbeat, `Take`/`Put`/`FwdEnds` the forwarder, `Receive`/`Written`/`WriteFails`/`Disconnect`
the pump, `DelPresence`/`DelFails` its end. `Exit` is the end of a process, by crash or shutdown:
`http.Server.Shutdown` does not touch hijacked connections, so no disconnect runs. `grace` and
`lost` are history variables: how many heartbeats may still fail, and which messages the
subscription never had.

### AdminQueries

`Register` and `BookTransfer` let the tables grow, in any order of ids. An administrator opens a
list (`OpenList`), each request passes `RequireAdmin` (`Admit`, `Fail`) and runs its statements one
by one, each with its own snapshot: SELECT then COUNT for users, search and notifications, COUNT,
SELECT and names for transfers. `Reply` turns the page while the button of
`frontend/src/Admin.jsx` is live. The statistics are three counts (`StatsUsers`,
`StatsTransfers`, `StatsNotifications`) of one READ COMMITTED transaction. `paginate` is
`PageSize` and `PageNumber`.

## 3. Runs

Bounds are constants of the cfg files.

| Run | Instance | Shows |
|---|---|---|
| `transfer_mixed` | 2 accounts, 2 requests over 9 payloads (all refusals, an unknown user, a zero amount), 3 attempts, balance limit 3, fairness | types, lock ownership, ranges, at most once, ordered ids, the sum of all balances, event contents, refinement of `Ledger` and of `Booking` (truthful replies), every step is progress, every request is answered under 40001 at any point |
| `transfer_contended` | 3 accounts, 3 requests, two of them in opposite directions, 2 connections, 1 attempt, fairness | no set of requests waits for one another over rows and connections, no stale read, tables agree, every request is answered under contention for locks and connections |
| `readmodel_faults` | 2 accounts, 2 transfers, 2 replicas, 1 reader, all faults, 2 deliveries, 1 restart, 1 wipe | genuine balances, acknowledged means projected, the stream records the transfers |
| `readmodel_settle` | 2 transfers, 2 replicas, 2 deliveries, 1 restart, faults, fairness | events settle unless no replica has a projection |
| `readmodel_overtake` | 2 concurrent transfers, no faults | violation: see 4 |
| `auth_requests` | 2 registrations over 4 bodies, 2 account numbers, 2 attempts, 1 login, 1 call, faults, fairness | truthful replies, bounded attempts, every request is answered |
| `auth_cache` | 2 users with one username, 2 logins over 6 bodies, 2 calls, faults, expiry | the cache mixes up no users, sessions belong to their users |
| `auth_fillrace` | 2 logins, 1 call, 2 at a time, no faults | violation: see 4 |
| `rpc_calls` | 1 client, 2 tries (again after 400 and 503), 1 replica restarted once, all faults, fairness | refinement of `Booking` (truthful statuses), booked once, every call answered, the runner stops |
| `producer_exit` | 1 client, 1 try, 1 replica, fairness | violation: see 4 |
| `admin_pages` | 3 users (2 at the start), 2 transfers out of 3 ids, 4 notifications, page sizes 1 and 2, page cap 2, 1 administrator | complete walks, names, ordered counts |
| `ws_feed` | 2 connections on 2 processes, one of them subscribed, TTL of 3 intervals, 2 messages, buffers of 1, fairness | order, presence, goroutines end, the key expires |

Why these bounds are enough to be interesting. A lock cycle needs two requests on two
rows, a third makes a chain of waiters and, with two connections, a wait for the pool; a stale
snapshot needs one commit between snapshot and lock; double booking needs one retry after a
commit; a third attempt distinguishes the first, a middle and the last iteration of the loop. An
overtaking needs two transfers; a redelivery racing its first delivery needs two replicas, a
first and a last delivery two of them, and a projection that replaces one switched off a restart. Two
account numbers for two registrations make a collision on every attempt reachable; a stale
cache entry needs one login and one transfer, a confusion of users two. A late booking after a
retry needs two tries of one client; whether the first try's handler runs on the same replica
as the second makes no difference to either, and a restart lets it outlive one. Buffers of one
fill with the first message and overflow with the second; one connection's DEL takes the
other's key with two connections, of which only one needs a feed. Three pages' worth of rows
with a cap of two reach the last page, the page beyond it and the cap. The invariants are proved
without these bounds (section 5). `MaxInFlight` bounds the requests served at once. Symmetry is
used for requests and replicas only in runs without liveness properties.

Fairness. `TransferTx` assumes weak fairness of each goroutine's own steps: Go schedules
runnable goroutines, PostgreSQL grants a row lock that stays free, and the pool hands out a
free connection. Weak fairness suffices although locks are contended because requests are
finitely many. The server ends a transaction in doubt (`Resolve`): it executes the COMMIT it
received, or notices the lost connection, at the latest by the `statement_timeout` and
`idle_in_transaction_session_timeout` that `NewPool` sets. `BalanceReadModel` assumes weak
fairness of handler steps, of the server's redelivery timer and of replica steps, of which a
starting projection may always fail instead and one that is off takes none; nobody is obliged
to restart a replica. `EventsSettle` therefore has the alternative that all projections are off.
`AuthService` assumes weak fairness of each handler. `RpcService`
assumes it of the gateway's handler of a call (which includes its timer, not the errors behind
a 502), of the message's
delivery and handler, and of the steps a process takes once its context is done; deliveries
may still always be lost first. `WsFeed` assumes it of the three goroutines and of
time, and strong fairness of `BeatEnds`: when the context is done and the ticker fires too, Go's
`select` chooses at random, so it does not pass over the context for ever. Faults, clients,
peers, signals and publishers are never fair; in particular a write to a peer that does not read
may block as long as the connection is not found broken.

Deadlock is checked in the transfer runs (`AllDone` is the only end). The other systems may
be idle and run out of bounded inputs, so their runs do not check it.

## 4. Where documents, comments and code disagree

With a run that shows it:

* `producer_exit`: after SIGTERM `producer/main.go` drains the HTTP server and the connection,
  but all three goroutines of its errgroup return nil or wait: `client.run` waits for the
  group's context, which only an error cancels. `producer/README.md:182` describes a shutdown
  that ends with the exit of the process; in fact it hangs until it is killed.
  `internal/service/service.go:117` avoids this with `errShutdown` (`RunnersStop`).
* `readmodel_overtake`: `fork-docs/decisions.md:386` says the hash only becomes stale when
  the pipeline fails. Two transfers of one account commit in one order and run their
  pipelines in the other; no step repairs the field, because the projection writes the same
  absolute balances, in publish order.
* `auth_fillrace`: `fork-docs/decisions.md:355` says the DEL of the transfer "eliminates the
  window" in which a login shows an old balance. A login that queried the row before the commit
  writes it to the cache after the DEL.

Without a run of their own:

* `services/transfer-service/README.md:65` and `fork-docs/decisions.md:459` count on the message
  id to make a retry after a timeout harmless. The id is that of the transfer, and a retry books
  a transfer with a new one: with 504 in `RetryOn`, `BookedOncePerClient` fails.
* `services/account-service/README.md:68` promises a replay after a Redis wipe; the durable
  offset lives in NATS and survives the wipe. `fork-docs/decisions.md:650` says a failed pipeline
  makes the next `handleBalance` fall back to the database; it does so only for an absent field.
* The comment at `internal/nats/consumer.go:299` says stopping the service drains the handler
  goroutines; they were started by `go c.dispatch`, which it does not know of.
* The comments at `services/notification-service/ws.go:61` and `:96` say the context ends when the
  server shuts down; `Shutdown` leaves hijacked connections alone.
* The comments at `services/account-service/admin.go:24` and `:44` speak of one snapshot "(no phantom
  inserts between reads)". The transaction has the default isolation level, READ COMMITTED, under
  which each statement has its own: a transfer that commits before the last count of
  `handleAdminStats` shows two notifications and no transfer, so "notifications = 2 * transfers" is
  violated at `StatsNotifications` after `StatsTransfers` and `BookTransfer`. `StatsOrdered` is what
  remains true.
* `WsFeed` assumes that a SET of the presence key takes less than a heartbeat interval, which is a
  third of `PRESENCE_TTL_SECONDS` (60 s by default). The code does not enforce it: with a TTL of a
  few seconds, the timeouts and retries of go-redis add up to more than an interval, and a slow
  Redis alone may let the key of a beating connection expire (`services/notification-service/ws.go:81`).
* `paginate`'s comment says a size is capped at 100; a larger one becomes 20.
* Usernames are not unique (`services/auth-service/README.md:30` says duplicates are detected, but
  the column has no UNIQUE constraint), and a login by username may show an old balance until its
  key expires, which `fork-docs/decisions.md:346` accepts.

## 5. Proofs

All theorems hold for every value of the constants allowed by the `ASSUME`s of the modules
(`TransferAssumption`, `UserIdAssumption`, `ReadModelAssumption`, `AuthAssumption`, `RpcAssumption`, `WsAssumption`,
`AdminAssumption`).

`TransferTxProofs`. None of the safety properties is inductive alone: that a read is
still current depends on who holds the locks, which depends on the order they are taken
in, and so on. `IInv` conjoins them with what each statement has established for the
next (`LockOrder`, `TxProgress`, `IdsReserved`, `BookedAtCommit`). The proof has one lemma
per group of actions with the same effect: those that fail (`Rollback` then reply or back
off), those that only move the request on, locking, the writes inside the transaction, the
commit. The commit is the heart of it: locks are exclusive, so any other request past
`lockBothUsers` works on two other accounts. From `IInv` follow `TypeCorrect`, `LocksBelong`,
`NoStaleRead`, `NoOverdraft`, `AtMostOnce`, `TruthfulReplies`, `OrderedIds`, the
action property `EventsCarryCommittedBalances`, and `ImplementsLedger`: every commit is a `Book`
step, everything else stutters. And further:

* `NoDeadlock`. A request waits for the holder of the next row it wants, and one without a
  connection for the holders of all connections. In a set of requests that only wait for each
  other, take the one that wants the highest row (`HighestWaiter`; one exists, since those
  who wait for a connection wait for some who hold one): the request it waits for holds that
  row, so it waits for a higher one (`WaitsUpwards`).
* `TablesStayInStep`, `TotalIsConstant`. Only a commit writes the tables (`OnlyCommitsWrite`); it
  adds one term to the sum over the transfers of an account (`CommitStatement`) and one index to
  the transfers it took part in (`CommitTouching`), and debits what it credits
  (`TransferKeepsTotal`).
* `NoLivelock`. Every step takes one request forward, in its attempts, then in the stages
  of the attempt, then in the rows it has locked, and leaves all others where they were. This is
  the safety half of `EveryRequestAnswered`: a request's steps are finitely many whatever the others
  do, and the only thing fairness adds is that it takes them.
* `ImplementsBooking`. A reply other than 200 is made of an error (`ErrorReplies`), and an
  error of the transaction other than that of its COMMIT rolled everything back. The 400,
  404 and 503 are made before any COMMIT or of a transaction that is rolled back, so nothing is
  left at the server that could still book them; a transaction in doubt was answered 500, and
  that is the one answer of `Unsure`, after which `LateCommit` is a `Book` step.

`SumTheorems`. What the recursive function behind `SumOf` computes is proved by induction on sets:
a set of naturals with 0 and every successor holds all of them (`SetInduction`, from the
well-foundedness of `<`). From it follow that the partial sums exist and are unique, and
`SumOfNone`, `SumOfNext`, `SumOfSum` and `SumOfOne`, which the other proofs cite.

`BalanceReadModelProofs`. `GenuineInv` says that every copy of a balance on its way to the
hash is one the account really had (`GenuineInvariance`); `GenuineBalances` follows.
`AcknowledgedIsWritten` and `ReadModelTypes` rest on `DeliveryInv`: a replica about to
acknowledge has written both fields, and an event that may still be delivered has an attempt left.
`StreamIsAuditLog` rests on `HistoryInv`: a balance is the sum over the rows of the book, and an
event on its way to the stream shows that sum as of its own row. Rows are only added, so later
commits do not change it (`EarlierBalances`); `GenuineInv` alone would allow an event with the
balances before the transfer.

`AuthServiceProofs`. `AuthInv` adds to the cache, session and registration properties what a
request holds between two steps: a login past its lookup holds a genuine copy of a row its
identifier names (`LoginsGenuine`), a call past `RequireSession` knows its session
(`CallsGenuine`), a registration that inserts has a valid body and no row yet (`RegProgress`).
The table only grows (`Grows`): a copy that was genuine stays so, which gives one frame lemma
for each part of the invariant; each action then only shows what it writes. From `AuthInv`
follow `AuthTypes`, `CacheNeverConfusesUsers`, `SessionsBelongToTheirUser` and
`RegistrationsAreTruthful`.

`RpcServiceProofs`. `CallInv` relates, call by call, the stages of gateway, message, reply and
booking: nothing is booked before the handler has decided, a decided, stored or relayed status is
true of the booking, and an answer that rules a booking out comes only when no message of the call
is left to be served (which is why a timeout must not be such an answer). `StatusesAreTrue` follows
for any number of clients, tries, replicas and restarts. `BookedAtMostOnce` adds `InTurn`, that a
client's earlier calls were all answered by a status of `RetryOn`, and assumes that `RetryOn`
holds only answers that rule a booking out. `GatewayImplementsBooking` shows gateway, messages,
replicas and the COMMITs they leave behind together to be a `Booking` whose unsure answers are 500,
502 and 504. It needs the part of `CallInv` that a 400, 401, 404 or 503 comes from a handler that is
over without a COMMIT in doubt, or for a message nobody will serve; a 500 promises as little
as a timeout, since its COMMIT may still be executed. `TransferTx` and `RpcService` thus promise the
same contract, one towards the dispatcher and one towards the HTTP client, which is what lets
`RpcService` treat the transaction as the one step `Book`, `Refuse` or `TxError`.

`WsFeedProofs`. `BeatingIsOnline`: the key outlives the heartbeats that may still fail, by one
interval more while the ticker has not fired (`Lives`). `SocketsGetMessagesInOrder`: the five
places of a message, put end to end (`Line`), form one sequence in order of publication whose
gaps are all in `lost`, and every step of a goroutine moves a message along it or cuts
off its end (`FlowInv`).

`AdminQueriesProofs`. Tables only grow, so a row's place counted from the newest only grows:
a row not yet shown is on the page about to be read or later (`Ahead`), after the SELECT it is
beyond the page unless it was on it (`Beyond`), and the COUNT announces a page for it (`Told`, for
transfers only if the count is not older than the page). From `AdminInv` follow
`WalksAreComplete`, `TransferWalksAreComplete`, `NamesAreResolved`, `StatsAreOrdered` and
`AdminTypes`. Cardinalities are handled with the lemmas of `FiniteSetTheorems`.

Only model-checked: the liveness properties (`EveryRequestAnswered`, `EventsSettle`,
`RequestsAnswered`, `CallsAnswered`, `RunnersStop`, `GoroutinesEnd`, `PresenceExpires`), which need
reasoning about ENABLED that is out of the prover's reach. Every invariant and action property of a
passing run, and every refinement, is proved. The inductive invariants (`IInv`, `GenuineInv`, `AuthInv`
and those of the proof modules), and `ReplyTruthful` and `AnswersTruthful`, which `BookingSpec` implies,
are proved and not model-checked as well.

## 6. Not modelled, and why

Logging, metrics, tracing, health probes, deployment files and the frontend (but for the paging
of the admin lists) keep no state a property here is about. Single-statement handlers
(`handleMe`, `handleLookup`, `handleAdminUserDetail`, the notification list and its
acknowledgement) have no interleaving of their own. How `parsePayload` builds a payload, the
reply of a service to a body that is not JSON are left out: the gateway and the services only
exchange JSON they encoded themselves. Stream retention (30 days), the
five-minute duplicate window and `MaxAckPending` are beyond the bounds of any run. See
`components` in `PROJECT.json`.
