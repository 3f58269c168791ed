# pgferry in TLA+

A model of [pgferry](../src), a PostgreSQL proxy and connection pooler: its
connection pool, the message pump of a session, the interceptor's hooks and
telemetry, the session state that travels between pooled connections, routing
with failover, scatter-gather, the server around the sessions, and the
configuration. The modules are translated from the Rust code in `src/crates`. TLC
checks them on small instances; TLAPS proves the safety of the pool, the session
state, routing, scatter-gather and the server for instances of every size.

## The system

| Part | Code | Module |
| --- | --- | --- |
| Upstream pool: permits, idle stack, checkout, checkin, sweeper | `pool.rs` | `Pool`, `PoolAbs` |
| Session pump: client, proxy and server message by message; detach, sanitize | `session.rs` (`pump`), `pool.rs` (`sanitize`) | `Pump` |
| Session state: prepared statements, parameters, baseline | `session.rs` (`ensure_attached`), `pool.rs` | `SessionState` |
| Routing, passive health, failover | `routing.rs`, `session.rs` | `Routing` |
| Scatter-gather | `scatter.rs`, `session.rs` | `Scatter` |
| Interceptor hooks, row dropping, count correction, cycle telemetry | `session.rs` (`SessionHooks`, `CycleTracking`, `pump`), `intercept.rs` | `Cycles` |
| Accept loop, client slots, drain, cancel routing, session and pool registries, admin session | `proxy.rs`, `cancel.rs`, `runtime.rs`, `admin.rs`, `pool.rs` (`PoolManager`) | `Server` |
| SQL read/write classification, editing of rows | `routing.rs`, `intercept.rs` (`DataRowMut`) | `Values` |
| Builder, command line, configuration file | `proxy.rs` (`ProxyBuilder`), `config.rs`, `pgferry-bin` | `Config` |
| Built-in helpers, metrics text, admin answers, TLS, connect | `intercept/builtin.rs`, `metrics.rs`, `admin.rs`, `upstream.rs` | not modelled, see below |

A client connects to the accept loop and gets a session task. In session mode
the session leases a connection at once and keeps it; in transaction mode it
leases one for the first message of a cycle and gives it back at an idle
ReadyForQuery. The lease comes from the pool of the endpoint the router picks,
after the session's state has been replayed on it. Most of what can go wrong
lies between these parts: a connection handed on with something left on it, a
response that belongs to another cycle, a permit or a waiter that is lost, a
flag that describes an earlier lease.

## Modules

**`Pool`** has one process per task that uses the pool. The state is the free
permits, the FIFO queue of waiters, the idle stack, what each task holds and in
which phase of `checkout` or `checkin` it is, and the two gauges. Each stretch of
code between two awaits is an action: `Checkout`, `Acquired`, `PopFresh`,
`PopStale`, `PopExpired`, `PopEmpty`, `ProbeOk`, `ProbeFailed`, `ConnectOk`,
`ConnectFailed`, `Checkin`, `Park`, `Discard`, `Destroy`, `Release`, `Sweep`. A
future may be dropped at each of its awaits (a scatter leg cut short, a session
aborted at shutdown); the `Drop...` actions follow the drop order of the fields.
Whether a parked connection is expired, stale or fresh is a choice, since no
property depends on how long it is. **`PoolAbs`** is what the pool promises:
a set of parked connections, an owner for each used one, and a bound on both
together. `Pool` refines it with the mapping `parked <- IdleConns`,
`owner <- AbsOwner`.

**`Pump`** is one session with its client, its connection and the server behind
it. The body of a `select!` arm runs to its end before another one is polled, so
each path through an arm is one action: `Swallow`, `AnswerDetached`, `Deny`,
`Reply`, `Scatter`, `HookClose`, `AnswerReparse`, `Forward`, `AttachFails` and
`SendFails` for the frontend, `Backend` and `UpstreamEnds` for the backend,
`ClientGone` and `ShutdownSeen` for the others. `Checkin`, `SettleTimesOut`,
`StepReads` and `StepFails` are the steps of `sanitize`, which reads the connection
itself. `conn.wbuf` is the write buffer that `feed` fills and `send` flushes. A
message is a kind and the number of the client message it is or answers. The
server is external: it answers a message with any outcome PostgreSQL allows,
skips to Sync after an error and ignores Sync while a COPY waits for data.

**`SessionState`** looks at whole requests (Parse, Close, SET, BEGIN, COMMIT,
ROLLBACK) of several sessions over shared connections. It has the statement
registry, the GUC overrides, the cached `server_parameters`, the dirty flag and
the baseline snapshot, and beside them, for each session, the backend it would
have for itself (`own`), to which the same requests are applied. The properties
compare the two.

**`Routing`** has the shared health of the endpoints, the parked connections of
their pools (working or broken), and for each session the retry loop of
`ensure_attached` and `baseline_params_routed`: `Route`, `Checkout`, `ProbeFails`,
`AttemptFails`, `Attached`, `GiveUp`. Endpoints go down and come up (`Flip`) and
`revive_after` elapses (`Cool`) between any two of these. `Arrive` is a session that
connects: it attaches at once in session mode and asks for the baseline parameters
in transaction mode. `downed`, `steady` and `live` are history variables.

**`Scatter`** has several sessions that run scatters on the pools of the shards.
A pool is its permits with a FIFO queue and its idle stack. The legs of a
session are polled by the session's task; `LegAsks` is separate per leg because
sessions on other threads may queue between the checkouts of two legs.

**`Cycles`** is the same loop as `Pump`, seen from the interceptor. It has what
`SessionHooks` and `CycleTracking` keep between messages (schema, text, counts,
error) and, in `now`, `ended` and `report`, what the client really got in a cycle
and what `on_cycle_end` was told. The actions are the paths of the two arms that
touch a hook: `Deny`, `Reply`, `Scatter`, `FrontendReply`, `Describes`, `KeepRow`,
`DropRow`, `Completes`, `Fails`, `CycleDone`, `BackendReply`, `UpstreamEnds` and the
local answers. Transactions and shutdown are left to `Pump`.

**`Server`** has one client per connection made. The accept loop (`TakeSlot`,
`Accept`, `AcceptFails`, `StopAccepting`, `Drained`, `DrainTimesOut`) hands slots to
session tasks, which register, look their pool up or create it, attach,
authenticate, serve and end; a task may be aborted at any await and a hook may
panic. The handle can be stopped gracefully, at once or by being dropped. Of the
pump only its lease, its query in flight and its arms for cancel, signal and end
of the client are kept.

**`Values`** checks two computations against references. A text of SQL is a
sequence of the symbols the code tells apart (comment marks, ends of lines, white
space, parenthesis, any other character that ends a word, a word of a read, any
other word), and `DefaultIsRead` is compared with what PostgreSQL's lexer takes for
the first word. A `DataRow` is a sequence of bytes with its lengths, since what
`RowEditsAreLocal` is about is that a length or an offset does not shift; `Slots`
parses it, `SetText` and `SetNull` edit it, `Apply` rebuilds it, and the reference is
the encoding of the edited values.

**`Config`** makes any sequence of calls on a `ProxyBuilder`, remembers them in
`calls`, and compares what `build` returns with what the calls asked for. `Main` is
the part of the binary that fills the builder from the command line, the file and
the environment.

Modules with several configurations hold the configuration in a variable (`env`,
`job`, `use`) that `Init` takes from a constant set and that, in `env`, also counts
down the bounded events. One run covers all of them.

`PoolProofs`, `PoolRefinement`, `StateProofs`, `StateParams`, `RoutingProofs`,
`ScatterProofs`, `ScatterLegs` and `ServerProofs` hold the theorems, see Proofs.

`MC...` modules give the constants of a run their values. Operators with a comment
`Fault:` or `Mutant:` are deliberate mistakes of the operation defined right after
them; replacing that operation by the fault makes TLC find a violation.

## Runs

Passing runs. Deadlock is checked except where the modelled system may stop: a
session ends (`Pump`, `Cycles`), the server is stopped (`Server`), a computation is
finished (`Values`, `Config`).

| Run | Instance | Shows |
| --- | --- | --- |
| `pool` | 3 tasks, 2 permits, 4 connections, 2 dropped futures, fairness | `PermitsConserved`: permits are conserved on every path. `SizeBound`: idle and used connections never exceed `max_size`. `Exclusive`: no connection has two users. `NoIdlePermit`: nobody waits while a permit is free. `ImplementsPoolAbs`. `QueuedIsServed`: whoever queues is served. |
| `pump` | both modes, fairness; any client message with deny and close hooks, 3 messages and what ends their cycle; and simple queries and COPY with deny, reply and scatter hooks and 2 lost connections | `ParkedQuiet`: a parked connection has nothing buffered, in flight or open. `RfqNeverAhead`, `AsksAreAnswered`: one ReadyForQuery per Query and Sync, no more and no fewer. `StatusAgrees`: the client's transaction status is the server's. `InOrder`: answers come in order. `ShutdownEnds`: a shut down session ends when its cycle does. |
| `cycles` | both modes, 2 texts, 7 messages, 2 rows, 2 lost connections, 9 kinds of interceptor, fairness | `ReportIsTrue`: each cycle is reported with its own text, rows and error. `TagsCountRows`: a corrected count is the number of rows the client got. `CyclesAreReported`: a cycle that began is reported. |
| `state` | 2 sessions, 2 connections, 1 statement name, 4 setups | `StatementsMatch`, `ParamsMatch`: a session finds what it prepared and SET on every connection, and nothing else. `ParkedNeutral`: nothing of it stays on a parked one. `ReplaysSucceed`. |
| `routing` | 2 sessions, 2 endpoints, threshold 2, 2 changes of an endpoint, 1 cooldown, both modes and both routers | `BlameIsDeserved`: an endpoint that was never down has no failure counted against it, but for the default one of readers in session mode. `GivesUpOnlyWhenNoneLive`: two attempts per endpoint are enough. |
| `scatter` | 2 sessions, 2 shards, up to 3 scatters, 1 failure, 1 refusal, 5 setups, fairness | `WholeOrNothing`: rows only when every leg answered. `LegsReachTheirShard`: the leg on the session's lease runs at its shard after losses, relinks and failed scatters, but for the first shard's in session mode. `QueuesAreExact`: exactly the wanted legs and attaching sessions wait. `CleanLegsReturned`: what was collected is checked in, but for the early returns of `execute_scatter`. `Answered`: every scatter is answered. |
| `server` | 3 connections, 2 slots, pool of 1, 1 failed accept or panic, every way to stop | `SlotsConserved`: no slot is lost or doubled. `RegistryIsExact`, `RouterIsLive`: both registries follow the sessions. `OnePoolPerKey`: first sessions that race share one pool. `SignalCutsNoQuery`, `ReturnsDrained`: no query is cut by the signal, and the loop returns with only aborted tasks left. |
| `server_stops` | 2 connections, fairness | `StopEnds`: a stopped proxy ends, whatever clients do. `SlotComesBack`: a client that leaves frees its slot, and `CancelIsSeen`: a cancel is looked at, unless the session waits for a pooled connection forever. |
| `values` | texts of 6 symbols; rows of 3 columns, 3 values and null, 2 edits, rows too short for their columns | `ReadsAreReads`: no text is taken for a read unless its first word is one, and every read without comments whose first word ends in white space, a parenthesis or the text is found. `RowEditsAreLocal`: an edited row is the encoding of the edited values. |
| `config` | 5 builder calls of 9 kinds; every command line with every file | `BuiltAsAsked`: endpoints, router, limit and mode are the ones asked for, in order. `PasswordIsUsed`: a password given once there is a route is used. |

Each module has a type invariant, and some have further invariants that follow
from, or are simpler than, those above; they hold on the same instances and are
checked by `MCPumpMore.cfg`, `MCStateMore.cfg` and `MCScatterMore.cfg`
(`NoLostAnswer`, `CacheIsTrue`, `BaselineNeutral`, `NoSelfWait`, `ParkedClean`) or by
adding them to a run's configuration (`GaugesCover`, `WritesArePinned`).

What the bounds are for: three tasks are needed for a waiter behind a waiter; two
dropped futures for one in `checkout` and one in `checkin`; three messages and the
Sync or CopyDone that ends them for a cycle after a recovered cycle; two losses for a
relink that fails again; two endpoint changes for a restart; two scatters for a
session that scatters after a failed scatter while another one does, too; seven
messages for two extended cycles with a Describe in each; a third connection for a
client that waits for a slot while two sessions race; six symbols for a comment, a
word and what stands between them; five calls for a route that is built, given a
password and replaced. What lies outside these instances by choice, because the
property is violated there, is listed after the next two tables.

Violated runs. Each states what a comment or document of the repository says
and shows an execution of the code in which it is not so.

| Run | Property | Execution |
| --- | --- | --- |
| `pump_pipelined_detach` | `ParkedQuiet` | Two pipelined queries in transaction mode: the session detaches at the first ReadyForQuery while the second query runs on the connection. |
| `config_password` | `CliPasswordIsUsed` | The binary is started with `--password` and no file: the option is dropped (`main.rs:22`). |

Further disagreements were met. Each has a property that TLC refutes within
seconds, without being among the runs of `PROJECT.json`: by the configuration named,
or by that of the module's run with `Setups` replaced by the set named (one or two
clients or sessions are enough, and `MaxMsgs = 5` for `Pump`).

| Property | Configuration | Execution | Said otherwise in |
| --- | --- | --- | --- |
| `NoLostAnswer` | `MCPumpExtLost.cfg` | The connection is lost after the Sync of an extended cycle was taken: the recovery waits for another Sync, the client for its ReadyForQuery. | `session.rs:821` |
| `ParkedQuiet` | `MCPumpLateCancel.cfg` | A cancelled query that ends after `CANCEL_DRAIN_TIMEOUT` leaves the tail of DISCARD ALL on the parked connection. | `pool.rs:592` |
| `RfqNeverAhead` | `MCPump`, `ExtReply` | `Action::Reply` to a Parse sends two ReadyForQuery. | `intercept.rs:78` |
| `InOrder` | `MCPump`, `MidDeny` or `Reparse` | A local answer in the middle of an extended cycle overtakes what was fed before it. | `intercept.rs:22`, `session.rs:1393` |
| `StatusAlwaysAgrees` | `MCPump`, `IdleLoss` | A transaction is lost between two statements and the client is told nothing. | `PLAN.md:152` |
| `StatusAlwaysAgrees` | `MCPump`, `ScatterTxn` | A scatter refused inside a transaction is answered with an idle status. | `intercept.rs:88` |
| `ShutdownAlwaysEnds` | `MCPump`, `DrainLost` | A draining session whose query ends with the synthesized error does not end. | `session.rs:936` |
| `AllErrorsAreReported` | `MCCyclesLost.cfg`; `MCCycles`, `Clashes` | A cycle that ends with the error of a lost connection or of a refused second Parse is reported without an error. | `intercept.rs`, `CycleReport::error` |
| `SchemaFits` | `MCCyclesSchema.cfg` | Rows of a statement executed without a Describe are judged under the schema described last. | `intercept.rs`, `RowSchema` |
| `TagsCountRows` | `MCCycles`, `Suspends` or `ReusesFailing` | Rows dropped before a suspended portal or an error correct a later count. | `intercept.rs:519` |
| `ReportIsTrue` | `MCCycles`, `ReusesLosing` | A loss in a cycle without a Parse is reported as the end of another one. | `intercept.rs`, `on_cycle_end` |
| `ReportIsAlwaysTrue` | `MCCycles`, `OwnReadies` | A raw hook that sends ReadyForQuery itself leaves the cycle without its report. | `intercept.rs`, `on_cycle_end` |
| `ParamsMatch` | `MCStateLeak.cfg` | A session without `application_name` runs under that of the session before it. | `pool.rs:53` |
| `StatementsMatch` | `MCSessionState`, `Plain`, `ForwardsClose = TRUE` | A Close that is forwarded is not taken out of the registry. | `PLAN.md:162` |
| `BlameIsAlwaysDeserved` | `MCRouting`, `Readers` | In session mode the loss of a lease is blamed on the route's first endpoint; a reader that `RwSplit` started on a replica makes the primary suspect. | `intercept.rs:160` |
| `BlameIsDeserved` | `MCRouting`, `Quiet`, one session, `Refused = {"s1"}` | A statement that cannot be replayed marks healthy endpoints dead. | `intercept.rs:151` |
| `AllHaveFailed` | `MCRoutingRestart.cfg`; `MCRouting`, `Held` | A session is told that all endpoints failed although one was up throughout. | `session.rs:772` |
| `SuccessMeansAttached` | `MCRouting`, `Restart` | A snapshot of parameters counts as a success of an endpoint that is down. | `intercept.rs:553` |
| `NoSelfWait` | `MCScatterSelf.cfg`; `MCScatter`, `Small`, `Requests <- TwiceA` | After a failed scatter the next one waits for the session's own lease; so does the second of two legs on one shard. | `scatter.rs:200` |
| `LegsAlwaysReachTheirShard` | `MCScatterHome.cfg` | A session routed to the second shard when it started runs the first shard's leg there. | `scatter.rs:49` |
| `CleanLegsAlwaysReturned` | `MCScatterBreaks.cfg` | All pooled legs have answered, then the session's own connection breaks or the sum fails: `execute_scatter` returns before its checkin loop and the connections of the clean legs are closed. | `PLAN.md:659` |
| `Answered` | `MCScatterMutual.cfg` | Two scatters over two pools of one connection wait for each other. | `PLAN.md:645` |
| `RowsInLegOrder` | `MCScatter`, `Small`, `Requests <- Broadcast` | Rows come in completion order. | `scatter.rs:40` |
| `ShutdownAbortsSessions` | `MCServerNow.cfg` | `shutdown()` aborts the task that waits for the accept loop; the sessions drain instead of ending. | `proxy.rs:378` |
| `ShutdownStopsMetrics` | `MCServer`, `Now` | For the same reason the metrics endpoint goes on. | `metrics.rs` |
| `StartupTimesOut`, `WaiterIsCancellable` | `MCServer`, `UsersAndCancels` | No timeout bounds a client's first message; a session waiting for a connection sees neither its client leave nor a cancel. | `PLAN.md` |
| `CancelArrives` | `MCServer`, `UsersAndCancels`, `MaxConn = 1` | A cancel request needs a free client slot. | `cancel.rs` |
| `RouterForgets`, `RegistryHasLive` | `MCServer`, `Panics`; `Collisions` | A panicking hook leaves its router entry; a repeated pid unregisters a live session. | `cancel.rs`, `runtime.rs` |
| `AttachedIsExact`, `JoinSetIsBounded` | `MCServer`, `UsersAndCancels` | A failed scatter shows a leased session as detached; ended tasks stay in the JoinSet until the drain (`MaxConn = 1`). | `runtime.rs`, `proxy.rs` |
| `ActiveIsExact`, `WaitingIsExact` | `MCPool` | A lease or a waiting checkout that is dropped stays in its gauge. | `pool.rs:160`, `pool.rs:162` |
| `WrappedReadsAreReads` | `MCValuesComments.cfg` | A read behind a line comment that ends with a carriage return, or behind two comments with white space between them, is sent to the primary. | `routing.rs:183` |
| `LeadingReadsAreReads` | `MCValuesWords.cfg` | A read whose first word is followed by neither white space, a parenthesis nor the end of the text (`SELECT*FROM`, `SELECT;`) is sent to the primary. | `routing.rs:183` |
| `ReadsAreAlwaysReads` | `MCValues`, `Jobs = {"sql"}` | Nested block comments and line comments ended by a carriage return hide the word PostgreSQL sees first. | no document |
| `LastPasswordIsUsed` | `MCConfigEarly.cfg` | A password given before the route, or before `upstream()` or `route()` replaces it, is lost. | `proxy.rs:259` |
| `BuiltAsAsked` | `MCConfig`, `Ids = {"a", "default"}` | An endpoint named `default` is dropped when a second one is added. | `proxy.rs:233` |

The passing runs keep clear of these, and say nothing about what they leave out:

- `pump`: the client waits for its answers and has one Parse per cycle, so that nothing
  is answered locally in the middle of one; only simple-protocol clients meet losses; a
  cancelled query ends within `CANCEL_DRAIN_TIMEOUT` (`prompt`). `StatusAgrees` excepts
  a transaction lost while nothing is awaited and a failed scatter, `ShutdownEnds` a
  session that lost a connection.
- `cycles`: clients describe what they execute where rows are dropped, suspend no portal
  and do not fail after dropped rows in a cycle without a Parse. `ReportIsTrue` excepts
  the errors of lost connections and hooks that send their own ReadyForQuery. That rows
  are judged under the right schema is checked of no client.
- `state`: sessions close statements only while they are detached. `StatementsMatch`
  excepts statements the server refused, `ParkedNeutral` and `BaselineNeutral` an
  `application_name`.
- `routing`: servers take the state of every session. `BlameIsDeserved` excepts the
  first endpoint where readers start on replicas in session mode.
- `scatter`: the pools are large enough for the scatters of all sessions, or a leg runs
  on the session's lease. `LegsReachTheirShard` excepts the first shard's leg in session
  mode, `CleanLegsReturned` the early returns after the pooled legs.
- `server`: `RegistryIsExact` excepts a pid drawn twice and the flag after a failed
  scatter, `RouterIsLive` the entries of aborted and panicked tasks, and `StopEnds` the
  sweeper and the metrics endpoint after `shutdown()`.
- `values`: `ReadsAreReads` excepts nested block comments, comments ended by a carriage
  return and, for a read that must be found, all comments.
- `config`: no endpoint is named `default`, and `PasswordIsUsed` is about passwords given
  once there is a route.

The notes of the hazards in `PROJECT.json` repeat this at the line where it matters.

## Fairness

`Pool`: a task that can run is polled; probe and sanitize are bounded by timeouts
and a connect is assumed to end, since the code sets no timeout on it.
`ClientsReturn` is an assumption about clients: who holds a lease gives it back.
`Pump`: `select!` picks among its ready arms at random, so no arm that stays ready
is passed over forever; a server answers what it was sent; a client ends the cycle
or COPY it began; a step of sanitize ends at the latest with `SANITIZE_TIMEOUT`.
`Scatter`: a session's task that can go on does, and a shard answers.
`Cycles`: the server answers, the pump reads it, and a client ends the cycle it began.
`Server`: the runtime polls tasks that can go on, the drain window closes, and an arm
of `select!` that is ready again and again is picked at last. A connect and the replay
of session state are assumed to end: the code bounds neither. Nothing is assumed of
clients and queries, which may do nothing forever, and so nothing bounds the wait for
a pooled connection: permits that come free are handed out in turn, for the semaphore
is fair, but they need not come free. `SlotComesBack` and `CancelIsSeen` therefore except a session that waits for one
forever.

## Proofs

The theorems hold for every value of the constants that the named `ASSUME`s of the
modules allow: any set of sessions, connections and shards, any finite set of tasks
and of clients, any positive number of slots and endpoints, any number of failures.
Where a theorem needs more, it says so with its own `ASSUME`. Each one follows from an
inductive invariant, proved with one step per action.

`PoolProofs`, `PoolRefinement`. `SizeBound` is not inductive alone: that `PopEmpty` may
open a connection needs `PermitsConserved` (free permits and permit holders add up),
and a release keeps the permits conserved only if the waiter it wakes is queued, and
queued once. `IInv` is therefore `TypeOK`, a queue without repetitions, `NoIdlePermit`
(which also says that the queue holds exactly the queued tasks), `PermitsConserved`,
`SizeBound` and `Exclusive`. From `PoolInductive` follow `PoolTypes`,
`PermitsAreConserved`, `PoolIsBounded`, `LeasesAreExclusive` and `NoPermitIdles`.
`PoolImplementsPoolAbs` shows that initial states map to initial states and every action
to an action of `PoolAbs` or a stuttering step.

`ServerProofs`. `SlotsConserved` survives an accept only if the backlog holds queued
clients, once each; the registry stays exact only if a pid says whether its session
registered; the bound on leases needs every session that may take one to have the
registered pool; the drain needs every running session to be in the JoinSet. `IInv`
is the conjunction of these with the types and what holds of a session by itself.
Theorems: `ServerInductive`, `ServerTypes`, `SlotsAreConserved`, `RegistryExact`,
`RouterLive`, `PoolPerKey`, `QueriesAreNotCut`, `LoopDrains`.

`RoutingProofs`. `RoutingTypes` and `WritesPinned` hold as they are. `BlameDeserved`
(`BlameIsDeserved` of servers that take every session's state, `Refused = {}`) needs
that whatever is down, and the endpoint of whatever connection is broken, is in
`downed` (`BInv`), and that under `FailoverRouter` nobody gets past the first endpoint
before that one was down (`StartsOK`). `LoopIsLongEnough` shows
`GivesUpOnlyWhenNoneLive` for every number of endpoints and sessions and a failure
threshold of at most 2, which is the default (`routing.rs:23`): while an endpoint that
the session may be sent to stays live, each of its attempts left a mark in the shared
health (`AttemptsOK`), where a dead endpoint has two marks and one considered alive at
most one, so that there are fewer marks than attempts. With a
threshold of 3 and three endpoints TLC finds the property violated. Sums over the
endpoints are handled without induction, by the least counterexample that a
well-founded order has (`WFMin`).

`ScatterProofs`, `ScatterLegs`. `IInv` is an account of the legs and the queues: which
leg may be in which state at which point of `execute_scatter`, and that a pool's queue
holds exactly the waiting legs and the attaching sessions, once each. It gives
`ScatterTypes`, `AllRowsOrNone` (`WholeOrNothing`) and `WaitersAreExact`
(`QueuesAreExact`). `OwnLegAtItsShard` (`LegsReachTheirShard`) adds `ShardInv`: an idle
connection is at its pool's shard, and a lease at the session's current endpoint
unless that is the first one in session mode. `OutcomesAreKept` (`CleanLegsReturned`)
adds `HeldInv`: a leg that runs or has answered has a connection to its shard.

`StateProofs`, `StateParams`. `StateTypes` bounds the attaches that fail and gives each
connection one session. Statements: `SessionsAreRight` shows together that a parked or
clean connection has none (`NoneLeft`) and that registry, connection and the session's
own backend agree but for refused statements (`AllRight`); with it come
`StatementsFollow` (`StatementsMatch`) and `ReplaysWork` (`ReplaysSucceed`). Both assume
`~ForwardsClose`, without which `StatementsMatch` is violated. Parameters: `ParametersAreKnown` shows
that the cache is the server's and that a connection nobody leases, or whose lease is
not dirty, has the parameters of a new one (`ParsInv`); with it come `CacheIsExact`
(`CacheIsTrue`), `ParkedIsClean` (`ParkedNeutral`) and `BaselineIsClean`
(`BaselineNeutral`), all under `ClientTracks`. `ParametersFollow` (`ParamsMatch`) adds that
a session's own backend has the session's overrides over its startup parameters
(`OwnInv`). It assumes besides that all sessions of a pool send an `application_name`
or none does (otherwise see `MCStateLeak.cfg`), and that setups with losses have no
explicit transactions: the overrides keep the SETs of a transaction that died with its
connection, and with both TLC finds `ParamsMatch` violated.

Only model-checked:

- all liveness: fairness and `ENABLED` are beyond the prover;
- `Pump` and `Cycles`, whose invariants would have to describe every message in flight
  in three queues, and `Config`, which is finite but for the number of calls;
- `Values`: its definitions are recursive, and what a recursive definition computes for
  every input needs an induction the provers cannot do;
- `GaugesCover`, `ActiveIsExact` and the like in `Pool`, and every property of the table
  of disagreements.

## Not modelled

- `DenyList` and `Rewrite` are regular expressions, and `Audit` adds reports up in
  independent atomics (`intercept/builtin.rs`); the verdicts of an interceptor are
  choices in `Pump` and `Cycles`.
- The text of `/metrics` and of the admin answers: formatting of snapshots.
- TLS, authentication and `upstream.rs`: one call of the client library that succeeds
  or fails. Reading and parsing of the configuration file.
- The wall clock: a timeout may fire whenever the code waits. `select_round_robin`
  picks by the clock.
- The sizes of socket buffers. The queues of `Pump` are unbounded, so back-pressure
  between a client that does not read and a server that does not read
  (`session.rs:1396`) is not covered.
- The arithmetic of `Sum`, `ShardSet::shard_for` and legs that leave a transaction
  open (`scatter.rs`).
- SQL-level PREPARE, SETs of parameters the server does not report, temporary tables
  and LISTEN, documented as unsupported in transaction mode. `ClientTracks = TRUE` in
  `SessionState` is an assumption about the client library: `simple_query` applies the
  ParameterStatus messages it reads.
