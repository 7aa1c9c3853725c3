# TLA+ models of the T-Bank adapter for NautilusTrader

The crate (`src/src`) connects NautilusTrader to the T-Bank Invest API over
gRPC: an execution client (orders, cancels, reports, account and order
streams), a market data client (subscriptions, bars, books, historical
candles), instrument metadata and the factories and configuration around them.
This directory models the parts whose correctness depends on the order of
concurrent events, model-checks them with TLC on small instances, and proves
the most important properties for every instance with TLAPS.

Paths below are relative to the crate (`src/src/...` in the repository);
a bare `client.rs` is `execution/client.rs` unless the text says otherwise.

## Inventory

| Component | State | Operations | What makes it correct | Module |
|---|---|---|---|---|
| Execution lifecycle (`execution/client.rs`, `client/nautilus.rs`) | admission gates, lifecycle token, task groups, report gate, deferred reset, the shared maps | `connect`, `connect_for_queries`, `begin_disconnect`, `disconnect_async`, `reset`, `dispose`, `spawn_*_task` | no work survives into another session or keeps maps a reset replaced; no unresolved mutation is forgotten | `ExecLifecycle` |
| Submit pipeline (`client/submit.rs`, `client.rs`) | `pending_submits`, routes, deadline | `submit_order`, `submit_order_list`, recovery ladder, panic handler, stream reports | an order the broker may have is never dropped or declared dead; each leg is answered | `SubmitRecovery` |
| Cancellation (`client.rs`, `client/nautilus.rs`) | waiters, pending cancels, identity claims, `unresolved_cancellations` | `cancel_order`, `cancel_all_orders`, waiter deadline, `notify_pending_cancel`, ambiguous ladder | a cancel is sent or reported unsent, never both or neither; an ambiguous outcome is kept | `PendingCancel` |
| Broker order index (`broker_order_index.rs`) | identities, routes, aliases, pending cancels | `record_*`, `remove_unresolved_client_order_route` | one identity per order; each pending cancel has an owner | `PendingCancel`, `SubmitRecovery`, `FillLedger`, `UnresolvedFills` |
| Fill projection (`projections.rs`, `client.rs`) | per order: emitted quantity, trades, synthetic fills, commissions | cumulative states, trades, operations, snapshots, alias merges | no lot twice, none lost, commissions add up | `FillRow`, `FillLedger`, `OrderFills` |
| Unresolved fills (`client/reconciliation.rs`) | buffer by order, tasks by order | buffer, schedule, publish, put back | bounded; nothing dropped; somebody looks for the order | `UnresolvedFills` |
| Order-state stream and reconnect (`client.rs`, `client/streams.rs`, `client/reconciliation.rs`) | `recovery_from`, last observation, status projection | stream loop, reconciliation, degraded stream | no gap between stream and reconciliation; no step back | `StreamReconnect` |
| Position streams and reports (`projections.rs`, `client/streams.rs`, `client/nautilus.rs`) | position projection with two watermarks | portfolio and positions streams, position reports, mass status | at rest the host knows every position as it is | `PositionProjection` |
| Futures margin (`client.rs`) | cache, flights, generation | `load_instrument_metadata`, `refresh_futures_margin` | no result of an older connection; nobody waits for ever | `FuturesMargin` |
| Market data, bars (`market_data/client.rs`, `continuity.rs`, `supervisor.rs`) | snapshot generations, workers, cursors, readiness | subscribe, connect, stream workers, retries, polls, recovery | each bar once, in order, in the end all | `BarStreams` |
| Historical limiter (`market_data/supervisor.rs`) | flights by range, circuit, permits | `recover_range`, `begin_recovery`, `finish_recovery`, guard drop | one owner per range; success means a fresh publication | `HistoricalRecovery` |
| Quotes, trades, books, catalogue refresh, historical ranges, instruments, translation, orders, gRPC, config, factories, tool | caches, or none | unary requests, pure functions, set-up | see *Not modelled* | |

### How they interact

The host calls the client synchronously; a command is admitted by the task
owner, which spawns a tokio task on a clone of the runtime. Clones share the
maps through `Arc<Mutex<_>>`. A submit registers a route in the order index; a
cancel that finds only a route leaves a waiter there; the submit's response or
the order stream maps the identity and thereby notifies the waiter. Stream
reports settle pending submits and unresolved cancels. The trades stream finds
its order in the index or buffers the fill; whoever learns the order publishes
the buffer into the fill projection, which cumulative order states, queries and
the reconnect snapshot feed as well. Publication runs under the gate of the
lifecycle token. `disconnect` closes the admission gates and waits for the
groups to drain; `reset` replaces the maps once nothing uses them. The data
client recovers missed bars through the historical limiter before it commits
the continuity cursor.

### Hard behaviours

* any `async` function can be dropped at any await; a lifecycle call then stops
  half way and another one follows;
* tasks panic; their failure is seen only by a drain of the group;
* a unary request may be applied although its answer was lost, and may arrive
  late; timeouts race answers; retries repeat what may have been done;
* state is read under a lock, an await follows, and the state is used;
* messages of several streams and of reconciliations arrive in any order, and a
  fill is told in three forms (cumulative, itemised, as an operation);
* a stream breaks at any message, and its gap must be read from queries that
  are not one snapshot.

`PROJECT.json` lists the hazards one by one, each at its line, with the
properties that cover it.

## Modules

`PROJECT.json` maps each definition to its source lines. An operator whose
name contains `_` and whose comment starts with "mutation:" is a wrong version
of the definition after it; no run uses it. It documents which mistake the
property guards against. `MC*` modules give TLC symmetry or function-valued
constants; modules without one are instantiated by their `.cfg` directly.
`*Proofs` modules hold the theorems about the modules they extend;
`AccountProofs` (`FuturesMargin`, `PositionProjection`) and `MarketDataProofs`
(`HistoricalRecovery`, `BarStreams`) hold those of two components that share
nothing, whose names are told apart by the prefixes `Positions` and `Bars`.

### ExecLifecycle

`epoch` counts the resets that replaced the maps, and `home[t]` is the epoch
whose maps task `t` holds; `gen[t]` is the lifecycle token it was spawned
under. `unresolved` holds the mutations whose outcome is not known, with their
epoch. A task group is closed or open, and holds the live tasks that were
spawned into it; a drain finishes when the group is empty and then reports the
panics it holds once (tokio's `TaskGroup::finish_shutdown`, which is external).
`connect`, `disconnect_async`, `reset` and `dispose` are the host's and follow
one another; each may be dropped at an await (`AbandonConnect`, `DropSetup`,
`DropDisconnect`). Everything else interleaves. `opened` is history: the mode of
the generation opened last.

### SubmitRecovery

The task walks over its legs in order; `expired` becomes true at any time and
is what the budgets compare against. `broker[l] = "sent"` is a request that may
still arrive (or never does); `BrokerMoves` makes it live or refused and moves
an order on. Reports can carry any state the order has been in, so they come
late and out of order. `told[l]` is the last event the host received.
`VenueRejected` (`classify_command_failure`) is taken to mean that the broker
did refuse: the code's classification of status codes rests on the API's
contract. `submit_order` is a list of one leg. A reconciliation step finds the
right order, nothing, or is cut off after it has mapped the order
(`LookupEnds`). A route that is absent because the list is contingent (which is
denied as a whole) is not modelled, nor are events that are suppressed because
the client was disconnected meanwhile.

### PendingCancel

One order, its cancels and the paths that map its identity (`Mappers`: the
submit's response, the stream, a reconciliation). Each mapper announces an
identity of its own, as a stop order and its activated child do; the index
keeps the one mapped last. The order's submit can also be refused, which
rejects the waiters. `SettleClosed` treats all identities of the order as
aliases, as the index does. The ambiguous ladder's five attempts are abstracted
to any number. `owner`, `consumed`, `sent` and `doubt` are history: they record
which cancel an entry belonged to and what the broker was asked, and no guard
depends on them. `AmbiguousCancelRetained` sets aside the mark that another
cancel of the same identity took away (see the observations).
A command may name an identity: one the index has, or has only a route for, is
cancelled at once (`ResolveKnown`); of one the index knows nothing of, the broker
is asked whether it is a stop order (`AskForStop`, `AnswerStop`), across an await
in which a mapping may come. `route` is initially false for an order that was not
submitted through this client.

### FillRow, FillLedger, OrderFills

`FillRow` is the arithmetic of one row of the fill projection as operators from
a row to its next value: synthetic fills that a cumulative quantity vouches
for, trades matched against them, commission shares, and the merge of two rows.
Quantity, notional and commission are measures of sets of executions, of which
an order has finitely many.
`FillLedger` is one order that goes by two ids, of which the alias is recorded
at any step by a task that does not hold the publication gate (`linker`). A
task inside the gate has resolved an id, or holds the projection lock while it
publishes, or works on the copy of a reconnect snapshot; events are old,
repeated and in any order. `split` records that a task projected while the two
ids had rows of their own, `skewed` that a merge cut a commission down, or that
what a trade published itself was charged the trade's whole commission (see the
observations). `Spread` hands a commission out as the code does: an unknown one
takes the lots that were matched, unchecked, and only one known in part is refused
when it would exceed its fill. So a fill that a merge cut can be resolved for more
lots than it has (see the observations); `CommissionFitsFill` says that nothing
else does that. Of a cut fill the resolved lots are rounded down to whole lots,
where the code keeps a fraction; its commission is divided by the exact shares.
`OrderFills` is the abstract ledger: it hears of executions and sends lots, each
one, none twice while it is trusted. `ImplementsOrderFills` is
`INSTANCE OrderFills WITH trusted <- ~split`.

### UnresolvedFills

The trades stream, the task of each unknown order, the helpers that find regular
orders and stop children, the order-state stream and a reconnect snapshot share
a buffer. Taking fills out, projecting them one by one and putting back the rest
are steps of the holder of the gate; the stream's buffering and a task's end
need only the buffer's lock and fall in between. The order of buffered fills is
data (a set), what a query answers is chosen freely, the snapshot shows every
announced trade, and the attempt counter is capped where the code saturates. The
end of a session loses what the stream had in hand. `stranded` records orders
whose fills were left without a task. The reconciliation that the trades stream
owes may complete (`ReadSnapshot`, `PublishSnapshot`) or fail for good, which
ends the gap with nothing read (`GiveGapUp`); `abandoned` records the trades
that nobody holds then. The model begins with the stream open; what precedes its
first open is `StreamReconnect`'s.

### StreamReconnect

`log` is the broker's history, `wire` what the open stream still carries, `told`
what the client got. The task starts with a stream that is not open and owes no
gap: if the first attempt succeeds, the stream is consumed at once, and the
events before it (`unheard`) lie in no gap, as in the code; if it fails, the gap
begins with the task. What happened before a session is the host's own mass
status to ask for. A second session begins as the first one does. A partial fill
that the broker ended without calling the order cancelled (`lapsed`) is an end on
the stream, which sees its completion time, and a partial fill in a query
(`StreamReport`, `QueryReport`); `EveryEndIsShown` takes either.
A reconciliation reads in four stages, each at another
time: the orders, the active stops, the stops of the range (or of all time when
a known one is missing), and the children of activated stops. What is in the
range is the broker's choice. `cut` is a connection that died without anybody
being told. Windows, bisecting and pagination are abstracted to one answer.
`Tick` assumes what the overlap of five minutes is there for: on a live stream
an event is received, and a reconciliation is published, within the overlap.
Events are stamped by the day (`Midnight`), because a gap that began before the
current UTC day is refused.

### PositionProjection

Two streams with sources of their own, and a query: a position report, of one
instrument or of all, or a mass status, which stamps its answer before it reads
orders and fills. A message may be refused in part, an answer be incomplete;
only the mass status takes one. The client's clock gives each publication a
stamp of its own. `unsure` is history: positions whose last report was refused,
kept back by a query for another instrument, or that only a query has shown.

### FuturesMargin

The metadata of one contract: loads that find nothing fetch the definition,
lead a flight for the margin, or follow one; a reconnect gives later callers a
new generation with empty flights and stamps but the same cache. Callers are
dropped at any await. `stray` marks a definition that a caller of an older
generation stored. Expiry of the cache is an action. Seeds without rates and
lookups by other identities are left out.

### BarStreams

A worker is the stream of a group, the isolated retry stream of one instrument,
or the poll of one; its key carries the generation of the snapshot, and what it
publishes is fenced by the key. The exchange completes a minute (`Seal`) after
the client's clock passed it (`Tick`, at most `Lag` ahead), and forms a candle
per traded minute. Interruption, refusal, partial refusal, a failed recovery and
a panic are the faults; a stream's panic is noticed by its supervisor, the
poll's by nobody (`PollPanics`). Closing a stream drops everything in flight.
Reading the cursor, asking `GetCandles`, publishing and committing are separate
steps; `HistoricalRecovery` shows what the single flight in between gives.

### HistoricalRecovery

Callers run `recover_range` for a range (`Keys`) and may be cancelled at any
await: the guard then completes the flight as cancelled, step by step
(`Complete`, `Release`, `FinishRecovery` take different locks). The 30 s
cooldown is `circuit = "cooled"`, reached at any time after it opened.
`MaxCancels` bounds the cancellations.

## Runs

| Run | Instance | Shows |
|---|---|---|
| `lifecycle` | 1 mutation, 2 workers, 1 read, 1 report, 3 connects, 1 reset, abandoned at any await | a reset replaces nothing that is used and forgets no unresolved mutation; sessions are apart; a teardown that says Ok left nothing; a session's panics are seen before its reset, but for a query session without commands |
| `submit` | 3 legs, 2 recovery attempts, panics, fair task and deadline | nothing the broker has is dropped or declared dead; an unknown outcome can be looked up; a confirmed stage stays; each leg is answered |
| `cancel` | 2 cancels, 2 mappings, identities known, named or looked up, an order with a route or without | a pending cancel is settled once; marks have a cause and doubts a mark |
| `historical` | 2 callers of a range, threshold 2, 1 cancellation, fair callers | one owner per flight, fresh success, every caller returns |
| `fills` | 2 executions, states of queries, one shared operation, its commission possibly unknown | commissions add up and fit their fills, a known one stays, the ledger implements `OrderFills` |
| `fills_linked` | ids linked before the first execution | expected violation: finding 1 |
| `unresolved` | 2 fills of one order, limits 1 and 2, 2 attempts, 1 event, 1 fault, 2 sessions | no buffered fill is dropped or forgotten; a fill that was heard is held, or owed by a gap; every fill is told in the end |
| `reconnect` | from an unopened stream: a regular and a stop order of 2 lots, 2 events, 3 faults, 2 attempts, time 3 with midnight at 2 | the gap covers what was missed; nothing goes back; every end is shown |
| `positions` | 2 instruments, 2 trades, 1 fault, 1 query, time 6 | positions are right at rest |
| `margin` | 3 callers, 1 reconnect, 1 expiry, fair callers | the margin told is of the session; every load returns |
| `bars` | 2 instruments, one of them possibly polled, 3 minutes, 2 generations, 2 faults | bars once and in order, Ready is complete, nothing is missed, who is behind catches up |
| `bars_late` | the same with 1 fault | expected violation: finding 2 |

Every module has its type invariant. Those of `FuturesMargin` and
`PositionProjection` are proved for all values of the constants (`AccountProofs`)
and no run repeats them, nor `NothingIsLost` and `PublishedOnce` of `FillLedger`,
which the refinement covers.

**Bounds.** Two lifecycle generations suffice for work of an older one to meet a
newer one, and one reset for maps to be replaced under somebody; the second
connect can itself be abandoned, queried or drained, and a third is a query
session over what an abandoned one left behind (with two, the attempt to prove
`ResetObservesPanics` showed, a panic hidden that way is never met by a reset).
Three legs give one settled, one under way and one ahead; two attempts give a
ladder that is cut off, exhausted or successful at either attempt. Two cancels
are what can share a mark or a waiter's place (the index gives the pending entry
to one of them), and two mappings are what can consume one entry twice. Two
executions are the least that a cumulative state can sum up while a trade tells
one of them, and the least that share an operation. Two fills of an order with a
limit of one meet the limit, and one that is put back meets one that is
buffered; two sessions let the fills of one be met by the next. Two events of
each order and three faults break a stream twice and fail a reconciliation in
between, which reaches the degraded stream; two events let a lot trade and its
order lapse; one midnight lets a gap lie on either side of it. Two trades on two
instruments give an old and a new report of a position, and a snapshot that
lacks one. Three callers give a leader, a follower and one of the next
generation. Two bar generations let a worker of the last one meet the current
one; three minutes are one recovered, one live and one buffered. The theorems
hold without the bounds; what only the runs show is listed below them.

**Deadlock** is not checked: a client that was disposed, a submit task that is
done, a caller that returned and a bounded environment that has spent its
events have nothing left to do.

**Fairness.** `SubmitRecovery!FairSpec`: the task's awaits are bounded by a
timeout or by the deadline, and the deadline is a point in time that comes.
`HistoricalRecovery!FairSpec` and `FuturesMargin!Fairness`: each caller that
can go on does (tokio polls it; a request has a timeout and bounded retries,
and a dropped future runs its destructors). `UnresolvedFills!Fairness`: each
task is scheduled and a mutex is handed over; strong fairness where a task needs
the publication gate, which others take in between. `StreamReconnect!Fairness`:
the loop is scheduled, a stream can be opened and a call is answered in the
end. `BarStreams`: each worker that can go on does, and refusals and failures
end, which `MaxFaults` expresses. Nothing is assumed of the broker's progress:
no order is ever required to be processed, no dead connection to be noticed.

## Proofs

The theorems hold for every value of the constants that satisfies the modules'
named assumptions. Each rests on an inductive invariant (`IInv`; `Inv`, `Knows`,
`Books` and `Fair` of the ledger, `PositionsIInv`, `BarsInv`).

*ExecLifecycleProofs.* "No task uses maps a reset replaced" is not inductive: a
reset is safe because the gates were closed when its guard was evaluated.
`IInv` says what holds at each await of a connect and of a disconnect
(`ConnectSteps`, `DisconnectSteps`), when admission is open (`AdmissionOpen`,
`OperationsAdmitted`), what a deferred reset meets (`PendingReset`,
`UnusedSession`), and that only the newest token is active in a session
(`ActiveTokens`, `TokensIssued`). The types of the flags are proved apart from
the rest: they need a prover for Boolean-valued variables. For
`ResetObservesPanics`, `UnseenPanics` says where a failure can wait while its
group counts as drained: only in a query session, whose tasks are commands it
admitted.

*SubmitRecoveryProofs.* The properties are inductive once it is known how far
the task is: `Frontier` says that the legs ahead of the task are untouched (no
stage, no order at the broker, their route in place), and what the leg it works
on looks like at each place in the code. `ReportSettles` and `RejectedIInv` are
the two lemmas on which the cases rest. That no order of the broker is dropped
(`OrdersAreTracked`) and that an unknown submit keeps what it can be looked up
by (`UnknownSubmitsAreRecoverable`) follow leg by leg; `ConfirmedStaysConfirmed`
is an action property proved from the same invariant.

*PendingCancelProofs.* A pending entry has an owner because nobody is told
before the entry has been taken for good (`ToldIsTaken`), a submit is refused
only before an identity is known (`RefusedIsUnknown`), and the cancel whose
entry was taken goes on (`ConsumedGoesOn`). `MarksAreExact` needs a second
invariant: for each cancel at each place, whether the identity it works on is
marked, and by whom else it may be unmarked.

*MarketDataProofs, historical recovery.* The owners at work hold flights that
are pending and are apart from each other; a flight that can be joined is one of
these; a flight that ended was settled; a follower's flight is being served.
Success is fresh because a follower joins only a flight that is still pending.

*AccountProofs, margin.* A margin that counts as fresh was read in this
generation (`FreshIsOfThisSession`), because a reconnect empties the stamps and
only a caller of the current generation sets one; a follower's leader is in its
own generation (`FollowersStay`), and so is every answer.

*AccountProofs, positions.* The last message of a stream that mentions a
position says what is held (`LastWord`), because every trade queues a message on
each open stream. So a position of which a stream has nothing more to say is
shown as it is held, if that stream was the last to tell of it, and is flat if
nobody ever did (`CaughtUp`). A query may answer with what was held earlier:
then the stream of its source has told of the position since, under a later
stamp, or will (`StaleIsRefused`). No watermark exceeds the clock, which is what
makes a stream's report newer than anything before it.

*MarketDataProofs, bars.* The invariant of one worker (`Sound`) is proved first,
over every step a worker can take, as lemmas about the record it becomes: its
queues are in the order of the minutes, whatever follows a candle it holds it
holds as well (`Upward`), an accepted stream holds what is traded after its
cursor and will not be recovered (`Covering`), and a fetched range has what
there was to get (`Fetched`). The keys of the snapshot are accounted for:
whoever was asked for an instrument streams it or has a child that does, and
only an accepted stream counts as healthy (`Accounted`). The cursors of the
snapshot are where the watermark is (`CursorsAreTight`); an older worker's key
fences it off. `Delivered` then says that each due minute up to the watermark
was sent, once and in order, or skipped as not complete when it was recovered.

*FillLedgerProofs.* An account of lots: each row has a weight (what it has
published), each trade or cumulative quantity that was projected is covered by
the row of its id, and while the fills are under one id the weight equals what
was sent (`Weight`, `Covered`, `ExactPair`). A merge adds weights and keeps what
was covered. From it follow `NothingLost`, `PublishedAtMostOnce` and the
refinement `Implements`: every step of a task is a `Hear`, an `Execute` or a
stutter of `OrderFills`. A second argument is about commissions (`Knows`): a row
knows what the host was told of its fills; the copy a snapshot works on knows
what was told and what will be with it; and before the alias is known a row has
seen only the trades of its own id, unless the task in the gate is about to tear
the fills apart. While they are not torn, one row holds all fills, so a merge
takes no commission back (`KnownCommissionsStay`). What the fold over the
alias's fills preserves is shown at the least number of entries that would break
it. A third is about the books of a row (`IsBooked`), and gives `TypeCorrect`:
the lots a row holds without a match are the total of its queue. It is inductive
with three more facts: a queue has one entry per fill and no empty one, so the
merge of two queues has the lots of the larger; the fills of a queue are
quantities the row has emitted, so a new cumulative fill is not among them; and
a trade the row has not seen has no matches. The totals rest on lemmas about
queues: the total as a running sum, what is left when the first lots are taken
(`TrailingTotal`, `LeadingTotal`), and joined and merged queues (`JoinedQueue`,
`MergedTotal`).

The fourth argument is about amounts and gives `CommissionsAddUp` and
`CommissionsFit`: `FeesAddUp`, and that no commission covers more lots than its
fill has, for every broker that charges in proportion to the lots
(`Proportional`, an assumption of the theorem and not of the module: it holds of
the run's constants). A row is fair (`IsFair`) when its fills add up to what it
emitted, each fill's commission is what is due for the lots it covers, what is
queued or matched is backed by synthetic fills of at least as many lots, and
what a trade published itself is what its matches leave of it, or what it was
given once they were gone. `Fair` says so of the rows and of a snapshot's copy,
and that what was told of a fill is due for its lots. The bound on the lots a
commission covers is part of what is due, and is not inductive by itself: that
an unknown commission takes no more than its fill has, unchecked, rests on the
matches being backed by fills of as many lots, which a merge that cuts a fill
breaks. It is kept because every split of a commission is then exact: the
largest remainder hands out no unit, since each weight's share is a whole
multiple (`SharesAreDue`); the settled fills of a trade keep what is due for
their part, so what is left for the open ones is what is due for those
(`KeptIsDue`, `AttributionFair`, `SpreadFair`); the rest a cumulative answer
gives is due for what is not yet resolved (`RowSums`, `CumulatedFair`,
`CorrectedFair`). The two things that break fairness are those `skewed` marks,
and each is a case in the proof: a merge that cuts a fill down (`MergedFair`
asks that none was) and a trade whose remaining lots are charged for all of it
(`OwnFair` has it as its alternative). TLC checked `Fair` as an invariant on
small instances before it was proved. Sums over the fills of a row rest on an
induction over finite sets (`SetInduction`, `SumOfParts`).

*UnresolvedFillsProofs.* `NoFillIsDropped` needs only the types: what is taken
out is in the gate's hands. `BufferedIsWatched` needs that the gate's holder is
there and works on one order, and that the stream has one trade in hand; the
case that matters is the end of a task, which looks at the buffer and leaves
the map under one lock. `HeardFillsAreHeld` has an induction of its own: what the
stream has in hand stays there until it is recorded, buffered or owed
(`InHandIsKept`), and a snapshot under way has every trade heard before it
(`SnapshotIsWhole`).

*StreamReconnectProofs.* The log is in the order of time and of each order's
life, carried along as the log grows; what is shown of an order is a past state
of it, from whatever source, so a projection that drops lower ranks and smaller
fills never goes back. For the gap: an event that is neither told nor on the
wire is younger than the last observation less the overlap, or came before a first
open that owed nothing; before that open the gap, if it comes to one, begins with
the task; while a snapshot is
being read, what it has not seen happened after its first read and will be on
the wire or in the next gap (`SnapshotIsRecent`, `SnapshotIsWhole`,
`WireIsInTheGap`, `MissedIsBehind`).

*Only model-checked.* Liveness under fairness (`EveryLegIsAnswered`,
`EveryCallReturns`, `EveryFillIsTold`, `EveryEndIsShown`, `EveryLoadReturns`,
`BehindIsCaughtUp`), which the prover does not handle. `FeesAddUp` is proved for
proportional commissions only: it does not hold for every value of the
constants, since a trade's own commission need not be its share of the order's,
and what does not split evenly is rounded (see the observations). The library's
induction theorems cannot be instantiated, since they take an operator; an
induction over the natural numbers is possible where it is written out for one
statement, as the least counterexample of it: so are the folds over the queues
of `FillLedger`.

## Findings

1. `projections.rs:1481-1482` says that an execution heard of again must not be
   emitted a second time. A query records the alias of a re-registered or
   activated order and reports it under its canonical id, but projects its
   fills under the id the broker answered with (`client.rs:3866-3870`): a row of
   its own, whose first cumulative quantity is emitted again. Run `fills_linked`.
2. `market_data/events.rs:94` calls `ready_through` authoritative. A range is
   recovered up to the minute the client's clock has just closed, a candle that
   is not complete yet is dropped, and the cursor passes it
   (`market_data/continuity.rs:60`): the source is Ready through a minute whose
   bar the host never gets. Run `bars_late`.

### Observations

Behaviour met while modelling that a reader of the code may want to know; no run
stands for these, and the properties name what they set aside.

* *Lifecycle.* `client.rs:480-482` wants every task failure observed. If
  `connect` is dropped while it waits for the account and its workers have all
  panicked, `connect_for_queries` reuses the empty session and marks it drained
  (`client.rs:1739`); a deferred reset then leaves the panics unseen, unless that
  query session admitted a command. (The property sets this one case aside.)
* *Submit.* A stage documented as confirmed by a broker report, `Rejected`
  (`client.rs:1003`), is also given to a submit that was never sent
  (`client.rs:2674-2680`, `2843-2850`). A stop order whose answer was lost is
  taken to be the only stop of its shape that the index does not know
  (`client.rs:3797-3855`): with two submits of one shape, one of them lost for
  good, the lone candidate may be the other's.
* *Cancel.* Two cancels of one order share one mark; the refusal of one removes
  it although the other's outcome is ambiguous (`client.rs:2966-2972`).
* *Limiter.* The cooldown restarts when the half-open probe starts
  (`supervisor.rs:251-253`), but the probe may wait longer than the cooldown, so
  two may run. Followers of a cancelled probe are woken before the circuit is
  released (`supervisor.rs:294-323`) and may be refused once.
* *Fills.* The publication of a cumulative fill holds the projection lock and
  takes the order index's (`projections.rs:1217`, `1293`, `client.rs:3977`); the
  recording of an alias takes them the other way round (`client.rs:1858-1868`,
  `1921-1932`). Both ends of that cycle are states of the model (`StateStaged`,
  `LinkHolding`). A merge resizes the commission of a partly matched synthetic
  fill to its unmatched lots (`projections.rs:296`; `skewed`). The report
  queries and the reconnect reconciliation record the order ids of trades
  outside the gate, as the broker gave them (`client/nautilus.rs:435-520`).
  With commissions that do not split evenly, a trade heard of out of order is
  matched by lots alone and may take another's share; the instance has an even
  one.
* *Cut fills.* `projections.rs:1716` refuses a "synthetic T-Bank fill commission
  resolution" that "exceeds tracked quantity", but only where the commission is
  known in part; an unknown one is resolved for whatever was matched
  (`projections.rs:1701-1707`). A query under a child's id publishes a fill of
  three lots, trade 1 is matched with two of them, the merge of the alias cuts
  the fill to the one left, and trade 1's commission then resolves two lots of
  one: the fill's commission is never announced, and its negative rest hides
  unknown lots of other fills from later corrections. TLC reaches that state in
  the instance of `fills`; `CommissionFitsFill` sets it aside (`skewed`).
* *Commissions.* An operation can be charged twice. A query publishes part of a
  trade as a synthetic fill with its commission; the operation is then matched
  in part, its rest is spread over what the trade published itself
  ("allocated"), and the matches are consumed. The next reconnect snapshot
  projects the same operation again (`client/reconciliation.rs:562` filters
  none): nothing is matched any more, so the fill of the rest gets the
  operation's whole commission (`projections.rs:1500-1519`), which is told. The
  comment on the caller wants the opposite, that "provenance" cannot "exceed the
  ledger total" (`client/translation.rs:1434-1437`). `ChargedWhole` is that
  state; `FeesAddUp` sets it aside (`skewed`).
* *Unresolved fills.* "retaining buffered fills for durable retry"
  (`client/reconciliation.rs:1009`): fills that were put back after their task
  had ended, or left over at a new session, have no task until another trade or
  an event of the order comes (`stranded`).
* *Reconnect.* A permanent failure of the reconciliation beside a live stream
  forgets the gap (`client.rs:4193-4199`), while one before the stream is
  consumed keeps it (`abandoned`). A gap that begins before the current UTC day
  is such a failure (`client.rs:3267`), also when the reconnect is just after
  midnight. The trades stream forgets its gap in the same way
  (`client.rs:4309-4314`): a known order's trade that could not be projected and
  waits for the reconciliation is then not told. An order state between the
  spawn of the task and a first open that succeeds is in no gap
  (`client.rs:4145-4150`; `unheard`). The execution streams have no idle timeout
  (`cut`). A partial fill that the broker ended (`lapsed`) is shown as cancelled
  by the stream and as partially filled by a query
  (`client/translation.rs:318-358`), so after an outage the order stays open for
  the host.
* *Polls.* Only stream workers are supervised (`catch_unwind`,
  `market_data/client.rs:2987-3092`). A panic of the poll loop is seen when its
  task group is drained; until then nobody polls, and its keys keep the health
  they had. `BehindIsCaughtUp` asks only for instruments some worker still has.
* *Positions.* A position query of one instrument applies the whole snapshot and
  filters afterwards (`client/nautilus.rs:1634-1645`): the flat of another
  instrument is consumed and never told. A position never seen has no watermark,
  so an answer older than a complete snapshot without it is accepted
  (`projections.rs:1079-1082`, `2040`).
* *Margin.* A definition fetched by a caller of an older generation is stored
  without a look at the generation (`client.rs:4542`, against the intent of
  `1618-1619`). Of two loads of a cold cache, the second stores its raw
  definition over the committed margin and returns it as fresh
  (`client.rs:4571-4586`).

## Not modelled

* Quote, trade and depth streams, which run the worker of `BarStreams` without a
  continuity cursor; the instrument catalogue refresh; subscription
  acknowledgements that come twice; the snapshot reaper; batching into several
  groups; watermarks that are cleared when a route changes; stream-state events.
  Of the bars: a host that opts out of subscriptions on reconnect, whose
  `connect` forgets subscriptions and watermarks
  (`market_data/client.rs:1551-1560`), and a live candle that cannot be
  converted or whose event a closed host channel refuses, which is dropped with
  a warning and passed by the next bar (`4761-4765`, `4966-4972`).
* Account state updates, and the selection of orders and fills by report
  commands (`generate_order_status_reports`, `generate_fill_reports`), which
  return reports without touching the projection of order states.
* `market_data/book.rs`, `historical/mod.rs`, `instruments`, most of
  `client/translation.rs`, `orders.rs`, `stop_orders.rs`: conversion of one
  message or request at a time, whose correctness does not depend on the order
  of events; unit tests of the repository cover them by example.
* `grpc`, `config`, `factory`, the account tool and the generated protocol code:
  transport, validation and construction.
* A restart of the process: nothing is persisted; a new process begins with
  `connect` and a mass status, which are those of the models.

## Plan

What remains worth doing, in this order.

1. `CatalogueRefresh`: the refresh task of the market data client, its
   generation fence and the routes it replaces under open streams.
2. Stop orders of one shape in `SubmitRecovery`: legs that may be taken for one
   another, and the window in which a candidate counts.
3. `SubmitBudget` (`client.rs` 1222-1279): the arithmetic of budgets and
   timeouts, with lemmas for every value.
