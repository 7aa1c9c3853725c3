----------------------------- MODULE FillLedger -----------------------------
(***************************************************************************)
(* The fills of one order, from the execution streams, queries, submit     *)
(* answers and reconnect snapshots to the host: the shared fill            *)
(* projection, the alias of the order's exchange id, and the two locks and *)
(* the publication gate the tasks take (execution/client.rs,               *)
(* execution/client/streams.rs, translation.rs, reconciliation.rs).        *)
(*                                                                         *)
(* The order goes by two ids: "order", its canonical one, and "child", the *)
(* exchange's id after a stop was activated or the order was re-registered.*)
(* An order state may be older than the broker's, or come more than once.  *)
(*                                                                         *)
(* The publication gate lets one task project at a time (task).  An alias  *)
(* is recorded without it (linker).  The order index lock is either held   *)
(* by the linker or free; the projection lock is held by a task that       *)
(* publishes a cumulative fill, and taken for single steps by the others.  *)
(***************************************************************************)
EXTENDS FillRow

CONSTANTS
    Sources,       \* where cumulative states come from: "stream", "query", "submit"
    Shared,        \* the executions the broker books in one operation
    Untold,        \* those whose operation may come without its commission
    MaxPublished   \* lots beyond which no new event is taken up

ASSUME FillLedgerAssumption ==
    /\ Sources \subseteq {"stream", "query", "submit"}
    /\ Shared \subseteq Trades /\ Untold \subseteq Trades
    /\ MaxPublished \in Nat

Ids == {"order", "child"}

VARIABLES
    executed,    \* how many executions the broker has made
    alias,       \* the order index knows that "child" is "order"
    orderOf,     \* venue_order_id_by_trade_id, "none" before it is recorded
    rows,        \* fill_projection.orders
    task,        \* the task inside the publication gate
    linker,      \* the task that records the alias
    published,   \* lots of the fills sent to the host
    told,        \* the commission last told for each fill
    heard,       \* the trades and the cumulative lots projected without error
    skewed,      \* a merge cut a fill's commission down to its unmatched lots, or
                 \* what was left of a trade was charged for all of it
    split        \* a task projected while the fills were under both ids, or
                 \* under "child" though the alias was recorded

vars == <<executed, alias, orderOf, rows, task, linker, published, told, heard, skewed, split>>

Idle == [at |-> "idle"]
Canonical(id) == IF alias THEN "order" ELSE id   \* canonical_venue_order_id_or_self

\* linked: the ids were linked before the order had an execution (LinkHolding,
\* Link from the state where they are not).
InitWhen(linked) ==
    /\ executed = 0 /\ alias = linked
    /\ orderOf = [t \in Trades |-> "none"]
    /\ rows = [id \in Ids |-> EmptyRow]
    /\ task = Idle /\ linker = "idle"
    /\ published = 0 /\ told = <<>>
    /\ heard = [trades |-> {}, lots |-> 0]
    /\ skewed = FALSE /\ split = FALSE

Init == InitWhen(FALSE)

Execute ==
    /\ executed < Cardinality(Trades)
    /\ executed' = executed + 1
    /\ UNCHANGED <<alias, orderOf, rows, task, linker, published, told, heard, skewed, split>>

-----------------------------------------------------------------------------
\* Committing a row and what it published

\* The rows become r, having sent lots more to the host and told the
\* commissions c.
Commit(r, lots, c) ==
    LET apart == r["order"].emitted > 0 /\ r["child"].emitted > 0
        stray == alias /\ linker /= "holding" /\ r["child"].emitted > 0
    IN  /\ rows' = r
        /\ published' = published + lots
        /\ told' = Over(c, told)
        /\ split' = (split \/ apart \/ stray)

HearTrades(ts) == heard' = [heard EXCEPT !.trades = @ \cup ts]
HearState(k)   == heard' = [heard EXCEPT !.lots = Most(@, Lots[Upto(k)])]

Take == task.at = "idle" /\ published <= MaxPublished

-----------------------------------------------------------------------------
\* Cumulative quantities

\* The order index learns which order executions ts belong to.
MapTrades(ts, id) == orderOf' = [t \in Trades |-> IF t \in ts THEN id ELSE orderOf[t]]

\* resolve_stream_order_venue_id resolves a stream's state to the canonical id;
\* a query and a submit answer are projected under the id the broker answered
\* with.
ProjectedId(source, id) == IF source = "stream" THEN Canonical(id) ELSE id

\* A submit answers before the order has another id, and has no trades.
StateResolved(source, id, k, given) ==
    /\ Take
    /\ source = "submit" => id = "order"
    /\ source = "stream" => ~given
    /\ linker /= "holding"
    /\ MapTrades(IF source = "submit" THEN {} ELSE Upto(k), Canonical(id))
    /\ task' = [at |-> "resolved", key |-> ProjectedId(source, id), source |-> source,
                k |-> k, given |-> given]
    /\ UNCHANGED <<executed, alias, rows, linker, published, told, heard, skewed, split>>

\* A row that publishes nothing is stored at once.
StateIgnored ==
    LET row == rows[task.key]
    IN  /\ task.at = "resolved"
        /\ Lags(row, task.k) \/ (Delta(row, task.k) <= 0 /\ Correctable(row, task.k, task.given) = {})
        /\ HearState(task.k)
        /\ Commit([rows EXCEPT ![task.key].cum = Most(@, Lots[Upto(task.k)])], 0, <<>>)
        /\ task' = Idle
        /\ UNCHANGED <<executed, alias, orderOf, linker, skewed>>

StateRegressed ==
    /\ task.at = "resolved"
    /\ ~Lags(rows[task.key], task.k) /\ Regressed(rows[task.key], task.k)
    /\ task' = Idle
    /\ UNCHANGED <<executed, alias, orderOf, rows, linker, published, told, heard, skewed, split>>

\* The projection lock is kept while the report asks the order index for the
\* order's identity.
StateStaged ==
    LET row == rows[task.key]
    IN  /\ task.at = "resolved"
        /\ ~Lags(row, task.k) /\ ~Regressed(row, task.k)
        /\ Delta(row, task.k) > 0 \/ Correctable(row, task.k, task.given) /= {}
        /\ task' = [task EXCEPT !.at = "publishing"]
        /\ UNCHANGED <<executed, alias, orderOf, rows, linker, published, told, heard, skewed, split>>

PublishDelta ==
    LET row  == rows[task.key]
        fill == Synthetic(task.source, task.key, task.k)
        c    == CumulativeFee(row, task.k, task.given)
    IN  /\ Delta(row, task.k) > 0
        /\ Commit([rows EXCEPT ![task.key] = Cumulated(row, task.k, fill, c)],
                  Delta(row, task.k), Only(fill, c))

PublishCorrection ==
    LET row == [rows[task.key] EXCEPT !.cum = Lots[Upto(task.k)]]
    IN  /\ Delta(row, task.k) <= 0
        /\ \E f \in Correctable(row, task.k, task.given) :
              LET next == Corrected(row, task.k, f)
              IN  Commit([rows EXCEPT ![task.key] = next], 0, Only(f, next.fees[f].c))

StatePublished ==
    /\ task.at = "publishing"
    /\ linker /= "holding"
    /\ PublishDelta \/ PublishCorrection
    /\ HearState(task.k)
    /\ task' = Idle
    /\ UNCHANGED <<executed, alias, orderOf, linker, skewed>>

-----------------------------------------------------------------------------
\* Trades of the streams, whose commission is not known yet

TradeKeyed(id, t) ==
    /\ Take /\ linker /= "holding"
    /\ MapTrades({t}, id)
    /\ task' = [at |-> "keyed", key |-> Canonical(id), t |-> t]
    /\ UNCHANGED <<executed, alias, rows, linker, published, told, heard, skewed, split>>

\* What a projected trade sends and tells.
SentLots(row, t) == IF t \in row.seen THEN 0 ELSE Fresh(row, t)
Telling(row, next, t, c) ==
    LET c1 == IF SentLots(row, t) < Lots[{t}] /\ Known(c) THEN next.row.fees[TradeFill(t)].c ELSE c
    IN  Over(next.corrections, IF SentLots(row, t) > 0 THEN Only(TradeFill(t), c1) ELSE <<>>)

TradePublished ==
    LET row == rows[task.key]
    IN  /\ task.at = "keyed"
        /\ HearTrades({task.t})
        /\ \E next \in {Projected(row, task.t, Unknown)} :
              Commit([rows EXCEPT ![task.key] = next.row], SentLots(row, task.t),
                     Telling(row, next, task.t, Unknown))
        /\ task' = Idle
        /\ UNCHANGED <<executed, alias, orderOf, linker, skewed>>

-----------------------------------------------------------------------------
\* Reconnect snapshots: the executed operations with their commissions

\* publish_reconnect_snapshot works on a copy of the projection.
\* An operation with a trade of no known order is left out.
Operation(t, k) == IF t \in Shared THEN Shared \cap Upto(k) ELSE {t}
MappedTrades(k) == {t \in Upto(k) : \A s \in Operation(t, k) : orderOf[s] /= "none"}

\* allocate_operation_commission: the commission of a trade is its operation's,
\* or its share of it, if the operation has one.
OperationFees(t, k) ==
    {Commission(IF Cardinality(Operation(t, k)) > 1 THEN "allocated" ELSE "reported", Fee[{t}])}
    \cup {Unknown : u \in Untold \cap {t}}

SnapshotTaken(k) ==
    /\ Take
    /\ task' = [at |-> "staging", k |-> k, staged |-> rows, todo |-> MappedTrades(k),
                done |-> {}, lots |-> 0, c |-> <<>>]
    /\ UNCHANGED <<executed, alias, orderOf, rows, linker, published, told, heard, skewed, split>>

\* A fill that has less lots than its trade carries the trade's own commission.
ChargedWhole(row, t) ==
    LET tracked == row.fees[TradeFill(t)]
    IN  /\ TradeFill(t) \in DOMAIN row.fees
        /\ tracked.lots < Lots[{t}] /\ tracked.c.status = "reported"

\* A fill whose commission does not add up is left out.
SnapshotStages(t, c) ==
    LET id   == Canonical(orderOf[t])
        row  == task.staged[id]
    IN  /\ task.at = "staging" /\ t \in task.todo /\ linker /= "holding"
        /\ \E next \in {Projected(row, t, c)} :
              task' = IF next.ok
                      THEN [task EXCEPT !.staged[id] = next.row,
                                        !.todo = @ \ {t}, !.done = @ \cup {t},
                                        !.lots = @ + SentLots(row, t),
                                        !.c = Over(Telling(row, next, t, c), @)]
                      ELSE [task EXCEPT !.todo = @ \ {t}]
        /\ skewed' = (skewed \/ ChargedWhole(task'.staged[id], t))
        /\ UNCHANGED <<executed, alias, orderOf, rows, linker, published, told, heard, split>>

\* The copy replaces the shared projection, whatever it has become.
SnapshotStored ==
    /\ task.at = "staging" /\ task.todo = {}
    /\ Commit(task.staged, task.lots, task.c)
    /\ HearTrades(task.done)
    /\ task' = Idle
    /\ UNCHANGED <<executed, alias, orderOf, linker, skewed>>

\* publish_snapshot_fill_provenance, for a report the host asked for.
ProvenanceTold(t, c) ==
    LET id  == Canonical(orderOf[t])
        row == rows[id]
    IN  /\ Take /\ t \in MappedTrades(executed) /\ linker /= "holding" /\ SnapshotTold(row, t, c)
        /\ Commit([rows EXCEPT ![id] = Refined(row, t, c)], 0, Only(TradeFill(t), c))
        /\ UNCHANGED <<executed, alias, orderOf, task, linker, heard, skewed>>

-----------------------------------------------------------------------------
\* The alias

\* record_activated_stop_child_mapping, record_regular_order_alias and
\* resolve_stream_order_venue_id keep the index locked until the merge;
\* record_activated_stop_child_alias does not.
LinkHolding(held) ==
    /\ linker = "idle"
    /\ ~alias \/ rows["child"] /= EmptyRow
    /\ alias' = TRUE
    /\ linker' = IF held THEN "holding" ELSE "merging"
    /\ UNCHANGED <<executed, orderOf, rows, task, published, told, heard, skewed, split>>

Link ==
    /\ linker /= "idle" /\ task.at /= "publishing"
    /\ IF rows["child"] = EmptyRow THEN UNCHANGED <<rows, skewed>>
       ELSE LET row == Merged(rows["order"], rows["child"])
                cut == {f \in DOMAIN row.fees : \E id \in Ids :
                           f \in DOMAIN rows[id].fees /\ row.fees[f].lots < rows[id].fees[f].lots}
            IN  /\ rows' = [rows EXCEPT !["order"] = row, !["child"] = EmptyRow]
                /\ skewed' = (skewed \/ cut /= {})
    /\ linker' = "idle"
    /\ UNCHANGED <<executed, alias, orderOf, task, published, told, heard, split>>

-----------------------------------------------------------------------------
Made == 1 .. executed

StateStep ==
    \/ \E source \in Sources, id \in Ids, k \in Made, given \in BOOLEAN :
          StateResolved(source, id, k, given)
    \/ StateIgnored \/ StateRegressed \/ StateStaged \/ StatePublished

TradeStep == (\E id \in Ids, t \in Upto(executed) : TradeKeyed(id, t)) \/ TradePublished

SnapshotStep ==
    \/ \E k \in Made : SnapshotTaken(k)
    \/ \E t \in Upto(executed) :
          \/ task.at = "staging" /\ \E c \in OperationFees(t, task.k) : SnapshotStages(t, c)
          \/ \E c \in OperationFees(t, executed) : ProvenanceTold(t, c)
    \/ SnapshotStored

LinkStep == (\E held \in BOOLEAN : LinkHolding(held)) \/ Link

Next == Execute \/ StateStep \/ TradeStep \/ SnapshotStep \/ LinkStep

Spec == Init /\ [][Next]_vars

\* An order whose ids were linked before it had any execution.
LinkedSpec == InitWhen(TRUE) /\ [][Next]_vars

-----------------------------------------------------------------------------
\* Properties

TypeOK ==
    /\ executed \in 0 .. Cardinality(Trades)
    /\ alias \in BOOLEAN /\ split \in BOOLEAN
    /\ linker \in {"idle", "holding", "merging"}
    /\ task.at \in {"idle", "resolved", "publishing", "keyed", "staging"}
    /\ published \in Nat /\ heard.lots \in Nat /\ heard.trades \subseteq Trades
    /\ \A id \in Ids :
          /\ rows[id].unmatched = Total(rows[id].queue)
          /\ rows[id].seen \subseteq Made

\* Only a merge that cuts a fill lets its commission cover more lots than it
\* has: whatever trades were matched with the fill, and in whatever order their
\* commissions come, no lot of it is paid for twice (update_duplicate_fill_provenance).
CommissionFitsFill ==
    ~split /\ ~skewed =>
        \A id \in Ids : \A f \in DOMAIN rows[id].fees :
            rows[id].fees[f].resolved <= rows[id].fees[f].lots

\* Nothing is lost: whatever order, source and identity the executions are
\* heard of through, the host is sent at least the lots of every trade that was
\* projected, and at least every cumulative quantity that was.
NothingIsLost ==
    /\ Lots[heard.trades] <= published
    /\ heard.lots <= published

\* Nothing is published twice: the host is never sent more lots than were
\* executed, unless the fills were under two ids when a task projected.
PublishedOnce == ~split => published <= Lots[Upto(executed)]

\* The commissions add up: once every executed lot was sent and the commission
\* of each of its fills was told, what was told is the broker's commission.
FeesAddUp ==
    LET fills == UNION {DOMAIN rows[id].fees : id \in Ids}
    IN  /\ ~split /\ ~skewed /\ published = Lots[Upto(executed)]
        /\ \A f \in fills : f \in DOMAIN told /\ Known(told[f])
        => SumFunction([f \in fills |-> told[f].amount]) = Fee[Upto(executed)]

\* A known commission is never replaced by an unknown one.
KnownStaysKnown ==
    [][~split' /\ told' /= told =>
          \A f \in DOMAIN told :
             Known(told[f]) /\ (\E id \in Ids : f \in DOMAIN rows[id].fees)
                 => Known(told'[f])]_vars

\* The ledger is an atomic one that hears of executions and sends lots.
Promise == INSTANCE OrderFills WITH trusted <- ~split
ImplementsOrderFills == Promise!Spec

\* projections.rs:1481 "the Nautilus execution fill must not be emitted a second
\* time": no execution of an order is published twice once its two ids are known
\* to be one.
OnceWhenLinked == published <= Lots[Upto(executed)]

=============================================================================
