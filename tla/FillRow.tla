------------------------------ MODULE FillRow ------------------------------
(***************************************************************************)
(* One row of the fill projection (execution/projections.rs): what was     *)
(* published of one order, which part of it only a cumulative quantity     *)
(* vouches for, and what is known of the commission of each published      *)
(* fill.  Pure operators from a row to its next value.                     *)
(*                                                                         *)
(* The order's executions are the trades 1 .. Len, in the order the        *)
(* exchange made them.  Lots, Worth and Fee measure a set of trades:       *)
(* quantity, notional and commission in minor units of one currency.       *)
(***************************************************************************)
EXTENDS Integers, Sequences, FiniteSets, Functions, SequencesExt

CONSTANTS
    Trades,   \* the executions the order can have, 1 .. some number
    Lots,     \* [SUBSET Trades -> Nat]: the quantity of a set of executions
    Worth,    \* [SUBSET Trades -> Nat]: its notional
    Fee       \* [SUBSET Trades -> Nat]: the broker's commission for it

\* A measure is additive over single executions.
Additive(m) ==
    /\ m \in [SUBSET Trades -> Nat]
    /\ m[{}] = 0
    /\ \A S \in SUBSET Trades : \A t \in Trades \ S : m[S \cup {t}] = m[S] + m[{t}]
    /\ \A S, T \in SUBSET Trades : m[S \cup T] <= m[S] + m[T]
    /\ \A S, T \in SUBSET Trades : S \subseteq T => m[S] <= m[T]

ASSUME MeasuresAreAdditive ==
    /\ Trades \subseteq Nat \ {0} /\ IsFiniteSet(Trades)
    /\ Additive(Lots) /\ Additive(Worth) /\ Additive(Fee)
    /\ \A t \in Trades : Lots[{t}] > 0

Upto(k)    == {t \in Trades : t <= k}       \* the first k executions
Price(t)   == Worth[{t}] \div Lots[{t}]
Least(a, b) == IF a <= b THEN a ELSE b
Most(a, b)  == IF a >= b THEN a ELSE b

\* The identity of a published fill: a broker trade, or a synthetic one made
\* from the source, the order id and the cumulative quantity.
TradeFill(t)            == [source |-> "trade", key |-> "", n |-> t]
Synthetic(source, key, k) == [source |-> source, key |-> key, n |-> Lots[Upto(k)]]

Known(c) == c.status /= "unknown"
Rank(s)  == CASE s = "unknown" -> 0 [] s = "allocated" -> 1 [] s = "reported" -> 2
Unknown  == [status |-> "unknown", amount |-> 0]
Commission(s, a) == IF s = "unknown" THEN Unknown ELSE [status |-> s, amount |-> a]

\* A tracked commission: the lots of the fill, and how many of them it covers.
Tracked(lots, c)  == [lots |-> lots, resolved |-> IF Known(c) THEN lots ELSE 0, c |-> c]
Resolved(tracked) == Known(tracked.c) /\ tracked.resolved = tracked.lots

EmptyRow == [cum |-> 0, emitted |-> 0, notional |-> 0, unmatched |-> 0, seen |-> {},
             queue |-> <<>>, matches |-> [t \in Trades |-> <<>>], fees |-> <<>>]

\* Queues of fills with their lots, at most one entry per fill.
Total(q)     == FoldLeft(LAMBDA sum, e : sum + e.lots, 0, q)
Before(q, i) == Total(SubSeq(q, 1, i - 1))
LotsIn(q, f) == Max({0} \cup {q[i].lots : i \in {j \in DOMAIN q : q[j].fill = f}})
At(q, I)     == [k \in 1 .. Cardinality(I) |->
                    q[CHOOSE i \in I : Cardinality({j \in I : j <= i}) = k]]   \* in order

\* recompute_commission_tracking: the lots of unknown commission, the known sum.
UnknownLots(row) ==
    SumFunction([f \in DOMAIN row.fees |-> row.fees[f].lots - row.fees[f].resolved])
KnownFee(row) == SumFunction([f \in DOMAIN row.fees |-> row.fees[f].c.amount])

\* Functions changed in places: f |-> x alone, g with f |-> x, g with all of c,
\* g without F
Only(f, x)   == [i \in {f} |-> x]
Over(c, g)   == [i \in DOMAIN c \cup DOMAIN g |-> IF i \in DOMAIN c THEN c[i] ELSE g[i]]
Put(g, f, x) == [i \in DOMAIN g \cup {f} |-> IF i = f THEN x ELSE g[i]]
Drop(g, F)   == Restrict(g, DOMAIN g \ F)

\* allocate_money_by_weights: largest remainder, ties to the first; equal
\* shares when there is no weight at all.
Allocate(amount, weights) ==
    LET I        == DOMAIN weights
        weight   == FoldSeq(+, 0, weights)
        share(i) == IF weight > 0 THEN (amount * weights[i]) \div weight ELSE amount \div Len(weights)
        rest(i)  == IF weight > 0 THEN (amount * weights[i]) % weight ELSE 0
        left     == amount - FoldSeq(+, 0, [i \in I |-> share(i)])
        first(i) == {j \in I : rest(j) > rest(i) \/ (rest(j) = rest(i) /\ j < i)}
    IN  [i \in I |-> share(i) + IF Cardinality(first(i)) < left THEN 1 ELSE 0]

-----------------------------------------------------------------------------
\* A cumulative quantity of the first k executions

\* An answer older than what the row has seen is not used at all.
Lags(row, k) == Lots[Upto(k)] = 0 \/ Lots[Upto(k)] < Most(row.cum, row.emitted)

Delta(row, k) == Lots[Upto(k)] - row.emitted

\* The average price of the answer cannot account for what was published.
Regressed(row, k) == Delta(row, k) > 0 /\ Worth[Upto(k)] < row.notional

\* mutation: all of the order's commission
CumulativeFee_Whole(row, k, given) ==
    IF given THEN Commission("allocated", Fee[Upto(k)]) ELSE Unknown

\* project_cumulative_commission: the commission of the new fill, the rest of
\* the order's commission if nothing published is still unknown.
CumulativeFee(row, k, given) ==
    IF given /\ UnknownLots(row) <= 0
    THEN Commission("allocated", Most(Fee[Upto(k)] - KnownFee(row), 0))
    ELSE Unknown

\* project_cumulative_order_fill_with_publication, when there is a delta.
Cumulated(row, k, fill, c) ==
    [row EXCEPT !.cum = Lots[Upto(k)], !.emitted = @ + Delta(row, k),
                !.notional = Worth[Upto(k)], !.unmatched = @ + Delta(row, k),
                !.queue = Append(@, [fill |-> fill, lots |-> Delta(row, k)]),
                !.fees = Put(@, fill, Tracked(Delta(row, k), c))]

\* update_cumulative_commission_tracking: the fills a repeated cumulative
\* answer can correct, one if it is the only one left unresolved.
Correctable(row, k, given) ==
    LET open == {f \in DOMAIN row.fees : ~Resolved(row.fees[f])}
    IN  {f \in open : given /\ open = {f} /\ Fee[Upto(k)] >= KnownFee(row)}

Corrected(row, k, f) ==
    LET tracked == row.fees[f]
        amount  == Fee[Upto(k)] - KnownFee(row) + tracked.c.amount
    IN  [row EXCEPT !.fees = Put(@, f, Tracked(tracked.lots, Commission("allocated", amount)))]

-----------------------------------------------------------------------------
\* A broker trade

\* The lots of entry i of a queue that the first n lots of the queue include.
Share(q, i, n) == Least(q[i].lots, Most(n - Before(q, i), 0))
Leading(q, n) ==
    [i \in 1 .. Cardinality({j \in DOMAIN q : Before(q, j) < n}) |-> [q[i] EXCEPT !.lots = Share(q, i, n)]]

\* mutation: the matched lots stay in the queue
Trailing_Kept(q, n) == q

Trailing(q, n) ==
    LET gone == Cardinality({i \in DOMAIN q : Before(q, i) + q[i].lots <= n})
    IN  [i \in 1 .. Len(q) - gone |-> [q[gone + i] EXCEPT !.lots = @ - Share(q, gone + i, n)]]

\* What of the trade stands for lots published from cumulative quantities.
Matched(row, t) == Least(row.unmatched, Lots[{t}])
Fresh(row, t)   == Lots[{t}] - Matched(row, t)

\* project_trade_fill_report_locked
Traded(row, t, c) ==
    LET fresh   == Fresh(row, t)
        emitted == row.emitted + fresh
    IN  [row EXCEPT
            !.cum = Most(@, emitted), !.emitted = emitted,
            !.notional = @ + Price(t) * fresh,
            !.unmatched = @ - Matched(row, t),
            !.seen = @ \cup {t},
            !.queue = Trailing(@, Lots[{t}]),
            !.matches[t] = @ \o Leading(row.queue, Lots[{t}]),
            !.fees = IF fresh > 0 THEN Put(@, TradeFill(t), Tracked(fresh, c)) ELSE @]

\* update_duplicate_fill_provenance: what the commission of trade t says of the
\* fills published for it.  The result has the row, the corrections to tell,
\* and whether it went through at all.
Unchanged(row) == [row |-> row, corrections |-> <<>>, ok |-> TRUE]
Changed(row, fees, told) == [row |-> [row EXCEPT !.fees = fees], corrections |-> told, ok |-> TRUE]

\* The trade was published under its own identity.
OwnCorrected(row, t, c) ==
    LET fill == TradeFill(t)
    IN  IF /\ fill \in DOMAIN row.fees
           /\ \/ ~Known(row.fees[fill].c)
              \/ c.status = "reported" /\ row.fees[fill].c.status = "allocated"
        THEN Changed(row, Put(row.fees, fill, Tracked(row.fees[fill].lots, c)), Only(fill, c))
        ELSE Unchanged(row)

\* The trade stands for synthetic fills.  Those resolved in full keep their
\* commission, and the rest of the operation's is spread over the others and
\* over what the trade published itself.
Attribution(row, t, c) ==
    LET matches   == row.matches[t]
        settled   == {i \in DOMAIN matches :
                         matches[i].fill \in DOMAIN row.fees /\ Resolved(row.fees[matches[i].fill])}
        residual  == Lots[{t}] - Total(matches)
        own       == IF residual > 0 THEN <<[fill |-> TradeFill(t), lots |-> residual]>> ELSE <<>>
        open      == At(matches, DOMAIN matches \ settled) \o own
        fixed     == Restrict(matches, settled)
        targets   == {m.fill : m \in Range(open) \cup Range(fixed)}
        kept(m)   == LET tracked == row.fees[m.fill]
                     IN  Allocate(tracked.c.amount, <<m.lots, tracked.lots - m.lots>>)[1]
    IN  [open |-> open, fixed |-> fixed, residual |-> residual,
         fits |-> \A i \in settled : fixed[i].lots <= row.fees[fixed[i].fill].lots,
         rest |-> c.amount - SumFunction([i \in settled |-> kept(fixed[i])]),
         status |-> IF Cardinality(targets) > 1 THEN "allocated" ELSE c.status]

\* Nothing is left to spread: only a trade that is one whole fill refines it.
FixedCorrected(row, t, c, a) ==
    LET whole == {m.fill : m \in {n \in Range(a.fixed) : n.lots = Lots[{t}]}}
        refined == {f \in whole : row.fees[f].lots = Lots[{t}] /\ c.status = "reported"}
        fill  == CHOOSE f \in refined : TRUE
    IN  IF refined /= {} /\ Cardinality(DOMAIN a.fixed) = 1
        THEN Changed(row, Put(row.fees, fill, Tracked(Lots[{t}], c)), Only(fill, c))
        ELSE Unchanged(row)

\* add_commission: an amount joins what a share of the fill already has.
Joined(old, new) ==
    IF ~Known(old) THEN new
    ELSE Commission(IF old.status = "reported" /\ new.status = "reported" THEN "reported" ELSE "allocated",
                    old.amount + new.amount)

\* A share of the fill's lots has its commission.
Partial(tracked) == Known(tracked.c) /\ tracked.resolved < tracked.lots

\* What the fill of entry e has after c: the matched lots join those it has.
Resolving(tracked, e, c) ==
    IF Known(tracked.c) /\ ~Partial(tracked) THEN tracked
    ELSE [tracked EXCEPT !.resolved = e.lots + (IF Known(tracked.c) THEN @ ELSE 0), !.c = Joined(@, c)]

\* mutation: the trade's own fill is resolved for all the lots of the trade
OwnResolved_Whole(t, a, c) == [Tracked(a.residual, c) EXCEPT !.resolved = Lots[{t}]]

\* What the trade published itself has after c.
OwnResolved(t, a, c) == Tracked(a.residual, c)

\* An unknown commission takes what was matched, whatever the fill has left;
\* one that is known in part fails when it would exceed the fill.
Spread(row, t, a) ==
    LET shares == Allocate(a.rest, [i \in DOMAIN a.open |-> a.open[i].lots])
        target(i) == a.open[i].fill
        spread(i) ==
            LET c == Commission(a.status, shares[i])
            IN  IF target(i) = TradeFill(t) THEN OwnResolved(t, a, c)
                ELSE Resolving(row.fees[target(i)], a.open[i], c)
        hit  == {i \in DOMAIN a.open : target(i) \in DOMAIN row.fees}
        fees == [f \in DOMAIN row.fees |->
                    IF \E i \in hit : target(i) = f
                    THEN spread(CHOOSE i \in hit : target(i) = f) ELSE row.fees[f]]
        whole == {f \in DOMAIN fees : Resolved(fees[f]) /\ \E i \in hit : target(i) = f}
    IN  [row |-> [row EXCEPT !.fees = IF a.residual > 0 THEN fees ELSE Drop(fees, {TradeFill(t)})],
         corrections |-> [f \in whole |-> fees[f].c],
         ok |-> \A i \in hit : target(i) /= TradeFill(t) /\ Partial(row.fees[target(i)])
                               => fees[target(i)].resolved <= fees[target(i)].lots]

Attributed(row, t, c) ==
    LET a    == Attribution(row, t, c)
        kept == [row EXCEPT !.matches[t] = <<>>]
    IN  IF ~Known(c) THEN Unchanged(row)
        ELSE IF row.matches[t] = <<>> THEN OwnCorrected(row, t, c)
        ELSE IF a.residual < 0 \/ (a.open /= <<>> /\ (~a.fits \/ a.rest < 0))
             THEN [Unchanged(row) EXCEPT !.ok = FALSE]
        ELSE IF a.open = <<>> THEN FixedCorrected(kept, t, c, a)
        ELSE Spread(kept, t, a)

\* project_managed_trade_fill_report_deferred: publication and attribution
\* happen together or not at all.
Projected(row, t, c) ==
    Attributed(IF t \in row.seen THEN row ELSE Traded(row, t, c), t, c)

-----------------------------------------------------------------------------
\* Snapshots and aliases

\* mutation: whatever a snapshot says is told
SnapshotTold_Always(row, t, c) ==
    TradeFill(t) \in DOMAIN row.fees => row.fees[TradeFill(t)].lots = Lots[{t}]

\* apply_snapshot_fill_provenance: whether a report snapshot's commission of
\* trade t is told, and the row that keeps it.
SnapshotTold(row, t, c) ==
    LET tracked == row.fees[TradeFill(t)]
    IN  TradeFill(t) \in DOMAIN row.fees =>
            /\ tracked.lots = Lots[{t}]
            /\ c = tracked.c \/ Rank(c.status) > Rank(tracked.c.status)

Refined(row, t, c) ==
    IF TradeFill(t) \in DOMAIN row.fees /\ Known(c)
    THEN [row EXCEPT !.fees = Put(@, TradeFill(t), Tracked(Lots[{t}], c))] ELSE row

\* tracked_commission_precedence
Stronger(x, y) ==
    \/ Rank(x.c.status) > Rank(y.c.status)
    \/ x.c.status = y.c.status /\ x.resolved > y.resolved
    \/ x.c.status = y.c.status /\ x.resolved = y.resolved /\ x.lots > y.lots

\* Queue a followed by the entries of b, one entry per fill, cut off at n lots.
MergedQueue(a, b, n) ==
    LET both == [i \in DOMAIN a |-> [a[i] EXCEPT !.lots = Most(@, LotsIn(b, a[i].fill))]]
                \o At(b, {i \in DOMAIN b : LotsIn(a, b[i].fill) = 0})
    IN  Leading(both, n)

\* synchronize_tracked_commission_quantity: a fill that keeps fewer lots keeps
\* that share of its commission.  kept is in parts of a lot, tracked.lots to the
\* lot, so that the amount is exact; the lots it covers are rounded down.
Resized(tracked, lots) ==
    LET kept == Least(tracked.resolved * lots, lots * tracked.lots)
        rest == tracked.resolved * tracked.lots - kept
    IN  IF lots >= tracked.lots THEN [tracked EXCEPT !.lots = lots]
        ELSE [lots |-> lots, resolved |-> kept \div tracked.lots,
              c |-> IF Known(tracked.c)
                    THEN Commission(tracked.c.status, Allocate(tracked.c.amount, <<kept, rest>>)[1])
                    ELSE tracked.c]

\* A queue entry e of the alias that the merged queue q left out stands for an
\* entry of the same size: its commission moves there if it is the stronger.
Absorb(acc, e, q, alias) ==
    LET twins == {i \in DOMAIN q : q[i].lots = e.lots /\ q[i].fill \notin acc.used}
        twin  == q[CHOOSE i \in twins : \A j \in twins : i <= j].fill
        mine  == alias.fees[e.fill]
        moved == IF e.fill \in DOMAIN alias.fees /\ twin \in DOMAIN acc.fees /\ Known(mine.c)
                    /\ Stronger([mine EXCEPT !.lots = e.lots], acc.fees[twin])
                 THEN Put(acc.fees, twin, [lots |-> acc.fees[twin].lots, c |-> mine.c,
                                           resolved |-> Least(mine.resolved, acc.fees[twin].lots)])
                 ELSE acc.fees
    IN  IF e.fill \in {q[i].fill : i \in DOMAIN q} THEN acc
        ELSE IF twins = {} THEN [acc EXCEPT !.fees = Drop(@, {e.fill})]
        ELSE [fees |-> Drop(moved, {e.fill}), used |-> acc.used \cup {twin}]

\* mutation: the trades seen under the alias are forgotten
Merged_ForgetsTrades(row, alias) ==
    [row EXCEPT !.cum = Most(@, alias.cum), !.emitted = Most(@, alias.emitted),
                !.unmatched = Most(@, alias.unmatched),
                !.queue = MergedQueue(@, alias.queue, Most(row.unmatched, alias.unmatched))]

\* merge_fill_projection_alias: the row of an alias joins the canonical one.
Merged(row, alias) ==
    LET queue == MergedQueue(row.queue, alias.queue, Most(row.unmatched, alias.unmatched))
        fees == [f \in DOMAIN row.fees \cup DOMAIN alias.fees |->
                    IF f \notin DOMAIN row.fees
                       \/ (f \in DOMAIN alias.fees /\ Stronger(alias.fees[f], row.fees[f]))
                    THEN alias.fees[f] ELSE row.fees[f]]
        sized == [f \in DOMAIN fees |-> IF LotsIn(queue, f) > 0
                                       THEN Resized(fees[f], LotsIn(queue, f)) ELSE fees[f]]
        lots(t) == Most(Total(row.matches[t]), Total(alias.matches[t]))
    IN  [cum |-> Most(row.cum, alias.cum), emitted |-> Most(row.emitted, alias.emitted),
         notional |-> Most(row.notional, alias.notional),
         unmatched |-> Most(row.unmatched, alias.unmatched),
         seen |-> row.seen \cup alias.seen, queue |-> queue,
         matches |-> [t \in Trades |-> MergedQueue(row.matches[t], alias.matches[t], lots(t))],
         fees |-> FoldLeft(LAMBDA acc, e : Absorb(acc, e, queue, alias),
                           [fees |-> sized, used |-> {}], alias.queue).fees]
=============================================================================
