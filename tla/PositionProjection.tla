--------------------------- MODULE PositionProjection ---------------------------
(***************************************************************************)
(* The positions of an account, told by two streams and by queries that    *)
(* know nothing of each other: the projection that keeps an older answer   *)
(* from being shown after a newer one, the watermarks of the two sources   *)
(* and the flattening of positions a complete snapshot no longer has       *)
(* (execution/projections.rs, client/streams.rs, client/nautilus.rs).      *)
(*                                                                         *)
(* The specification's own names begin with Positions, so that one module  *)
(* can hold the theorems about the two parts of an account (AccountProofs).*)
(***************************************************************************)
EXTENDS Integers, Sequences

CONSTANTS
    Instruments,
    Quantities,     \* what a position can be, 0 for none
    MaxTrades, MaxFaults, MaxQueries, MaxTime  \* bounds

ASSUME PositionsAssumption ==
    /\ 0 \in Quantities
    /\ MaxTrades \in Nat /\ MaxFaults \in Nat /\ MaxQueries \in Nat /\ MaxTime \in Nat

VARIABLES
    now,         \* the client's clock: two stamps are never the same
    held,        \* the positions at the broker
    open,        \* which streams are open
    wire,        \* per stream, the messages on their way
    query,       \* the position query under way
    projection,  \* position_projection
    shown,       \* the last report of each position that the host was told
    trades, faults, queries,  \* what has happened so far
    unsure       \* history: positions whose last report was refused, kept back or unopposed

broker   == <<held, open, wire>>
counters == <<trades, faults, queries>>
positionVars == <<now, broker, query, projection, shown, counters, unsure>>

\* TbankPositionProjectionSource
Sources == {"securities", "portfolio"}

Unseen  == [seen |-> FALSE, source |-> "none", flat |-> TRUE, ts |-> 0,
            mark |-> [s \in Sources |-> 0]]
NoQuery == [pc |-> "idle", ts |-> 0, wanted |-> {}, mass |-> FALSE, held |-> <<>>]

PositionsInit ==
    /\ now = 0
    /\ held \in [Instruments -> Quantities]
    /\ open = [s \in Sources |-> FALSE]
    /\ wire = [s \in Sources |-> <<>>]
    /\ query = NoQuery
    /\ projection = [i \in Instruments |-> Unseen]
    /\ shown = [i \in Instruments |-> 0]
    /\ trades = 0 /\ faults = 0 /\ queries = 0 /\ unsure = {}

-----------------------------------------------------------------------------
\* The broker: a snapshot lists the positions there are, and a change of one
\* position is one message of the positions stream.

Snapshot(h) == [whole |-> TRUE, reports |-> [i \in {j \in Instruments : h[j] # 0} |-> h[i]]]
Change(i, q) == [whole |-> FALSE, reports |-> [j \in {i} |-> q]]

Trade(i, q) ==
    /\ trades < MaxTrades /\ held[i] # q
    /\ held' = [held EXCEPT ![i] = q]
    /\ wire' = [s \in Sources |->
                  IF ~open[s] THEN wire[s]
                  ELSE Append(wire[s], IF s = "portfolio" THEN Snapshot(held') ELSE Change(i, q))]
    /\ trades' = trades + 1
    /\ UNCHANGED <<now, open, query, projection, shown, faults, queries, unsure>>

\* A reopened stream begins with all positions (with_initial_positions).
OpenStream(s) ==
    /\ ~open[s]
    /\ open' = [open EXCEPT ![s] = TRUE]
    /\ wire' = [wire EXCEPT ![s] = <<Snapshot(held)>>]
    /\ UNCHANGED <<now, held, query, projection, shown, counters, unsure>>

\* The stream ends, or metadata cannot be loaded for a message in hand.
Break(s) ==
    /\ open[s] /\ faults < MaxFaults
    /\ open' = [open EXCEPT ![s] = FALSE]
    /\ wire' = [wire EXCEPT ![s] = <<>>]
    /\ faults' = faults + 1
    /\ UNCHANGED <<now, held, query, projection, shown, trades, queries, unsure>>

-----------------------------------------------------------------------------
\* The projection

Later(x, y) == IF x < y THEN y ELSE x

Advance(p, s, ts) == [p EXCEPT !.mark[s] = Later(@, ts)]

\* mutation: a source is compared with its own reports only.
Accepts_OfOwnSource(p, s, ts) == p.seen => p.mark[s] <= ts

Accepts(p, s, ts) ==
    p.seen => /\ p.ts <= ts /\ p.mark[s] <= ts
              /\ ~(p.ts = ts /\ s = "securities" /\ p.source = "portfolio")

Projected(p, s, ts, q) ==
    Advance([p EXCEPT !.seen = TRUE, !.source = s, !.flat = q = 0, !.ts = ts], s, ts)

Accepted(s, ts, reports) == {i \in DOMAIN reports : Accepts(projection[i], s, ts)}

\* Positions of this source that a complete snapshot no longer has.
Missing(s, ts, reports) ==
    {i \in Instruments \ DOMAIN reports :
        LET p == projection[i] IN p.seen /\ p.source = s /\ ~p.flat /\ p.ts <= ts}

\* Every position advances the source's watermark, and a flat one its time.
AfterSnapshot(i, p, s, ts, reports) ==
    LET older == p.source = s /\ p.flat /\ i \notin DOMAIN reports /\ p.ts < ts IN
    IF ~p.seen THEN p
    ELSE Advance([p EXCEPT !.ts = IF older THEN ts ELSE @], s, ts)

Reconcile(s, ts, reports) ==
    LET next(i) == IF i \in Accepted(s, ts, reports) THEN Projected(projection[i], s, ts, reports[i])
                   ELSE IF i \in Missing(s, ts, reports) THEN Projected(projection[i], s, ts, 0)
                   ELSE projection[i]
    IN projection' = [i \in Instruments |-> AfterSnapshot(i, next(i), s, ts, reports)]

Record(s, ts, reports) ==
    projection' = [i \in Instruments |->
                     IF i \in Accepted(s, ts, reports) THEN Projected(projection[i], s, ts, reports[i])
                     ELSE projection[i]]

\* A snapshot of which something was skipped is not complete.
ApplySnapshot(s, ts, whole, reports) ==
    IF whole THEN Reconcile(s, ts, reports) ELSE Record(s, ts, reports)

\* The positions that are reported to the host after that.
Told(s, ts, whole, reports) ==
    Accepted(s, ts, reports) \cup (IF whole THEN Missing(s, ts, reports) ELSE {})

Show(who, reports) ==
    shown' = [i \in Instruments |->
                IF i \notin who THEN shown[i] ELSE IF i \in DOMAIN reports THEN reports[i] ELSE 0]

-----------------------------------------------------------------------------
\* The streams

Without(f, S) == [i \in DOMAIN f \ S |-> f[i]]

\* The positions of a message whose identity turns out not to be trusted.
Refusals(m) == SUBSET DOMAIN m.reports

\* A message, of which positions are refused, or which says itself that some
\* are missing (limits_loading_in_progress).  It is stamped when it is published.
Receive(s) ==
    /\ wire[s] # <<>> /\ now < MaxTime
    /\ now' = now + 1
    /\ wire' = [wire EXCEPT ![s] = Tail(@)]
    /\ LET m == Head(wire[s]) IN
       \E skipped \in Refusals(m), partial \in BOOLEAN :
         LET reports == Without(m.reports, skipped)
             whole   == m.whole /\ ~partial
             told    == Told(s, now', whole, reports)
         IN /\ skipped # {} => partial
            /\ partial => faults < MaxFaults /\ (m.whole \/ skipped # {})
            /\ faults' = IF partial THEN faults + 1 ELSE faults
            /\ ApplySnapshot(s, now', whole, reports)
            /\ Show(told, reports)
            /\ unsure' = (unsure \ told)
                         \cup (IF m.whole /\ partial THEN Instruments \ DOMAIN reports ELSE skipped)
    /\ UNCHANGED <<held, open, query, trades, queries>>

-----------------------------------------------------------------------------
\* generate_position_status_reports, of one instrument or of all, and the
\* positions of generate_mass_status

AskFor(wanted, mass) ==
    /\ query = NoQuery /\ queries < MaxQueries /\ now < MaxTime
    /\ now' = now + 1 /\ queries' = queries + 1
    /\ query' = [NoQuery EXCEPT !.pc = "asked", !.ts = now', !.wanted = wanted, !.mass = mass]
    /\ UNCHANGED <<broker, projection, shown, trades, faults, unsure>>

Ask(wanted) == AskFor(wanted, FALSE)

\* The mass status takes its time before it reads the orders and the fills, ...
AskMass == AskFor(Instruments, TRUE)

\* ... and the positions after them.
Read ==
    /\ query.pc = "asked"
    /\ query' = [query EXCEPT !.pc = "read", !.held = held]
    /\ UNCHANGED <<now, broker, projection, shown, counters, unsure>>

\* The answer is applied as of the time the question was asked; reports that
\* were not asked for are applied and not returned.
Apply(skipped) ==
    LET reports == Without(Snapshot(query.held).reports, skipped)
        whole   == skipped = {}
        told    == Told("securities", query.ts, whole, reports)
    IN /\ ApplySnapshot("securities", query.ts, whole, reports)
       /\ Show(told \cap query.wanted, reports)
       /\ unsure' = unsure \cup {i \in told : ~projection[i].seen \/ i \notin query.wanted}
       /\ query' = NoQuery
       /\ UNCHANGED <<now, broker, trades, queries>>

Answer == query.pc = "read" /\ ~query.mass /\ Apply({}) /\ UNCHANGED faults

\* Only the mass status takes an answer of which something was skipped.
AnswerMass ==
    /\ query.pc = "read" /\ query.mass
    /\ \E skipped \in SUBSET DOMAIN Snapshot(query.held).reports :
         /\ skipped # {} => faults < MaxFaults
         /\ faults' = IF skipped = {} THEN faults ELSE faults + 1
         /\ Apply(skipped)

\* A read fails, or the report query gets an incomplete answer and refuses it.
Fail ==
    /\ query.pc # "idle" /\ faults < MaxFaults
    /\ query' = NoQuery /\ faults' = faults + 1
    /\ UNCHANGED <<now, broker, projection, shown, trades, queries, unsure>>

-----------------------------------------------------------------------------

PositionsNext ==
    \/ \E i \in Instruments, q \in Quantities : Trade(i, q)
    \/ \E s \in Sources : OpenStream(s) \/ Break(s) \/ Receive(s)
    \/ \E i \in Instruments : Ask({i})
    \/ Ask(Instruments) \/ AskMass \/ Read \/ Answer \/ AnswerMass \/ Fail

PositionsSpec == PositionsInit /\ [][PositionsNext]_positionVars

-----------------------------------------------------------------------------

\* Type invariant; no time or watermark of the projection is ahead of the clock.
PositionsTypeOK ==
    /\ now \in 0..MaxTime /\ held \in [Instruments -> Quantities]
    /\ open \in [Sources -> BOOLEAN] /\ \A s \in Sources : wire[s] # <<>> => open[s]
    /\ query.pc \in {"idle", "asked", "read"} /\ query.ts <= now
    /\ \A i \in Instruments :
         /\ projection[i].ts <= now /\ \A s \in Sources : projection[i].mark[s] <= now
         /\ projection[i].seen <=> projection[i].source \in Sources
    /\ shown \in [Instruments -> Quantities] /\ unsure \subseteq Instruments
    /\ trades \in 0..MaxTrades /\ faults \in 0..MaxFaults /\ queries \in 0..MaxQueries

\* Nothing is on its way.
Quiet == query = NoQuery /\ \A s \in Sources : open[s] /\ wire[s] = <<>>

\* When both streams are open and read to their end, the host knows every
\* position as it is, a closed one as flat, in whatever order the streams and
\* the answers came and however often a stream was interrupted.  Set aside is a
\* position whose last report was refused, kept back by a query for another
\* instrument, or which only an answer as old as its question has ever shown
\* (position_projection, apply_position_snapshot).
PositionsSettle == Quiet => \A i \in Instruments \ unsure : shown[i] = held[i]

=============================================================================
