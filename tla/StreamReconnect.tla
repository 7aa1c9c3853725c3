---------------------------- MODULE StreamReconnect ----------------------------
(***************************************************************************)
(* The order-state stream across interruptions: the gap that is owed a     *)
(* reconciliation, the reconciliation before a reopened stream is consumed *)
(* and beside it when it keeps failing, and the projection that keeps an   *)
(* older order state from being shown after a newer one                    *)
(* (execution/client.rs, client/reconciliation.rs, projections.rs).  The   *)
(* trades stream runs the same loop; its fills are in UnresolvedFills and  *)
(* FillLedger.                                                             *)
(***************************************************************************)
EXTENDS Integers, Sequences

CONSTANTS
    Orders,
    Stops,      \* the orders that are stop orders
    Lots,       \* lots of an order
    Overlap,    \* RECONNECT_RECONCILIATION_OVERLAP_NANOS
    Attempts,   \* RECONNECT_RECONCILIATION_MAX_ATTEMPTS
    Midnight,   \* when the day of the broker's order history begins
    MaxEvents, MaxTime, MaxFaults  \* bounds

ASSUME ReconnectAssumption ==
    /\ Stops \subseteq Orders /\ Lots \in Nat \ {0} /\ Overlap \in Nat
    /\ Attempts \in Nat \ {0} /\ Midnight \in Nat
    /\ MaxEvents \in Nat /\ MaxTime \in Nat /\ MaxFaults \in Nat

VARIABLES
    now,        \* the client's clock
    log,        \* the order states of the broker, in order
    wire,       \* the events on their way on the stream
    cut,        \* the connection is dead, and the client has not noticed
    pc,         \* the task: "closed", "reconciling" or "live"
    recovery,   \* recovery_from, or NoGap
    observed,   \* order_last_observed_unix_nanos
    attempt,    \* failed attempts of the reconciliation under way
    snapshot,   \* what it has read: how much of the log was seen of each order,
                \* through its order state or its stop
    shown,      \* order_status_projection: the last report sent
    faults,     \* failures so far
    told,       \* history: the events received or read and published
    abandoned,  \* history: events of a gap that was given up
    unheard     \* history: the first events, which came before the stream was
                \* first opened and lie in no gap; NotOpened before that

broker  == <<log, wire, cut>>
gap     == <<recovery, observed>>
history == <<told, abandoned, unheard>>
vars == <<now, broker, pc, gap, attempt, snapshot, shown, faults, history>>

NoGap      == -1 - Overlap
NotOpened  == -1
NotSeen    == [through |-> "none", upto |-> 0]
NoSnapshot == [stage |-> "none", at |-> 0, seen |-> [o \in Orders |-> NotSeen]]
Unseen     == [status |-> "none", filled |-> 0, ts |-> 0]

-----------------------------------------------------------------------------
\* The broker's orders

Terminal == {"filled", "canceled"}

\* The broker has two ways to end an order that has traded in part: it is
\* "canceled", or remains a partial fill with a completion time: "lapsed".
Ends == Terminal \cup {"lapsed"}

Report(e, ts) == [status |-> e.status, filled |-> e.filled, ts |-> ts]
Placed(o)     == [order |-> o, status |-> "accepted", filled |-> 0, at |-> 0]

\* The state of an order after the first n events.
StateAt(o, n) ==
    LET past == {k \in 1..n : log[k].order = o} IN
    IF past = {} THEN Placed(o) ELSE log[CHOOSE k \in past : \A j \in past : j <= k]

\* A stop is triggered, an order trades a lot or is cancelled.
After(s) ==
    LET live == s.order \notin Stops \/ s.status # "accepted" IN
    IF s.status \in Ends THEN {}
    ELSE {[s EXCEPT !.status = "canceled"]}
         \cup (IF s.filled > 0 THEN {[s EXCEPT !.status = "lapsed"]} ELSE {})
         \cup (IF live THEN {[s EXCEPT !.filled = @ + 1,
                                       !.status = IF s.filled + 1 = Lots THEN "filled" ELSE "partial"]}
                       ELSE {[s EXCEPT !.status = "triggered"]})

Happen(o) ==
    /\ Len(log) < MaxEvents
    /\ \E s \in After(StateAt(o, Len(log))) : log' = Append(log, [s EXCEPT !.at = now])
    /\ wire' = IF pc = "closed" \/ cut THEN wire ELSE Append(wire, Len(log'))
    /\ UNCHANGED <<now, cut, pc, gap, attempt, snapshot, shown, faults, history>>

Cut ==
    /\ pc # "closed" /\ ~cut /\ faults < MaxFaults
    /\ cut' = TRUE /\ faults' = faults + 1
    /\ UNCHANGED <<now, log, wire, pc, gap, attempt, snapshot, shown, history>>

OnWire == {wire[k] : k \in 1..Len(wire)}

\* An event is delivered, or the stream breaks, before the overlap is over, and
\* so is what a reconciliation has begun to read published.
Tick ==
    /\ now < MaxTime
    /\ pc = "live" /\ recovery = NoGap => \A n \in OnWire : now < log[n].at + Overlap
    /\ snapshot # NoSnapshot => now < snapshot.at + Overlap
    /\ now' = now + 1
    /\ UNCHANGED <<broker, pc, gap, attempt, snapshot, shown, faults, history>>

\* The task is spawned: its stream has yet to be opened, and owes no gap.
Init ==
    /\ now = 0 /\ log = <<>> /\ wire = <<>> /\ cut = FALSE
    /\ pc = "closed" /\ recovery = NoGap /\ observed = 0
    /\ attempt = 0 /\ snapshot = NoSnapshot
    /\ shown = [o \in Orders |-> Unseen]
    /\ faults = 0 /\ told = {} /\ abandoned = {} /\ unheard = NotOpened

-----------------------------------------------------------------------------
\* project_order_status_report

Rank(status) == CASE status = "accepted" -> 1 [] status = "triggered" -> 2
                  [] status = "partial" -> 3 [] status \in Terminal -> 4 [] OTHER -> 0

Later(x, y) == IF x < y THEN y ELSE x

\* mutation: only the time of a report tells it from an older one.
Drops_ByTime(old, new) ==
    \/ new.ts < old.ts
    \/ new.status = old.status /\ new.filled <= old.filled

Drops(old, new) ==
    LET progress == Rank(new.status) > Rank(old.status) \/ new.filled > old.filled IN
    \/ Rank(new.status) < Rank(old.status)
    \/ ~progress /\ new.ts < old.ts
    \/ new.status = old.status /\ new.filled <= old.filled
    \/ old.status \in Terminal /\ (\/ new.filled <= old.filled
                                   \/ new.status \notin {old.status, "filled"})

Project(old, new) ==
    IF old # Unseen /\ Drops(old, new) THEN old
    ELSE [new EXCEPT !.ts = IF old = Unseen THEN @ ELSE Later(@, old.ts)]

-----------------------------------------------------------------------------
\* publish_order_state_stream

\* A streamed report carries the completion time, and with it a partial fill is
\* an end; a queried one carries the order's date, and a partial fill stays one.
StreamReport(e) ==
    IF e.status = "lapsed" THEN Report([e EXCEPT !.status = "canceled"], 1)
    ELSE Report(e, IF e.status \in Terminal THEN 1 ELSE 0)

QueryReport(e) ==
    IF e.status = "lapsed" THEN Report([e EXCEPT !.status = "partial"], 0) ELSE Report(e, 0)

Receive ==
    /\ pc = "live" /\ wire # <<>>
    /\ LET e == log[Head(wire)] IN
       shown' = [shown EXCEPT ![e.order] = Project(@, StreamReport(e))]
    /\ told' = told \cup {Head(wire)}
    /\ wire' = Tail(wire) /\ observed' = now
    /\ UNCHANGED <<now, log, cut, pc, recovery, attempt, snapshot, faults, abandoned, unheard>>

\* A gap that is owed already keeps its beginning (get_or_insert_with).
Gap(since) == IF recovery = NoGap THEN since - Overlap ELSE recovery

\* mutation: a second interruption begins the gap anew.
Break_MovesGap ==
    /\ pc = "live" /\ (cut \/ faults < MaxFaults)
    /\ \/ UNCHANGED observed
       \/ wire # <<>> /\ observed' = now
    /\ recovery' = observed' - Overlap
    /\ pc' = "closed" /\ wire' = <<>> /\ cut' = FALSE
    /\ attempt' = 0 /\ snapshot' = NoSnapshot /\ faults' = IF cut THEN faults ELSE faults + 1
    /\ UNCHANGED <<now, log, shown, history>>

\* mutation: a stream that ends without an error owes nothing.
Break_CleanEnd ==
    /\ pc = "live" /\ (cut \/ faults < MaxFaults)
    /\ \/ UNCHANGED <<recovery, observed>>
       \/ wire # <<>> /\ observed' = now /\ recovery' = Gap(observed')
    /\ pc' = "closed" /\ wire' = <<>> /\ cut' = FALSE
    /\ attempt' = 0 /\ snapshot' = NoSnapshot /\ faults' = IF cut THEN faults ELSE faults + 1
    /\ UNCHANGED <<now, log, shown, history>>

\* The stream ends, fails, or an event's instrument cannot be loaded: it is
\* observed and lost.  A reconciliation running beside the stream is dropped.
Break ==
    /\ pc = "live" /\ (cut \/ faults < MaxFaults)
    /\ \/ UNCHANGED observed
       \/ wire # <<>> /\ observed' = now
    /\ recovery' = Gap(observed')
    /\ pc' = "closed" /\ wire' = <<>> /\ cut' = FALSE
    /\ attempt' = 0 /\ snapshot' = NoSnapshot /\ faults' = IF cut THEN faults ELSE faults + 1
    /\ UNCHANGED <<now, log, shown, history>>

\* An opened stream is consumed at once unless a gap is owed.  None is when the
\* first attempt to open it succeeds: what came before lies in no gap.
Open ==
    /\ pc = "closed"
    /\ pc' = IF recovery = NoGap THEN "live" ELSE "reconciling"
    /\ unheard' = IF unheard # NotOpened THEN unheard ELSE IF recovery = NoGap THEN Len(log) ELSE 0
    /\ attempt' = 0 /\ snapshot' = NoSnapshot
    /\ UNCHANGED <<now, broker, gap, shown, faults, told, abandoned>>

\* A first stream that cannot be opened owes a gap, too; a reopened one owes it
\* already.
OpenFails ==
    /\ pc = "closed" /\ recovery = NoGap /\ faults < MaxFaults
    /\ recovery' = Gap(observed) /\ faults' = faults + 1
    /\ UNCHANGED <<now, broker, pc, observed, attempt, snapshot, shown, history>>

-----------------------------------------------------------------------------
\* reconcile_after_stream_reopen, and reconcile_degraded_stream_until_complete
\* beside a live stream that still owes its gap

Reconciles == pc # "closed" /\ recovery # NoGap

\* query_orders_since refuses a gap that begins before the current day.
TooOld == recovery < Midnight /\ Midnight <= now

Triggered(o, n) == \E k \in 1..n : log[k].order = o /\ log[k].status = "triggered"

\* An order, or a stop's activated child, has an order state of its own.
HasOrderState(o, n) == o \notin Stops \/ Triggered(o, n)

Through(list) == [through |-> list, upto |-> Len(log)]
SeenThrough(list) == {o \in Orders : snapshot.seen[o].through = list}

\* An answer that holds the orders os.
Reading(stage, os, list) ==
    [snapshot EXCEPT !.stage = stage,
                     !.seen = [o \in Orders |-> IF o \in os THEN Through(list)
                                              ELSE snapshot.seen[o]]]

ReadStage(from, next) ==
    /\ Reconciles /\ snapshot.stage = from
    /\ snapshot' = next
    /\ UNCHANGED <<now, broker, pc, gap, attempt, shown, faults, history>>

\* The orders since the gap began, and the known ones that are not among them.
ReadOrders ==
    /\ ~TooOld
    /\ ReadStage("none", [stage |-> "orders", at |-> now,
                          seen |-> [o \in Orders |-> IF HasOrderState(o, Len(log))
                                                     THEN Through("order") ELSE NotSeen]])

\* Then the active stops, ...
ReadActiveStops ==
    ReadStage("orders", Reading("active",
        {o \in Stops : snapshot.seen[o] = NotSeen /\ StateAt(o, Len(log)).status = "accepted"},
        "stop"))

\* ... the stops of any status in the range, and if a known stop is in neither
\* answer, those of all time.  Which stops the range holds is the broker's affair.
ReadStops ==
    \E ranged \in SUBSET SeenThrough("stop") :
        ReadStage("active", Reading("stops", ranged \cup SeenThrough("none"), "stop"))

\* mutation: the activated children are not asked for.
MissingChildren_None == {}

\* The children of the activated stops that the orders did not have.
MissingChildren == {o \in SeenThrough("stop") : Triggered(o, snapshot.seen[o].upto)}

ReadChildren == ReadStage("stops", Reading("read", MissingChildren, "order"))

\* A stop by itself says that it was triggered, not what became of its child.
StopState(o, n) ==
    IF Triggered(o, n) THEN [Placed(o) EXCEPT !.status = "triggered"] ELSE StateAt(o, n)

\* An order state that was read; an activated child's speaks for its stop.
OrderReport(o, n) == QueryReport(StateAt(o, n))

\* Orders, activated children of stops and stops, each in one report.
Reported(o) ==
    LET s == snapshot.seen[o] IN
    IF s.through = "order" THEN OrderReport(o, s.upto) ELSE QueryReport(StopState(o, s.upto))

Known ==
    {n \in 1..Len(log) : n <= snapshot.seen[log[n].order].upto /\ log[n].at >= recovery}

\* publish_reconnect_snapshot, then apply_reconnect_reconciliation_outcome.
Complete ==
    /\ Reconciles /\ snapshot.stage = "read"
    /\ shown' = [o \in Orders |-> Project(shown[o], Reported(o))]
    /\ told' = told \cup Known
    /\ recovery' = NoGap /\ observed' = now
    /\ pc' = "live" /\ attempt' = 0 /\ snapshot' = NoSnapshot
    /\ UNCHANGED <<now, broker, faults, abandoned, unheard>>

\* The last attempt leaves the stream degraded: it is consumed while the
\* reconciliation is tried again.
FailTransiently ==
    /\ Reconciles /\ ~TooOld /\ faults < MaxFaults
    /\ attempt' = IF attempt + 1 = Attempts THEN 0 ELSE attempt + 1
    /\ pc' = IF attempt + 1 = Attempts THEN "live" ELSE pc
    /\ snapshot' = NoSnapshot /\ faults' = faults + 1
    /\ UNCHANGED <<now, broker, gap, shown, history>>

\* A permanent failure ends the attempts; beside the live stream it also ends
\* the gap, with nothing reconciled.
EndForGood ==
    /\ pc' = "live" /\ attempt' = 0 /\ snapshot' = NoSnapshot
    /\ IF pc = "reconciling" THEN UNCHANGED <<gap, abandoned>>
       ELSE /\ recovery' = NoGap /\ observed' = now
            /\ abandoned' = abandoned \cup ((1..Len(log)) \ told)
    /\ UNCHANGED <<now, broker, shown, told, unheard>>

FailForGood ==
    /\ Reconciles /\ faults < MaxFaults /\ faults' = faults + 1
    /\ EndForGood

Refuse ==
    /\ Reconciles /\ TooOld /\ snapshot = NoSnapshot
    /\ EndForGood /\ UNCHANGED faults

-----------------------------------------------------------------------------

Next ==
    \/ Tick \/ Cut \/ \E o \in Orders : Happen(o)
    \/ Receive \/ Break \/ Open \/ OpenFails
    \/ ReadOrders \/ ReadActiveStops \/ ReadStops \/ ReadChildren
    \/ Complete \/ FailTransiently \/ FailForGood \/ Refuse

\* The task is scheduled, a stream can be opened and a call is answered in the
\* end; failures are bounded by MaxFaults.
Fairness ==
    /\ WF_vars(Receive) /\ WF_vars(Open)
    /\ WF_vars(ReadOrders \/ Refuse \/ ReadActiveStops \/ ReadStops \/ ReadChildren)
    /\ WF_vars(Complete)

Spec == Init /\ [][Next]_vars /\ Fairness

-----------------------------------------------------------------------------

\* Type invariant; once it has been opened, a stream that is not consumed owes its
\* gap.
TypeOK ==
    /\ now \in 0..MaxTime /\ observed \in 0..MaxTime /\ faults \in 0..MaxFaults
    /\ pc \in {"closed", "reconciling", "live"}
    /\ recovery \in {NoGap} \cup (-Overlap)..MaxTime /\ cut \in BOOLEAN
    /\ unheard \in {NotOpened} \cup 0..Len(log)
    /\ (IF unheard = NotOpened THEN pc = "closed" ELSE pc = "live" \/ recovery # NoGap)
    /\ attempt \in 0..Attempts - 1
    /\ snapshot \in [stage : {"none", "orders", "active", "stops", "read"}, at : 0..MaxTime,
                     seen : [Orders -> [through : {"none", "order", "stop"}, upto : 0..Len(log)]]]
    /\ told \subseteq 1..Len(log) /\ abandoned \subseteq 1..Len(log) /\ OnWire \subseteq 1..Len(log)
    /\ \A o \in Orders : shown[o].status \in {"none", "accepted", "triggered", "partial"} \cup Terminal

\* An event the client has not got and that is not on its way lies in the gap
\* that is owed, or will be when the dead stream is noticed or the first one
\* fails to open: however often the stream breaks or a reconciliation fails, the
\* next one will read it.  Set aside are the events before the stream was first
\* opened, when that succeeded at once (recovery_from is None then, and nothing is
\* reconciled), and a gap that was given up after a permanent failure beside the
\* live stream (recovery_from, RECONNECT_RECONCILIATION_OVERLAP_NANOS).
GapIsCovered ==
    \A n \in (1..Len(log)) \ (told \cup OnWire \cup abandoned \cup 1..unheard) :
        (recovery # NoGap \/ cut \/ unheard = NotOpened) /\ Gap(observed) <= log[n].at

\* What is shown of an order never goes back: neither a snapshot read before the
\* stream moved on nor an event that a snapshot has overtaken takes back a
\* status, a fill or an end (project_order_status_report).
NeverBackwards ==
    [][\A o \in Orders :
         /\ Rank(shown'[o].status) >= Rank(shown[o].status)
         /\ shown'[o].filled >= shown[o].filled
         /\ shown[o].status \in Terminal => shown'[o].status = shown[o].status]_vars

\* The end that event n is, as the host may be told of it.
IsShown(n) ==
    LET e == log[n] IN
    /\ n \in told /\ shown[e.order].filled = e.filled
    /\ \/ shown[e.order].status = StreamReport(e).status
       \/ shown[e.order].status = QueryReport(e).status

\* The end of an order is shown in the end, whether it was streamed or missed.
\* Only on the stream, though, is a partial fill that lapsed an end: one that a
\* reconciliation reads is told with its fills and stays partially filled.  Set
\* aside are the events of GapIsCovered that nothing brings, and a connection that
\* is dead unnoticed (publish_order_state_stream, publish_reconnect_snapshot,
\* nautilus_order_status).
EveryEndIsShown ==
    \A n \in 1..MaxEvents :
        (n <= Len(log) /\ log[n].status \in Ends)
            ~> \/ IsShown(n) \/ n \in abandoned \cup 1..unheard \/ cut

=============================================================================
