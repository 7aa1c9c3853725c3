---------------------------- MODULE UnresolvedFills ----------------------------
(***************************************************************************)
(* Trades whose order the client does not know yet.  The trades stream     *)
(* keeps them in a buffer per venue order and starts a reconciliation task *)
(* that asks the broker what the order is; whoever learns that publishes   *)
(* the buffer: the task, the order-state stream, the reconciliation of the *)
(* order or of its stop, or a reconnect snapshot                           *)
(* (execution/client/reconciliation.rs, streams.rs).                       *)
(*                                                                         *)
(* Publication runs under the lifecycle gate; the stream's buffering and   *)
(* the end of a task only take the lock of the buffer, so both may fall    *)
(* between taking a buffer out and putting back what could not be          *)
(* projected.  What a projected fill becomes is the module FillLedger.     *)
(***************************************************************************)
EXTENDS Naturals, FiniteSets

CONSTANTS
    Trades,
    Orders,
    OrderOf,      \* the venue order of a trade
    NoOrder,
    PerOrder,     \* MAX_UNRESOLVED_TRADE_FILLS_PER_ORDER
    InAll,        \* MAX_UNRESOLVED_TRADE_FILLS
    Attempts,     \* RECONCILIATION_RETRY_ATTEMPTS
    MaxMessages,  \* bound on the trades the stream delivers, repetitions included
    MaxEvents,    \* bound on the order-state events
    MaxFaults,    \* bound on failed projections and failed StopOrders lookups
    MaxSessions

ASSUME UnresolvedAssumption ==
    /\ OrderOf \in [Trades -> Orders]
    /\ NoOrder \notin Orders
    /\ IsFiniteSet(Trades)
    /\ PerOrder \in Nat /\ InAll \in Nat /\ Attempts \in Nat \ {0}
    /\ MaxMessages \in Nat /\ MaxEvents \in Nat /\ MaxFaults \in Nat /\ MaxSessions \in Nat

VARIABLES
    active,    \* lifecycle_active
    known,     \* the orders with an identity in the broker order index
    buffer,    \* unresolved_trade_fills
    ledger,    \* the trades fill_projection has recorded and published
    gate,      \* publication_gate: its holder, the order and the trades in hand
    trades,    \* the handler of the trades stream
    orders,    \* the order whose event the order-state stream publishes, or NoOrder
    task,      \* the unresolved-trade task of an order ("exchange:" key)
    helper,    \* the regular or stop-child reconciliation of an order
    owed,      \* recovery_from of the trades stream is set
    snapshot,  \* the trades of a reconnect snapshot being prepared, if any
    session, messages, events, faults,  \* bounds
    heard,     \* history: the trades the session has been told of
    stranded,  \* history: orders whose fills were left without a task
    skipped,   \* history: trades a snapshot could not project
    abandoned  \* history: trades that only a gap held that was given up

bounds  == <<session, messages, events, faults>>
history == <<heard, stranded, skipped, abandoned>>
streams == <<trades, orders, owed, snapshot>>
vars == <<active, known, buffer, ledger, gate, streams, task, helper, bounds, history>>

Publishers == {"task", "helper", "orders"}
Of(S, o)  == {t \in S : OrderOf[t] = o}
FreeGate  == [by |-> "nobody", order |-> NoOrder, rest |-> {}]
GateFree  == gate = FreeGate
NoTask    == [pc |-> "none", attempt |-> 0, final |-> FALSE]
Listening == [pc |-> "wait", trade |-> {}, tight |-> FALSE]
Down      == [pc |-> "down", trade |-> {}, tight |-> FALSE]
NoSnapshot == [some |-> FALSE, of |-> {}]

Init ==
    /\ active = TRUE /\ session = 1
    /\ known = {} /\ buffer = {} /\ ledger = {}
    /\ gate = FreeGate
    /\ trades = Listening /\ orders = NoOrder
    /\ task = [o \in Orders |-> NoTask]
    /\ helper = [o \in Orders |-> "none"]
    /\ owed = FALSE /\ snapshot = NoSnapshot
    /\ messages = 0 /\ events = 0 /\ faults = 0
    /\ heard = {} /\ stranded = {} /\ skipped = {} /\ abandoned = {}

-----------------------------------------------------------------------------
\* The trades stream

\* record_trade_order_mapping, then identity_for of the order: a known order's
\* fill is published, an unknown order's is buffered.
Hear(t) ==
    /\ active /\ trades.pc = "wait" /\ messages < MaxMessages
    /\ trades' = [pc |-> IF OrderOf[t] \in known THEN "publish" ELSE "buffer",
                  trade |-> {t}, tight |-> FALSE]
    /\ heard' = heard \cup {t} /\ abandoned' = abandoned \ {t} /\ messages' = messages + 1
    /\ UNCHANGED <<active, known, buffer, ledger, gate, orders, owed, snapshot, task, helper,
                   session, events, faults, stranded, skipped>>

\* A fill is buffered under pressure too; the stream then stops reading.
Pressure(t) ==
    /\ t \notin buffer
    /\ \/ Cardinality(Of(buffer, OrderOf[t])) >= PerOrder
       \/ Cardinality(buffer \cup {t}) > InAll

\* mutation: the trade in hand survives the end of the stream
StreamEnds_KeepsTrade ==
    /\ trades' = [trades EXCEPT !.pc = "down", !.tight = FALSE]
    /\ owed' = TRUE /\ snapshot' = NoSnapshot

\* mutation: a stream that ends owes no reconciliation
StreamEnds_Clean ==
    /\ trades' = Down
    /\ snapshot' = NoSnapshot /\ UNCHANGED owed

\* The stream is to be reopened and owes a reconciliation; one that runs beside
\* it is dropped (select!).
StreamEnds ==
    /\ trades' = Down
    /\ owed' = TRUE /\ snapshot' = NoSnapshot

Buffer(t) ==
    /\ trades.pc = "buffer" /\ trades.trade = {t}
    /\ buffer' = buffer \cup {t}
    /\ trades' = [trades EXCEPT !.pc = "schedule", !.tight = Pressure(t)]
    /\ UNCHANGED <<active, known, ledger, gate, orders, owed, snapshot, task, helper, bounds, history>>

\* schedule_unresolved_trade_reconciliation: one task per order; a closed
\* session admits none.
Schedule(t) ==
    LET o == OrderOf[t] IN
    /\ trades.pc = "schedule" /\ trades.trade = {t}
    /\ task' = IF active /\ task[o].pc = "none"
                 THEN [task EXCEPT ![o] = [NoTask EXCEPT !.pc = "top"]] ELSE task
    /\ stranded' = IF active THEN stranded \ {o} ELSE stranded
    /\ IF trades.tight THEN StreamEnds ELSE trades' = Listening /\ UNCHANGED <<owed, snapshot>>
    /\ UNCHANGED <<active, known, buffer, ledger, gate, orders, helper, bounds, heard, skipped, abandoned>>

PublishHeard(t) ==
    /\ trades.pc = "publish" /\ trades.trade = {t} /\ GateFree
    /\ ledger' = IF active THEN ledger \cup {t} ELSE ledger
    /\ trades' = Listening
    /\ UNCHANGED <<active, known, buffer, gate, orders, owed, snapshot, task, helper, bounds, history>>

\* A fill that cannot be projected, or a broken connection.
TradesBreak ==
    /\ active /\ faults < MaxFaults
    /\ \/ trades.pc = "publish" /\ GateFree
       \/ trades.pc = "wait"
    /\ StreamEnds
    /\ faults' = faults + 1
    /\ UNCHANGED <<active, known, buffer, ledger, gate, orders, task, helper,
                   session, messages, events, history>>

Reopen ==
    /\ active /\ trades.pc = "down"
    /\ trades' = Listening
    /\ UNCHANGED <<active, known, buffer, ledger, gate, orders, owed, snapshot, task, helper, bounds, history>>

-----------------------------------------------------------------------------
\* The unresolved-trade task

\* mutation: a task that has published ends without another look at the buffer
FinishIfIdle_Blind(o) ==
    /\ task[o].pc = "top"
    /\ task' = [task EXCEPT ![o] = IF Of(buffer, o) = {} \/ o \in known THEN NoTask
                                   ELSE [@ EXCEPT !.pc = "ask"]]
    /\ UNCHANGED <<active, known, buffer, ledger, gate, streams, helper, bounds, history>>

\* finish_unresolved_trade_reconciliation_if_idle, under the buffer's lock.
FinishIfIdle(o) ==
    /\ task[o].pc = "top"
    /\ task' = [task EXCEPT ![o] = IF Of(buffer, o) = {} THEN NoTask
                                   ELSE [@ EXCEPT !.pc = "ask"]]
    /\ UNCHANGED <<active, known, buffer, ledger, gate, streams, helper, bounds, history>>

\* GetOrderState names an order the client can identify.
Identified(o) ==
    /\ task[o].pc = "ask"
    /\ known' = known \cup {o}
    /\ task' = [task EXCEPT ![o].pc = "publish", ![o].final = FALSE]
    /\ UNCHANGED <<active, buffer, ledger, gate, streams, helper, bounds, history>>

\* mutation: the attempts are counted anew after each answer
Spend_Resets(o, permanent) ==
    task' = [task EXCEPT ![o].attempt = 1, ![o].pc = IF permanent THEN "exclude" ELSE "top"]

\* One more attempt is spent; the last one leads to the fallback.
Spend(o, permanent) ==
    LET n == IF task[o].attempt < Attempts THEN task[o].attempt + 1 ELSE Attempts IN
    task' = [task EXCEPT ![o].attempt = n,
                         ![o].pc = IF permanent \/ n = Attempts THEN "exclude" ELSE "top"]

\* No such order yet, an order of nobody's, a transient or a permanent error.
Unidentified(o) ==
    /\ task[o].pc = "ask"
    /\ \E permanent \in BOOLEAN : Spend(o, permanent)
    /\ UNCHANGED <<active, known, buffer, ledger, gate, streams, helper, bounds, history>>

\* The fallback: unless it may be a stop's child, it is an external regular order.
Exclude(o) ==
    /\ task[o].pc = "exclude"
    /\ known' = known \cup {o}
    /\ task' = [task EXCEPT ![o].pc = "publish", ![o].final = TRUE]
    /\ UNCHANGED <<active, buffer, ledger, gate, streams, helper, bounds, history>>

CannotExclude(o) ==
    /\ task[o].pc = "exclude" /\ faults < MaxFaults
    /\ task' = [task EXCEPT ![o].pc = "top"]
    /\ faults' = faults + 1
    /\ UNCHANGED <<active, known, buffer, ledger, gate, streams, helper, session, messages, events, history>>

-----------------------------------------------------------------------------
\* The others who learn an order's identity

\* Submission, cancellation or a report records the identity.
Learn(o) ==
    /\ o \notin known
    /\ known' = known \cup {o}
    /\ UNCHANGED <<active, buffer, ledger, gate, streams, task, helper, bounds, history>>

\* An order-state event: it identifies the order and publishes its buffer, or
\* has a reconciliation look the order up.
OrderEvent(o) ==
    /\ active /\ orders = NoOrder /\ events < MaxEvents
    /\ \/ /\ known' = known \cup {o} /\ orders' = o
          /\ UNCHANGED helper
       \/ /\ o \notin known
          /\ \E kind \in {"regular", "stop"} :
                helper' = [helper EXCEPT ![o] = IF @ = "none" THEN kind ELSE @]
          /\ UNCHANGED <<known, orders>>
    /\ events' = events + 1
    /\ UNCHANGED <<active, buffer, ledger, gate, trades, owed, snapshot, task,
                   session, messages, faults, history>>

\* reconcile_order_by_request_id found the order.
RegularFound(o) ==
    /\ helper[o] = "regular"
    /\ known' = known \cup {o}
    /\ helper' = [helper EXCEPT ![o] = IF active THEN "publish" ELSE "none"]
    /\ UNCHANGED <<active, buffer, ledger, gate, streams, task, bounds, history>>

\* The stop is found, and its child is mapped: its aliases are published.
StopChildFound(o) ==
    /\ helper[o] = "stop"
    /\ known' = known \cup {o}
    /\ helper' = [helper EXCEPT ![o] = IF active THEN "publish" ELSE "none"]
    /\ UNCHANGED <<active, buffer, ledger, gate, streams, task, bounds, history>>

\* A permanent error, or the attempts are used up.
GiveUp(o) ==
    /\ helper[o] \in {"regular", "stop"}
    /\ helper' = [helper EXCEPT ![o] = "none"]
    /\ UNCHANGED <<active, known, buffer, ledger, gate, streams, task, bounds, history>>

-----------------------------------------------------------------------------
\* publish_buffered_trade_fills_for_venue

Wants(p, o) ==
    \/ p = "task"   /\ task[o].pc = "publish"
    \/ p = "helper" /\ helper[o] = "publish"
    \/ p = "orders" /\ orders = o

\* The publisher goes on with Ok or Err.
Return(p, o, ok) ==
    /\ IF p # "task" THEN UNCHANGED task
       ELSE IF ok \/ task[o].final THEN task' = [task EXCEPT ![o].pc = "top"]
       ELSE Spend(o, FALSE)
    /\ helper' = IF p = "helper" THEN [helper EXCEPT ![o] = "none"] ELSE helper
    /\ orders' = IF p = "orders" THEN NoOrder ELSE orders

TakeBuffered(p, o) ==
    /\ Wants(p, o) /\ GateFree /\ active
    /\ gate' = [by |-> p, order |-> o, rest |-> Of(buffer, o)]
    /\ buffer' = buffer \ Of(buffer, o)
    /\ UNCHANGED <<active, known, ledger, streams, task, helper, bounds, history>>

\* run_if_active declines: Ok(0).
Decline(p, o) ==
    /\ Wants(p, o) /\ GateFree /\ ~active
    /\ Return(p, o, TRUE)
    /\ UNCHANGED <<active, known, buffer, ledger, gate, trades, owed, snapshot, bounds, history>>

\* A fill recorded before projects to nothing.
ProjectNext(t) ==
    /\ t \in gate.rest
    /\ ledger' = ledger \cup {t}
    /\ gate' = [gate EXCEPT !.rest = @ \ {t}]
    /\ UNCHANGED <<active, known, buffer, streams, task, helper, bounds, history>>

\* mutation: only the fills after the failed one go back
RestoreUnprocessed_Tail ==
    /\ gate.rest # {} /\ faults < MaxFaults
    /\ \E t \in gate.rest : buffer' = buffer \cup (gate.rest \ {t})
    /\ gate' = FreeGate /\ faults' = faults + 1
    /\ Return(gate.by, gate.order, FALSE)
    /\ stranded' = IF task[gate.order].pc = "none" THEN stranded \cup {gate.order} ELSE stranded
    /\ UNCHANGED <<active, known, ledger, trades, owed, snapshot, session, messages, events,
                   heard, skipped, abandoned>>

\* restore_unprocessed_trade_fills: the failed fill and the rest go back.
RestoreUnprocessed ==
    /\ gate.rest # {} /\ faults < MaxFaults
    /\ buffer' = buffer \cup gate.rest
    /\ gate' = FreeGate /\ faults' = faults + 1
    /\ Return(gate.by, gate.order, FALSE)
    /\ stranded' = IF task[gate.order].pc = "none" THEN stranded \cup {gate.order} ELSE stranded
    /\ UNCHANGED <<active, known, ledger, trades, owed, snapshot, session, messages, events,
                   heard, skipped, abandoned>>

Published ==
    /\ ~GateFree /\ gate.rest = {}
    /\ gate' = FreeGate
    /\ Return(gate.by, gate.order, TRUE)
    /\ UNCHANGED <<active, known, buffer, ledger, trades, owed, snapshot, bounds, history>>

-----------------------------------------------------------------------------
\* The reconnect reconciliation

\* It reads orders and operations; the broker shows every trade it has announced.
ReadSnapshot ==
    /\ active /\ owed /\ trades.pc # "down" /\ ~snapshot.some
    /\ \E S \in SUBSET Trades :
          /\ heard \subseteq S
          /\ snapshot' = [some |-> TRUE, of |-> S] /\ heard' = S
    /\ UNCHANGED <<active, known, buffer, ledger, gate, trades, orders, owed, task, helper,
                   bounds, stranded, skipped, abandoned>>

\* publish_reconnect_snapshot: each fill that projects is recorded and leaves
\* the buffer (settle_reconciled_buffered_trade_fill), the others are skipped.
PublishSnapshot ==
    /\ snapshot.some /\ GateFree
    /\ \E bad \in SUBSET snapshot.of :
          /\ Cardinality(bad) + faults <= MaxFaults /\ (~active => bad = {})
          /\ LET good == IF active THEN snapshot.of \ bad ELSE {} IN
             /\ ledger' = ledger \cup good
             /\ buffer' = buffer \ good
          /\ faults' = faults + Cardinality(bad)
          /\ skipped' = skipped \cup bad
    /\ snapshot' = NoSnapshot /\ owed' = FALSE
    /\ UNCHANGED <<active, known, gate, trades, orders, task, helper,
                   session, messages, events, heard, stranded, abandoned>>

\* The fills that are recorded, buffered or in somebody's hands.
Held == ledger \cup buffer \cup gate.rest \cup trades.trade

\* A permanent error, of the reconciliation before the reopened stream is consumed
\* and of the one beside it, ends the gap with nothing reconciled.
GiveGapUp ==
    /\ active /\ owed /\ trades.pc # "down" /\ ~snapshot.some
    /\ owed' = FALSE
    /\ abandoned' = abandoned \cup (heard \ Held)
    /\ UNCHANGED <<active, known, buffer, ledger, gate, trades, orders, snapshot, task, helper,
                   bounds, heard, stranded, skipped>>

-----------------------------------------------------------------------------
\* The session: the buffer, the index and the ledger outlive it, the tasks and
\* their keys do not.

Disconnect ==
    /\ active /\ GateFree
    /\ active' = FALSE
    /\ UNCHANGED <<known, buffer, ledger, gate, streams, task, helper, bounds, history>>

\* A task is cancelled where it awaits; nothing of it is left.
Drain ==
    /\ ~active /\ GateFree /\ trades.pc \in {"wait", "down"} /\ orders = NoOrder
    /\ \A o \in Orders : task[o].pc # "publish" /\ helper[o] # "publish"
    /\ session < MaxSessions
    /\ task' = [o \in Orders |-> NoTask] /\ helper' = [o \in Orders |-> "none"]
    /\ trades' = Listening /\ owed' = FALSE /\ snapshot' = NoSnapshot
    /\ active' = TRUE /\ session' = session + 1
    /\ stranded' = stranded \cup {OrderOf[t] : t \in buffer}
    /\ heard' = {} /\ abandoned' = {}
    /\ UNCHANGED <<known, buffer, ledger, gate, orders, messages, events, faults, skipped>>

-----------------------------------------------------------------------------

TaskStep(o) ==
    \/ FinishIfIdle(o) \/ Identified(o) \/ Unidentified(o) \/ Exclude(o) \/ CannotExclude(o)
    \/ TakeBuffered("task", o) \/ Decline("task", o)

OtherStep(o) ==
    \/ Learn(o) \/ OrderEvent(o) \/ RegularFound(o) \/ StopChildFound(o) \/ GiveUp(o)
    \/ \E p \in {"helper", "orders"} : TakeBuffered(p, o) \/ Decline(p, o)

TradesStep == \E t \in Trades : Buffer(t) \/ Schedule(t) \/ PublishHeard(t)
GateStep   == Published \/ RestoreUnprocessed \/ \E t \in Trades : ProjectNext(t)
Recovery   == ReadSnapshot \/ PublishSnapshot

Next ==
    \/ \E t \in Trades : Hear(t)
    \/ TradesStep \/ TradesBreak \/ Reopen
    \/ \E o \in Orders : TaskStep(o) \/ OtherStep(o)
    \/ GateStep \/ Recovery \/ GiveGapUp
    \/ Disconnect \/ Drain

\* Every task is scheduled, the broker answers each call with something, and a
\* lock is handed over (tokio and std mutexes).
Fairness ==
    /\ WF_vars(TradesStep) /\ WF_vars(GateStep) /\ WF_vars(Recovery) /\ WF_vars(Reopen)
    /\ \A o \in Orders :
          /\ SF_vars(TaskStep(o))
          /\ \A p \in {"helper", "orders"} : SF_vars(TakeBuffered(p, o) \/ Decline(p, o))

Spec == Init /\ [][Next]_vars /\ Fairness

-----------------------------------------------------------------------------

\* Type invariant; the handler has a trade in hand while it works on one.
TypeOK ==
    /\ active \in BOOLEAN /\ owed \in BOOLEAN
    /\ known \subseteq Orders /\ orders \in Orders \cup {NoOrder}
    /\ buffer \subseteq Trades /\ ledger \subseteq Trades
    /\ gate \in [by : Publishers \cup {"nobody"}, order : Orders \cup {NoOrder}, rest : SUBSET Trades]
    /\ trades \in [pc : {"wait", "buffer", "schedule", "publish", "down"},
                   trade : SUBSET Trades, tight : BOOLEAN]
    /\ (trades.pc \in {"wait", "down"}) <=> (trades.trade = {})
    /\ task \in [Orders -> [pc : {"none", "top", "ask", "publish", "exclude"},
                            attempt : 0..Attempts, final : BOOLEAN]]
    /\ helper \in [Orders -> {"none", "regular", "stop", "publish"}]
    /\ snapshot \in [some : BOOLEAN, of : SUBSET Trades]
    /\ session \in Nat /\ messages \in Nat /\ events \in Nat /\ faults \in Nat
    /\ heard \subseteq Trades /\ skipped \subseteq Trades /\ abandoned \subseteq Trades
    /\ stranded \subseteq Orders

\* A fill that was buffered stays in the buffer, or in the hands of the one who
\* publishes the buffer, until the ledger has it: not a failed projection, a
\* snapshot, pressure nor the end of a session drops it
\* (restore_unprocessed_trade_fills, settle_reconciled_buffered_trade_fill).
NoFillIsDropped ==
    [][buffer \cup gate.rest \subseteq buffer' \cup gate'.rest \cup ledger']_vars

\* While the session lasts, a buffered fill has a task that will publish it, or
\* the stream is about to start one; set aside are the fills of an order that
\* were put back after its task had ended, or left over from an earlier session
\* (finish_unresolved_trade_reconciliation_if_idle).
BufferedIsWatched ==
    active => \A t \in buffer :
        \/ task[OrderOf[t]].pc # "none"
        \/ trades.pc = "schedule" /\ OrderOf[t] \in {OrderOf[u] : u \in trades.trade}
        \/ OrderOf[t] \in stranded

\* While the session lasts, a trade the client was told of is recorded, buffered
\* or in hand, or a reconciliation is owed that will read it: neither a stream that
\* ends under pressure or on a fill that cannot be projected nor a snapshot read
\* before the stream went on lets one fall between them.  Set aside are the fills a
\* snapshot skips as malformed and a gap that was given up (recovery_from,
\* publish_reconnect_snapshot).
HeardIsHeld ==
    active => heard \subseteq Held \cup skipped \cup abandoned \/ owed

\* Every trade the client is told of is recorded and published in the end, known
\* order or not, whatever the broker answers about it, under pressure and after
\* failures; with the exceptions of BufferedIsWatched and HeardIsHeld and of the
\* end of the session.  A trade of a known order that could not be projected is
\* told by the reconciliation its stream owes, and never if that fails for good.
EveryFillIsTold ==
    \A t \in Trades :
        (t \in heard /\ active)
            ~> \/ t \in ledger \cup skipped \cup abandoned
               \/ OrderOf[t] \in stranded \/ ~active

=============================================================================
