------------------------- MODULE UnresolvedFillsProofs -------------------------
(***************************************************************************)
(* Trades of unknown orders, for any trades, orders, limits and number of  *)
(* attempts: proofs about UnresolvedFills.                                 *)
(***************************************************************************)
EXTENDS UnresolvedFills, FiniteSetTheorems, TLAPS

\* Whoever holds the gate publishes the buffer of one order.
GateIsOfOneOrder ==
    GateFree \/ /\ gate.order \in Orders
                /\ gate.by \in Publishers
                /\ \A t \in gate.rest : OrderOf[t] = gate.order

\* The task that publishes is there until it has the result.
HolderIsThere ==
    ~GateFree /\ gate.by = "task" => task[gate.order].pc = "publish"

\* The stream's handler has one trade in hand.
OneInHand ==
    trades.pc = "schedule" => \E t \in Trades : trades.trade = {t}

\* What the handler has buffered is not lost before its task is scheduled, ...
InHandIsKept ==
    trades.pc = "schedule" => trades.trade \subseteq buffer \cup gate.rest \cup ledger

\* ... and a prepared snapshot has what is not held.
SnapshotIsWhole ==
    active /\ snapshot.some => heard \subseteq snapshot.of \cup Held

IInv == TypeOK /\ GateIsOfOneOrder /\ HolderIsThere /\ OneInHand /\ BufferedIsWatched
HeldInv == InHandIsKept /\ SnapshotIsWhole /\ HeardIsHeld

TaskStates ==
    [pc : {"none", "top", "ask", "publish", "exclude"}, attempt : 0..Attempts, final : BOOLEAN]

Handlers ==
    [pc : {"wait", "buffer", "schedule", "publish", "down"}, trade : SUBSET Trades, tight : BOOLEAN]

Snapshots == [some : BOOLEAN, of : SUBSET Trades]

-----------------------------------------------------------------------------

\* A handler that listens or is down has nothing in hand.
LEMMA EmptyHands ==
    /\ NoSnapshot \in Snapshots
    /\ \A h \in {Listening, Down} :
          h \in Handlers /\ h.pc \in {"wait", "down"} /\ h.trade = {}
<1>1. NoSnapshot \in Snapshots BY DEF NoSnapshot, Snapshots
<1>2. Listening \in Handlers /\ Listening.pc = "wait" /\ Listening.trade = {}
    BY DEF Listening, Handlers
<1>3. Down \in Handlers /\ Down.pc = "down" /\ Down.trade = {}
    BY DEF Down, Handlers
<1> QED BY <1>1, <1>2, <1>3

LEMMA InitIInv == Init => IInv
<1> SUFFICES ASSUME Init PROVE IInv OBVIOUS
<1>1. 0 \in 0..Attempts BY UnresolvedAssumption
<1>2. task \in [Orders -> TaskStates] BY <1>1 DEF Init, NoTask, TaskStates
<1>3. TypeOK
    BY <1>2, UnresolvedAssumption DEF Init, TypeOK, TaskStates, FreeGate, Listening, NoSnapshot
<1>4. GateIsOfOneOrder /\ HolderIsThere BY DEF Init, GateIsOfOneOrder, HolderIsThere, GateFree
<1>5. OneInHand BY DEF Init, OneInHand, Listening
<1>6. BufferedIsWatched BY DEF Init, BufferedIsWatched
<1> QED BY <1>3, <1>4, <1>5, <1>6 DEF IInv

\* An attempt more: the task stays in its shape, and a task.
LEMMA SpendIsTyped ==
    ASSUME TypeOK, NEW o \in Orders, NEW permanent \in BOOLEAN, Spend(o, permanent)
    PROVE  /\ task' \in [Orders -> TaskStates]
           /\ task'[o].pc # "none" /\ \A q \in Orders \ {o} : task'[q] = task[q]
<1> DEFINE n == IF task[o].attempt < Attempts THEN task[o].attempt + 1 ELSE Attempts
<1>1. n \in 0..Attempts BY UnresolvedAssumption DEF TypeOK
<1> DEFINE p == IF permanent \/ n = Attempts THEN "exclude" ELSE "top"
<1>2. task' = [task EXCEPT ![o].attempt = n, ![o].pc = p] BY DEF Spend
<1>3. p \in {"exclude", "top"} OBVIOUS
<1> HIDE DEF n, p
<1> QED BY <1>1, <1>2, <1>3, ZenonT(60) DEF TypeOK, TaskStates

\* The publisher's answer keeps the shapes, and no task disappears by it.
LEMMA ReturnIsTyped ==
    ASSUME TypeOK, NEW p \in Publishers, NEW o \in Orders, NEW ok \in BOOLEAN, Return(p, o, ok),
           p = "task" => task[o].pc = "publish"
    PROVE  /\ task' \in [Orders -> TaskStates]
           /\ helper' \in [Orders -> {"none", "regular", "stop", "publish"}]
           /\ orders' \in Orders \cup {NoOrder}
           /\ \A q \in Orders : task'[q].pc = "none" => task[q].pc = "none"
<1>1. task' \in [Orders -> TaskStates] /\ \A q \in Orders : task'[q].pc = "none" => task[q].pc = "none"
  <2>1. CASE p # "task" BY <2>1 DEF Return, TypeOK, TaskStates
  <2>2. CASE p = "task" /\ (ok \/ task[o].final)
    <3>1. task' = [task EXCEPT ![o].pc = "top"] BY <2>2 DEF Return
    <3> QED BY <3>1 DEF TypeOK, TaskStates
  <2>3. CASE p = "task" /\ ~(ok \/ task[o].final)
    <3>1. Spend(o, FALSE) BY <2>3 DEF Return
    <3> QED BY <3>1, SpendIsTyped
  <2> QED BY <2>1, <2>2, <2>3
<1>2. helper' \in [Orders -> {"none", "regular", "stop", "publish"}] BY DEF Return, TypeOK
<1>3. orders' \in Orders \cup {NoOrder} BY DEF Return, TypeOK
<1> QED BY <1>1, <1>2, <1>3

-----------------------------------------------------------------------------

\* The steps of the trades stream.
LEMMA TradesStepIInv ==
    ASSUME IInv, NEW t \in Trades,
           Hear(t) \/ Buffer(t) \/ Schedule(t) \/ PublishHeard(t)
    PROVE  IInv'
<1>1. OrderOf[t] \in Orders BY UnresolvedAssumption
<1>2. TypeOK'
  <2>1. CASE Hear(t) BY <2>1 DEF IInv, TypeOK, Hear
  <2>2. CASE Buffer(t) BY <2>2 DEF IInv, TypeOK, Buffer, Pressure, bounds, history
  <2>3. CASE Schedule(t)
    <3>1. task' \in [Orders -> TaskStates]
      <4> DEFINE new == [NoTask EXCEPT !.pc = "top"]
      <4>1. 0 \in 0..Attempts BY UnresolvedAssumption
      <4>2. new \in TaskStates BY <4>1 DEF NoTask, TaskStates
      <4>3. task' = [task EXCEPT ![OrderOf[t]] = new] \/ task' = task BY <2>3 DEF Schedule
      <4> HIDE DEF new
      <4> QED BY <4>2, <4>3, <1>1 DEF IInv, TypeOK, TaskStates
    <3>2. trades' \in Handlers /\ trades'.pc \in {"wait", "down"} /\ trades'.trade = {}
        BY <2>3, EmptyHands DEF Schedule, StreamEnds
    <3>3. owed' \in BOOLEAN /\ snapshot' \in Snapshots
        BY <2>3, EmptyHands DEF IInv, TypeOK, Schedule, StreamEnds, Snapshots
    <3>4. /\ UNCHANGED <<active, known, buffer, ledger, gate, orders, helper, session, messages,
                        events, faults, heard, skipped, abandoned>>
          /\ stranded' \subseteq stranded
        BY <2>3 DEF Schedule, bounds
    <3> QED BY <3>1, <3>2, <3>3, <3>4 DEF IInv, TypeOK, TaskStates, Handlers, Snapshots
  <2>4. CASE PublishHeard(t) BY <2>4 DEF IInv, TypeOK, PublishHeard, Listening, bounds, history
  <2> QED BY <2>1, <2>2, <2>3, <2>4
<1>3. GateIsOfOneOrder'
    BY DEF IInv, GateIsOfOneOrder, GateFree, Hear, Buffer, Schedule, PublishHeard
<1>4. HolderIsThere'
  <2>1. CASE Schedule(t)
    BY <2>1, <1>1 DEF IInv, TypeOK, GateIsOfOneOrder, HolderIsThere, GateFree, Schedule
  <2>2. CASE Hear(t) \/ Buffer(t) \/ PublishHeard(t)
    BY <2>2 DEF IInv, HolderIsThere, GateFree, Hear, Buffer, PublishHeard
  <2> QED BY <2>1, <2>2
<1>5. OneInHand'
  <2>1. CASE Hear(t) BY <2>1 DEF IInv, TypeOK, OneInHand, Hear
  <2>2. CASE Buffer(t) BY <2>2 DEF IInv, TypeOK, OneInHand, Buffer
  <2>3. CASE Schedule(t)
    <3>1. trades' = Listening \/ trades' = Down BY <2>3 DEF Schedule, StreamEnds
    <3> QED BY <3>1, EmptyHands DEF OneInHand
  <2>4. CASE PublishHeard(t) BY <2>4 DEF OneInHand, PublishHeard, Listening
  <2> QED BY <2>1, <2>2, <2>3, <2>4
<1>6. BufferedIsWatched'
  <2>1. CASE Hear(t) \/ PublishHeard(t)
    BY <2>1 DEF IInv, TypeOK, BufferedIsWatched, Hear, PublishHeard, history
  <2>2. CASE Buffer(t)
    <3>1. trades'.pc = "schedule" /\ trades'.trade = {t} BY <2>2 DEF IInv, TypeOK, Buffer
    <3> QED BY <2>2, <3>1 DEF IInv, BufferedIsWatched, Buffer, history
  <2>3. CASE Schedule(t)
    <3>1. active => task'[OrderOf[t]].pc # "none"
        BY <2>3, <1>1 DEF IInv, TypeOK, Schedule, NoTask
    <3>2. \A o \in Orders : task[o].pc # "none" => task'[o].pc # "none"
        BY <2>3, <1>1 DEF IInv, TypeOK, Schedule, NoTask
    <3>3. \A u \in Trades : OrderOf[u] \in Orders BY UnresolvedAssumption
    <3>4. buffer' = buffer /\ active' = active /\ buffer \subseteq Trades /\ trades.trade = {t}
          /\ (active => stranded' = stranded \ {OrderOf[t]})
        BY <2>3 DEF IInv, TypeOK, Schedule
    <3>5. SUFFICES ASSUME active, NEW u \in buffer
                   PROVE  task'[OrderOf[u]].pc # "none" \/ OrderOf[u] \in stranded'
        BY <3>4 DEF BufferedIsWatched
    <3>6. CASE OrderOf[u] = OrderOf[t] BY <3>1, <3>5, <3>6
    <3>7. CASE OrderOf[u] # OrderOf[t]
        BY <3>2, <3>3, <3>4, <3>5, <3>7 DEF IInv, BufferedIsWatched
    <3> QED BY <3>6, <3>7
  <2> QED BY <2>1, <2>2, <2>3
<1> QED BY <1>2, <1>3, <1>4, <1>5, <1>6 DEF IInv

\* The stream breaks, or is opened again.
LEMMA ReopenIInv ==
    ASSUME IInv, TradesBreak \/ Reopen
    PROVE  IInv'
<1>1. trades' \in Handlers /\ trades'.pc \in {"wait", "down"} /\ trades'.trade = {}
    BY EmptyHands DEF TradesBreak, Reopen, StreamEnds
<1>2. owed' \in BOOLEAN /\ snapshot' \in Snapshots /\ faults' \in Nat
  <2>1. CASE TradesBreak BY <2>1, EmptyHands DEF IInv, TypeOK, TradesBreak, StreamEnds
  <2>2. CASE Reopen BY <2>2 DEF IInv, TypeOK, Reopen, Snapshots, bounds
  <2> QED BY <2>1, <2>2
<1>3. UNCHANGED <<active, known, buffer, ledger, gate, orders, task, helper,
                  session, messages, events, heard, stranded, skipped, abandoned>>
    BY DEF TradesBreak, Reopen, bounds, history
<1>4. trades.pc # "schedule" BY DEF TradesBreak, Reopen
<1>5. TypeOK' BY <1>1, <1>2, <1>3 DEF IInv, TypeOK, Handlers, Snapshots
<1>6. GateIsOfOneOrder' /\ HolderIsThere'
    BY <1>3 DEF IInv, GateIsOfOneOrder, HolderIsThere, GateFree
<1>7. OneInHand' BY <1>1 DEF OneInHand
<1>8. BufferedIsWatched' BY <1>3, <1>4 DEF IInv, BufferedIsWatched
<1> QED BY <1>5, <1>6, <1>7, <1>8 DEF IInv

\* The steps of a task between its publications.
LEMMA TaskStepIInv ==
    ASSUME IInv, NEW o \in Orders,
           FinishIfIdle(o) \/ Identified(o) \/ Unidentified(o) \/ Exclude(o) \/ CannotExclude(o)
    PROVE  IInv'
<1>0. task \in [Orders -> TaskStates] BY DEF IInv, TypeOK, TaskStates
<1>1. task' \in [Orders -> TaskStates] /\ \A q \in Orders \ {o} : task'[q] = task[q]
  <2>1. CASE FinishIfIdle(o)
    <3>1. CASE Of(buffer, o) = {}
        BY <2>1, <3>1, UnresolvedAssumption DEF IInv, TypeOK, TaskStates, FinishIfIdle, NoTask
    <3>2. CASE Of(buffer, o) # {} BY <2>1, <3>2 DEF IInv, TypeOK, TaskStates, FinishIfIdle
    <3> QED BY <3>1, <3>2
  <2>2. CASE Identified(o)
    <3>1. task' = [task EXCEPT ![o].pc = "publish", ![o].final = FALSE] BY <2>2 DEF Identified
    <3> QED BY <1>0, <3>1 DEF TaskStates
  <2>3. CASE Unidentified(o) BY <2>3, SpendIsTyped DEF IInv, Unidentified
  <2>4. CASE Exclude(o)
    <3>1. task' = [task EXCEPT ![o].pc = "publish", ![o].final = TRUE] BY <2>4 DEF Exclude
    <3> QED BY <1>0, <3>1 DEF TaskStates
  <2>5. CASE CannotExclude(o)
    <3>1. task' = [task EXCEPT ![o].pc = "top"] BY <2>5 DEF CannotExclude
    <3> QED BY <1>0, <3>1 DEF TaskStates
  <2> QED BY <2>1, <2>2, <2>3, <2>4, <2>5
<1>2. Of(buffer, o) # {} => task'[o].pc # "none"
  <2>1. CASE FinishIfIdle(o) BY <2>1 DEF IInv, TypeOK, FinishIfIdle
  <2>2. CASE Identified(o) BY <2>2 DEF IInv, TypeOK, Identified
  <2>3. CASE Unidentified(o) BY <2>3, SpendIsTyped DEF IInv, Unidentified
  <2>4. CASE Exclude(o) BY <2>4 DEF IInv, TypeOK, Exclude
  <2>5. CASE CannotExclude(o) BY <2>5 DEF IInv, TypeOK, CannotExclude
  <2> QED BY <2>1, <2>2, <2>3, <2>4, <2>5
<1>3. /\ UNCHANGED <<active, buffer, ledger, gate, trades, orders, owed, snapshot, helper,
                     session, messages, events, heard, stranded, skipped, abandoned>>
      /\ known' \in SUBSET Orders /\ faults' \in Nat
      /\ task[o].pc # "publish"
    BY DEF IInv, TypeOK, FinishIfIdle, Identified, Unidentified, Exclude, CannotExclude,
           streams, bounds, history
<1>4. TypeOK' BY <1>1, <1>3 DEF IInv, TypeOK, TaskStates
<1>5. GateIsOfOneOrder' BY <1>3 DEF IInv, GateIsOfOneOrder, GateFree
<1>6. HolderIsThere'
    BY <1>1, <1>3 DEF IInv, GateIsOfOneOrder, HolderIsThere, GateFree
<1>7. OneInHand' BY <1>3 DEF IInv, OneInHand
<1>8. BufferedIsWatched'
  <2>1. \A t \in buffer : OrderOf[t] \in Orders /\ (OrderOf[t] = o => Of(buffer, o) # {})
      BY UnresolvedAssumption DEF IInv, TypeOK, Of
  <2> QED BY <1>1, <1>2, <1>3, <2>1 DEF IInv, BufferedIsWatched
<1> QED BY <1>4, <1>5, <1>6, <1>7, <1>8 DEF IInv

\* Steps that leave the trades stream, the tasks, the gate and the buffer alone.
LEMMA OtherStepIInv ==
    ASSUME IInv, NEW o \in Orders,
           Learn(o) \/ OrderEvent(o) \/ RegularFound(o) \/ StopChildFound(o) \/ GiveUp(o)
    PROVE  IInv'
<1>1. UNCHANGED <<active, buffer, ledger, gate, trades, owed, snapshot, task, session, messages,
                  faults, heard, stranded, skipped, abandoned>>
    BY DEF Learn, OrderEvent, RegularFound, StopChildFound, GiveUp, streams, bounds, history
<1>2. TypeOK'
  <2>1. CASE Learn(o) BY <2>1, <1>1 DEF IInv, TypeOK, Learn, streams, bounds
  <2>2. CASE OrderEvent(o) BY <2>2, <1>1 DEF IInv, TypeOK, OrderEvent
  <2>3. CASE RegularFound(o) BY <2>3, <1>1 DEF IInv, TypeOK, RegularFound, streams, bounds
  <2>4. CASE StopChildFound(o) BY <2>4, <1>1 DEF IInv, TypeOK, StopChildFound, streams, bounds
  <2>5. CASE GiveUp(o) BY <2>5, <1>1 DEF IInv, TypeOK, GiveUp, streams, bounds
  <2> QED BY <2>1, <2>2, <2>3, <2>4, <2>5
<1> QED BY <1>1, <1>2
    DEF IInv, GateIsOfOneOrder, HolderIsThere, GateFree, OneInHand, BufferedIsWatched

\* Publication under the gate.
LEMMA TakeIInv ==
    ASSUME IInv, NEW p \in Publishers, NEW o \in Orders, TakeBuffered(p, o)
    PROVE  IInv'
<1>1. gate' = [by |-> p, order |-> o, rest |-> Of(buffer, o)] /\ buffer' = buffer \ Of(buffer, o)
      /\ (p = "task" => task[o].pc = "publish")
      /\ UNCHANGED <<active, known, ledger, trades, orders, owed, snapshot, task, helper,
                     session, messages, events, faults, heard, stranded, skipped, abandoned>>
    BY DEF TakeBuffered, Wants, streams, bounds, history
<1>2. TypeOK' BY <1>1 DEF IInv, TypeOK, Of
<1>3. GateIsOfOneOrder' BY <1>1 DEF GateIsOfOneOrder, Of
<1>4. HolderIsThere' BY <1>1 DEF HolderIsThere
<1>5. OneInHand' /\ BufferedIsWatched' BY <1>1 DEF IInv, OneInHand, BufferedIsWatched
<1> QED BY <1>2, <1>3, <1>4, <1>5 DEF IInv

LEMMA DeclineIInv ==
    ASSUME IInv, NEW p \in Publishers, NEW o \in Orders, Decline(p, o)
    PROVE  IInv'
<1>1. Return(p, o, TRUE) /\ GateFree /\ ~active /\ (p = "task" => task[o].pc = "publish")
      /\ UNCHANGED <<active, known, buffer, ledger, gate, trades, owed, snapshot,
                     session, messages, events, faults, heard, stranded, skipped, abandoned>>
    BY DEF Decline, Wants, bounds, history
<1>2. /\ task' \in [Orders -> TaskStates]
      /\ helper' \in [Orders -> {"none", "regular", "stop", "publish"}]
      /\ orders' \in Orders \cup {NoOrder}
    BY <1>1, ReturnIsTyped DEF IInv
<1>3. TypeOK' BY <1>1, <1>2 DEF IInv, TypeOK, TaskStates
<1> QED BY <1>1, <1>3
    DEF IInv, GateIsOfOneOrder, HolderIsThere, GateFree, OneInHand, BufferedIsWatched

LEMMA GateStepIInv ==
    ASSUME IInv, GateStep
    PROVE  IInv'
<1>0. ~GateFree
  <2>1. Published => ~GateFree BY DEF Published
  <2>2. gate.rest # {} => ~GateFree BY DEF GateFree, FreeGate
  <2>3. RestoreUnprocessed => gate.rest # {} BY DEF RestoreUnprocessed
  <2>4. \A t \in Trades : ProjectNext(t) => gate.rest # {} BY DEF ProjectNext
  <2> QED BY <2>1, <2>2, <2>3, <2>4 DEF GateStep
<1>1. gate.order \in Orders /\ gate.by \in Publishers /\ (gate.by = "task" => task[gate.order].pc = "publish")
    BY <1>0 DEF IInv, GateIsOfOneOrder, HolderIsThere
<1>2. ASSUME NEW t \in Trades, ProjectNext(t) PROVE IInv'
  <2>1. gate' = [gate EXCEPT !.rest = gate.rest \ {t}] /\ ledger' = ledger \cup {t}
        /\ UNCHANGED <<active, known, buffer, trades, orders, owed, snapshot, task, helper,
                       session, messages, events, faults, heard, stranded, skipped, abandoned>>
      BY <1>2 DEF ProjectNext, streams, bounds, history
  <2>2. TypeOK' BY <2>1 DEF IInv, TypeOK
  <2>3. GateIsOfOneOrder' BY <2>1, <1>0 DEF IInv, TypeOK, GateIsOfOneOrder
  <2>4. HolderIsThere' BY <2>1, <1>1 DEF IInv, TypeOK, HolderIsThere
  <2>5. OneInHand' /\ BufferedIsWatched' BY <2>1 DEF IInv, OneInHand, BufferedIsWatched
  <2> QED BY <2>2, <2>3, <2>4, <2>5 DEF IInv
<1>3. CASE Published
  <2>1. Return(gate.by, gate.order, TRUE) /\ gate' = FreeGate
        /\ UNCHANGED <<active, known, buffer, ledger, trades, owed, snapshot,
                       session, messages, events, faults, heard, stranded, skipped, abandoned>>
      BY <1>3 DEF Published, bounds, history
  <2>2. /\ task' \in [Orders -> TaskStates]
        /\ helper' \in [Orders -> {"none", "regular", "stop", "publish"}]
        /\ orders' \in Orders \cup {NoOrder}
        /\ \A q \in Orders : task'[q].pc = "none" => task[q].pc = "none"
      BY <2>1, <1>1, ReturnIsTyped DEF IInv
  <2>3. TypeOK' BY <2>1, <2>2 DEF IInv, TypeOK, TaskStates, FreeGate
  <2>4. GateIsOfOneOrder' /\ HolderIsThere' BY <2>1 DEF GateIsOfOneOrder, HolderIsThere, GateFree
  <2>5. \A t \in buffer : OrderOf[t] \in Orders BY UnresolvedAssumption DEF IInv, TypeOK
  <2>6. OneInHand' BY <2>1 DEF IInv, OneInHand
  <2>7. BufferedIsWatched' BY <2>1, <2>2, <2>5 DEF IInv, BufferedIsWatched
  <2> QED BY <2>3, <2>4, <2>6, <2>7 DEF IInv
<1>4. CASE RestoreUnprocessed
  <2> DEFINE o == gate.order
  <2>1. /\ Return(gate.by, o, FALSE) /\ gate' = FreeGate /\ buffer' = buffer \cup gate.rest
        /\ stranded' = IF task[o].pc = "none" THEN stranded \cup {o} ELSE stranded
        /\ faults' = faults + 1
        /\ UNCHANGED <<active, known, ledger, trades, owed, snapshot,
                       session, messages, events, heard, skipped, abandoned>>
      BY <1>4 DEF RestoreUnprocessed
  <2>2. /\ task' \in [Orders -> TaskStates]
        /\ helper' \in [Orders -> {"none", "regular", "stop", "publish"}]
        /\ orders' \in Orders \cup {NoOrder}
        /\ \A q \in Orders : task'[q].pc = "none" => task[q].pc = "none"
      BY <2>1, <1>1, ReturnIsTyped DEF IInv
  <2>3. TypeOK' BY <2>1, <2>2, <1>1 DEF IInv, TypeOK, TaskStates, FreeGate
  <2>4. GateIsOfOneOrder' /\ HolderIsThere' BY <2>1 DEF GateIsOfOneOrder, HolderIsThere, GateFree
  <2>5. \A t \in buffer : OrderOf[t] \in Orders BY UnresolvedAssumption DEF IInv, TypeOK
  <2>6. OneInHand' BY <2>1 DEF IInv, OneInHand
  <2>7. \A t \in gate.rest : OrderOf[t] = o BY <1>0 DEF IInv, GateIsOfOneOrder
  <2>8. task'[o].pc # "none" \/ o \in stranded' BY <2>1, <2>2, <1>1
  <2>9. BufferedIsWatched'
    <3> HIDE DEF o
    <3> QED BY <2>1, <2>2, <2>5, <2>7, <2>8 DEF IInv, BufferedIsWatched
  <2> QED BY <2>3, <2>4, <2>6, <2>9 DEF IInv
<1> QED BY <1>2, <1>3, <1>4 DEF GateStep

\* The reconnect snapshot only takes fills out of the buffer.
LEMMA RecoveryIInv ==
    ASSUME IInv, Recovery
    PROVE  IInv'
<1>1. CASE ReadSnapshot
  <2>1. TypeOK' BY <1>1 DEF IInv, TypeOK, ReadSnapshot, bounds
  <2> QED BY <1>1, <2>1
      DEF IInv, ReadSnapshot, GateIsOfOneOrder, HolderIsThere, GateFree, OneInHand, BufferedIsWatched
<1>2. CASE PublishSnapshot
  <2>1. PICK bad \in SUBSET snapshot.of :
          /\ LET good == IF active THEN snapshot.of \ bad ELSE {} IN
             ledger' = ledger \cup good /\ buffer' = buffer \ good
          /\ faults' = faults + Cardinality(bad)
          /\ skipped' = skipped \cup bad
      BY <1>2 DEF PublishSnapshot
  <2>2. IsFiniteSet(bad) BY UnresolvedAssumption, FS_Subset DEF IInv, TypeOK
  <2>3. Cardinality(bad) \in Nat BY <2>2, FS_CardinalityType
  <2>4. UNCHANGED <<active, known, gate, trades, orders, task, helper, session, messages, events,
                    heard, stranded, abandoned>> /\ snapshot' = NoSnapshot /\ owed' = FALSE
      BY <1>2 DEF PublishSnapshot
  <2>5. faults' \in Nat BY <2>1, <2>3 DEF IInv, TypeOK
  <2>6. ledger' \subseteq Trades /\ buffer' \subseteq buffer /\ skipped' \subseteq Trades
      BY <2>1 DEF IInv, TypeOK
  <2>7. TypeOK' BY <2>4, <2>5, <2>6 DEF IInv, TypeOK, NoSnapshot
  <2> QED BY <2>4, <2>6, <2>7
      DEF IInv, GateIsOfOneOrder, HolderIsThere, GateFree, OneInHand, BufferedIsWatched
<1> QED BY <1>1, <1>2 DEF Recovery

LEMMA GiveUpIInv ==
    ASSUME IInv, GiveGapUp
    PROVE  IInv'
<1>1. TypeOK' BY DEF IInv, TypeOK, GiveGapUp, bounds
<1> QED BY <1>1
    DEF IInv, GiveGapUp, GateIsOfOneOrder, HolderIsThere, GateFree, OneInHand, BufferedIsWatched

LEMMA SessionIInv ==
    ASSUME IInv, Disconnect \/ Drain
    PROVE  IInv'
<1>1. CASE Disconnect
    BY <1>1 DEF IInv, TypeOK, Disconnect, streams, bounds, history, GateIsOfOneOrder, HolderIsThere,
                GateFree, OneInHand, BufferedIsWatched
<1>2. CASE Drain
  <2>1. task' \in [Orders -> TaskStates] BY <1>2, UnresolvedAssumption DEF Drain, NoTask, TaskStates
  <2>2. \A t \in Trades : OrderOf[t] \in Orders BY UnresolvedAssumption
  <2>10. stranded' \subseteq Orders BY <1>2, <2>2 DEF IInv, TypeOK, Drain
  <2>11. trades' = Listening /\ snapshot' = NoSnapshot /\ session' = session + 1
        /\ active' = TRUE /\ owed' = FALSE /\ heard' = {} /\ abandoned' = {}
        /\ helper' = [o \in Orders |-> "none"]
        /\ UNCHANGED <<known, buffer, ledger, gate, orders, messages, events, faults, skipped>>
      BY <1>2 DEF Drain
  <2>12. helper' \in [Orders -> {"none", "regular", "stop", "publish"}] BY <2>11
  <2>13. trades' \in Handlers /\ trades'.pc \in {"wait", "down"} /\ trades'.trade = {}
        /\ snapshot' \in Snapshots
      BY <2>11, EmptyHands
  <2>14. session' \in Nat BY <2>11 DEF IInv, TypeOK
  <2>3. TypeOK'
      BY <2>10, <2>11, <2>12, <2>13, <2>14, <2>1 DEF IInv, TypeOK, TaskStates, Handlers, Snapshots
  <2>4. GateIsOfOneOrder' /\ HolderIsThere' BY <1>2 DEF Drain, GateIsOfOneOrder, HolderIsThere, GateFree
  <2>5. OneInHand' BY <1>2 DEF Drain, OneInHand, Listening
  <2>6. BufferedIsWatched' BY <1>2 DEF Drain, BufferedIsWatched
  <2> QED BY <2>3, <2>4, <2>5, <2>6 DEF IInv
<1> QED BY <1>1, <1>2

-----------------------------------------------------------------------------

LEMMA NextIInv == IInv /\ [Next]_vars => IInv'
<1> SUFFICES ASSUME IInv, [Next]_vars PROVE IInv' OBVIOUS
<1>1. ASSUME NEW t \in Trades, Hear(t) PROVE IInv' BY <1>1, TradesStepIInv
<1>2. CASE TradesStep BY <1>2, TradesStepIInv DEF TradesStep
<1>3. CASE TradesBreak BY <1>3, ReopenIInv
<1>4. CASE Reopen BY <1>4, ReopenIInv
<1>5. ASSUME NEW o \in Orders, TaskStep(o) PROVE IInv'
  <2>1. "task" \in Publishers BY DEF Publishers
  <2> QED BY <1>5, <2>1, TaskStepIInv, TakeIInv, DeclineIInv DEF TaskStep
<1>6. ASSUME NEW o \in Orders, OtherStep(o) PROVE IInv'
  <2>1. {"helper", "orders"} \subseteq Publishers BY DEF Publishers
  <2> QED BY <1>6, <2>1, OtherStepIInv, TakeIInv, DeclineIInv DEF OtherStep
<1>7. CASE GateStep BY <1>7, GateStepIInv
<1>8. CASE Recovery BY <1>8, RecoveryIInv
<1>9. CASE Disconnect \/ Drain BY <1>9, SessionIInv
<1>11. CASE GiveGapUp BY <1>11, GiveUpIInv
<1>10. CASE UNCHANGED vars
    BY <1>10 DEF IInv, TypeOK, vars, streams, bounds, history, GateIsOfOneOrder, HolderIsThere,
                 GateFree, OneInHand, BufferedIsWatched
<1> QED BY <1>1, <1>2, <1>3, <1>4, <1>5, <1>6, <1>7, <1>8, <1>9, <1>10, <1>11 DEF Next

\* No step drops a fill that is recorded, buffered or in the publisher's hands.
LEMMA NothingIsDropped ==
    ASSUME IInv, Next
    PROVE  /\ ledger \subseteq ledger'
           /\ buffer \cup gate.rest \subseteq buffer' \cup gate'.rest \cup ledger'
<1> DEFINE Kept == /\ ledger \subseteq ledger'
                   /\ buffer \cup gate.rest \subseteq buffer' \cup gate'.rest \cup ledger'
<1>1. ASSUME NEW t \in Trades, Hear(t) \/ Buffer(t) \/ Schedule(t) \/ PublishHeard(t) PROVE Kept
    BY <1>1 DEF Hear, Buffer, Schedule, PublishHeard
<1>2. CASE TradesBreak \/ Reopen BY <1>2 DEF TradesBreak, Reopen
<1>3. ASSUME NEW p, NEW o \in Orders, TakeBuffered(p, o) \/ Decline(p, o) PROVE Kept
  <2>1. CASE TakeBuffered(p, o)
    <3>1. gate.rest = {} /\ buffer' = buffer \ Of(buffer, o) /\ gate'.rest = Of(buffer, o)
          /\ ledger' = ledger
        BY <2>1 DEF TakeBuffered, GateFree, FreeGate
    <3> QED BY <3>1
  <2>2. CASE Decline(p, o) BY <2>2 DEF Decline
  <2> QED BY <1>3, <2>1, <2>2
<1>4. ASSUME NEW o \in Orders, TaskStep(o) PROVE Kept
    BY <1>3, <1>4 DEF TaskStep, FinishIfIdle, Identified, Unidentified, Exclude, CannotExclude
<1>5. ASSUME NEW o \in Orders, OtherStep(o) PROVE Kept
    BY <1>3, <1>5 DEF OtherStep, Learn, OrderEvent, RegularFound, StopChildFound, GiveUp
<1>6. ASSUME NEW t \in Trades, ProjectNext(t) PROVE Kept
    BY <1>6 DEF ProjectNext, IInv, TypeOK
<1>7. CASE Published \/ RestoreUnprocessed
    BY <1>7 DEF Published, RestoreUnprocessed, FreeGate
<1>8. CASE ReadSnapshot BY <1>8 DEF ReadSnapshot
<1>9. CASE PublishSnapshot BY <1>9 DEF PublishSnapshot
<1>10. CASE Disconnect \/ Drain BY <1>10 DEF Disconnect, Drain
<1>11. CASE GiveGapUp BY <1>11 DEF GiveGapUp
<1> QED BY <1>1, <1>2, <1>4, <1>5, <1>6, <1>7, <1>8, <1>9, <1>10, <1>11
    DEF Next, TradesStep, GateStep, Recovery

-----------------------------------------------------------------------------
\* What the client was told of

LEMMA InitHeld == Init => HeldInv
<1> SUFFICES ASSUME Init PROVE HeldInv OBVIOUS
<1>1. trades.pc = "wait" /\ snapshot.some = FALSE /\ heard = {} BY DEF Init, Listening, NoSnapshot
<1> QED BY <1>1 DEF HeldInv, InHandIsKept, SnapshotIsWhole, HeardIsHeld

\* A step that leaves the stream's handler and what is owed alone.
Aside == UNCHANGED <<trades, owed, snapshot, heard, skipped, abandoned>> /\ (active' => active)

LEMMA AsideKeepsHeld ==
    ASSUME IInv, HeldInv, Next, Aside
    PROVE  HeldInv'
<1>1. buffer \cup gate.rest \cup ledger \subseteq buffer' \cup gate'.rest \cup ledger'
    BY NothingIsDropped
<1>2. Held \subseteq Held' BY <1>1 DEF Aside, Held
<1>3. InHandIsKept' BY <1>1 DEF HeldInv, InHandIsKept, Aside
<1>4. SnapshotIsWhole' BY <1>2 DEF HeldInv, SnapshotIsWhole, Aside
<1>5. HeardIsHeld' BY <1>2 DEF HeldInv, HeardIsHeld, Aside
<1> QED BY <1>3, <1>4, <1>5 DEF HeldInv

\* The stream's own steps: what its handler lets go of is buffered or recorded, or
\* a reconciliation is owed.
LEMMA TradesKeepHeld ==
    ASSUME IInv, HeldInv, Next,
           \/ \E t \in Trades : Hear(t) \/ Buffer(t) \/ Schedule(t) \/ PublishHeard(t)
           \/ TradesBreak \/ Reopen
    PROVE  HeldInv'
<1>0. buffer \cup gate.rest \cup ledger \subseteq buffer' \cup gate'.rest \cup ledger'
    BY NothingIsDropped
<1>1. ASSUME NEW t \in Trades, Hear(t) PROVE HeldInv'
  <2>1. /\ trades'.pc # "schedule" /\ trades'.trade = {t} /\ trades.trade = {}
        /\ heard' = heard \cup {t} /\ abandoned' = abandoned \ {t}
        /\ UNCHANGED <<active, buffer, ledger, gate, owed, snapshot, skipped>>
      BY <1>1 DEF Hear, IInv, TypeOK
  <2>2. Held' = Held \cup {t} BY <2>1 DEF Held
  <2> QED BY <2>1, <2>2 DEF HeldInv, InHandIsKept, SnapshotIsWhole, HeardIsHeld
<1>2. ASSUME NEW t \in Trades, Buffer(t) PROVE HeldInv'
  <2>1. /\ trades'.trade = {t} /\ trades.trade = {t} /\ buffer' = buffer \cup {t}
        /\ UNCHANGED <<active, ledger, gate, owed, snapshot, heard, skipped, abandoned>>
      BY <1>2 DEF Buffer, IInv, TypeOK, history
  <2>2. Held' = Held BY <2>1 DEF Held
  <2> QED BY <2>1, <2>2 DEF HeldInv, InHandIsKept, SnapshotIsWhole, HeardIsHeld
<1>3. ASSUME NEW t \in Trades, Schedule(t) PROVE HeldInv'
  <2>1. /\ trades'.pc # "schedule" /\ trades'.trade = {} /\ trades.pc = "schedule"
        /\ UNCHANGED <<active, buffer, ledger, gate, heard, skipped, abandoned>>
        /\ \/ owed' = TRUE /\ snapshot' = NoSnapshot
           \/ UNCHANGED <<owed, snapshot>>
      BY <1>3, EmptyHands DEF Schedule, StreamEnds
  <2>2. Held' = Held BY <2>1 DEF Held, HeldInv, InHandIsKept
  <2>3. NoSnapshot.some = FALSE BY DEF NoSnapshot
  <2> QED BY <2>1, <2>2, <2>3 DEF HeldInv, InHandIsKept, SnapshotIsWhole, HeardIsHeld
<1>4. ASSUME NEW t \in Trades, PublishHeard(t) PROVE HeldInv'
  <2>1. /\ trades'.pc # "schedule" /\ trades'.trade = {} /\ trades.trade = {t}
        /\ (active => ledger' = ledger \cup {t})
        /\ UNCHANGED <<active, buffer, gate, owed, snapshot, heard, skipped, abandoned>>
      BY <1>4, EmptyHands DEF PublishHeard, history
  <2>2. active => Held' = Held BY <2>1 DEF Held
  <2> QED BY <2>1, <2>2 DEF HeldInv, InHandIsKept, SnapshotIsWhole, HeardIsHeld
<1>5. CASE TradesBreak
  <2>1. trades'.pc # "schedule" /\ owed' = TRUE /\ snapshot'.some = FALSE
      BY <1>5, EmptyHands DEF TradesBreak, StreamEnds, NoSnapshot
  <2> QED BY <2>1 DEF HeldInv, InHandIsKept, SnapshotIsWhole, HeardIsHeld
<1>6. CASE Reopen
  <2>1. /\ trades'.pc # "schedule" /\ trades.trade = {} /\ trades'.trade = {}
        /\ UNCHANGED <<active, buffer, ledger, gate, owed, snapshot, heard, skipped, abandoned>>
      BY <1>6, EmptyHands DEF Reopen, history, IInv, TypeOK
  <2>2. Held' = Held BY <2>1 DEF Held
  <2> QED BY <2>1, <2>2 DEF HeldInv, InHandIsKept, SnapshotIsWhole, HeardIsHeld
<1> QED BY <1>1, <1>2, <1>3, <1>4, <1>5, <1>6

\* A snapshot records what it has or skips it; a gap that is given up sets it aside.
LEMMA RecoveryKeepsHeld ==
    ASSUME IInv, HeldInv, Next, Recovery \/ GiveGapUp \/ Drain
    PROVE  HeldInv'
<1>0. buffer \cup gate.rest \cup ledger \subseteq buffer' \cup gate'.rest \cup ledger'
    BY NothingIsDropped
<1>1. CASE ReadSnapshot
  <2>1. snapshot'.of = heard' /\ owed' = TRUE
        /\ UNCHANGED <<active, buffer, ledger, gate, trades, owed>>
      BY <1>1 DEF ReadSnapshot, IInv, TypeOK
  <2> QED BY <2>1 DEF HeldInv, InHandIsKept, SnapshotIsWhole, HeardIsHeld
<1>2. CASE PublishSnapshot
  <2>1. PICK bad \in SUBSET snapshot.of :
           /\ active => ledger' = ledger \cup (snapshot.of \ bad)
           /\ skipped' = skipped \cup bad
      BY <1>2 DEF PublishSnapshot
  <2>2. UNCHANGED <<active, gate, trades, heard, abandoned>> /\ snapshot.some /\ snapshot'.some = FALSE
      BY <1>2 DEF PublishSnapshot, NoSnapshot
  <2>3. Held \subseteq Held' BY <1>0, <2>2 DEF Held
  <2>4. ledger' \subseteq Held' BY DEF Held
  <2> QED BY <1>0, <2>1, <2>2, <2>3, <2>4 DEF HeldInv, InHandIsKept, SnapshotIsWhole, HeardIsHeld
<1>3. CASE GiveGapUp
  <2>1. /\ abandoned' = abandoned \cup (heard \ Held) /\ snapshot.some = FALSE
        /\ UNCHANGED <<active, buffer, ledger, gate, trades, snapshot, heard, skipped>>
      BY <1>3 DEF GiveGapUp, IInv, TypeOK
  <2>2. Held' = Held BY <2>1 DEF Held
  <2> QED BY <2>1, <2>2 DEF HeldInv, InHandIsKept, SnapshotIsWhole, HeardIsHeld
<1>4. CASE Drain
  <2>1. heard' = {} /\ trades'.pc # "schedule" BY <1>4, EmptyHands DEF Drain
  <2> QED BY <2>1 DEF HeldInv, InHandIsKept, SnapshotIsWhole, HeardIsHeld
<1> QED BY <1>1, <1>2, <1>3, <1>4 DEF Recovery

LEMMA NextHeld == IInv /\ HeldInv /\ [Next]_vars => HeldInv'
<1> SUFFICES ASSUME IInv, HeldInv, [Next]_vars PROVE HeldInv' OBVIOUS
<1>1. CASE UNCHANGED vars
    BY <1>1 DEF vars, streams, history, HeldInv, InHandIsKept, SnapshotIsWhole, HeardIsHeld, Held
<1>2. CASE Next
  <2>1. ASSUME NEW t \in Trades, Hear(t) PROVE HeldInv' BY <1>2, <2>1, TradesKeepHeld
  <2>2. CASE TradesStep BY <1>2, <2>2, TradesKeepHeld DEF TradesStep
  <2>3. CASE TradesBreak \/ Reopen BY <1>2, <2>3, TradesKeepHeld
  <2>4. ASSUME NEW p, NEW o \in Orders, TakeBuffered(p, o) \/ Decline(p, o) PROVE Aside
    <3>1. CASE TakeBuffered(p, o) BY <3>1 DEF Aside, TakeBuffered, streams, history
    <3>2. CASE Decline(p, o) BY <3>2 DEF Aside, Decline, history
    <3> QED BY <2>4, <3>1, <3>2
  <2>5. ASSUME NEW o \in Orders, TaskStep(o) PROVE HeldInv'
    <3>1. Aside BY <2>4, <2>5 DEF TaskStep, FinishIfIdle, Identified, Unidentified, Exclude, CannotExclude,
                                  Aside, streams, history
    <3> QED BY <1>2, <3>1, AsideKeepsHeld
  <2>6. ASSUME NEW o \in Orders, OtherStep(o) PROVE HeldInv'
    <3>1. Aside BY <2>4, <2>6 DEF OtherStep, Learn, OrderEvent, RegularFound, StopChildFound, GiveUp,
                                  Aside, streams, history
    <3> QED BY <1>2, <3>1, AsideKeepsHeld
  <2>7. CASE GateStep
    <3>1. ASSUME Published PROVE Aside BY <3>1 DEF Published, Aside, history
    <3>2. ASSUME RestoreUnprocessed PROVE Aside BY <3>2 DEF RestoreUnprocessed, Aside
    <3>3. ASSUME NEW t \in Trades, ProjectNext(t) PROVE Aside
        BY <3>3 DEF ProjectNext, Aside, streams, history
    <3>4. Aside BY <2>7, <3>1, <3>2, <3>3 DEF GateStep
    <3> QED BY <1>2, <3>4, AsideKeepsHeld
  <2>8. CASE Recovery \/ GiveGapUp \/ Drain BY <1>2, <2>8, RecoveryKeepsHeld
  <2>9. CASE Disconnect
    <3>1. Aside BY <2>9 DEF Disconnect, Aside, streams, history
    <3> QED BY <1>2, <3>1, AsideKeepsHeld
  <2> QED BY <1>2, <2>1, <2>2, <2>3, <2>5, <2>6, <2>7, <2>8, <2>9 DEF Next
<1> QED BY <1>1, <1>2

-----------------------------------------------------------------------------

\* The invariant of the buffer and its publishers, in every reachable state.
THEOREM BufferInvariant == Spec => []IInv
<1> QED BY InitIInv, NextIInv, PTL DEF Spec

\* The state keeps its shape, for any trades, orders, limits and attempts.
THEOREM TypeCorrect == Spec => []TypeOK
<1>1. IInv => TypeOK BY DEF IInv
<1> QED BY BufferInvariant, <1>1, PTL

\* While the session lasts, a buffered fill has a task that will publish it, or
\* gets one in the stream's next step, or is one of the fills set aside
\* (schedule_unresolved_trade_reconciliation and
\* finish_unresolved_trade_reconciliation_if_idle).
THEOREM FillsAreWatched == Spec => []BufferedIsWatched
<1>1. IInv => BufferedIsWatched BY DEF IInv
<1> QED BY BufferInvariant, <1>1, PTL

\* While the session lasts, a trade the client was told of is held, or a
\* reconciliation is owed that will read it, but for the fills a snapshot skips
\* and a gap that was given up (recovery_from, publish_reconnect_snapshot).
THEOREM HeardFillsAreHeld == Spec => []HeardIsHeld
<1>1. HeldInv => HeardIsHeld BY DEF HeldInv
<1> QED BY BufferInvariant, InitHeld, NextHeld, <1>1, PTL DEF Spec

\* No step drops a buffered fill: it is in the buffer, in the publisher's hands
\* or in the ledger (publish_buffered_trade_fills_for_venue,
\* settle_reconciled_buffered_trade_fill).
THEOREM BufferedIsKept == Spec => NoFillIsDropped
<1> DEFINE Kept == buffer \cup gate.rest \subseteq buffer' \cup gate'.rest \cup ledger'
<1>1. IInv /\ Next => Kept BY NothingIsDropped
<1>2. UNCHANGED vars => Kept BY DEF vars
<1>3. IInv /\ [Next]_vars => [Kept]_vars BY <1>1, <1>2
<1> QED BY BufferInvariant, <1>3, PTL DEF Spec, NoFillIsDropped

=============================================================================
