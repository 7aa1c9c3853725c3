------------------------------ MODULE BarStreams ------------------------------
(***************************************************************************)
(* One-minute bars of the market data client: the subscription snapshot    *)
(* and its generations, the supervised broker streams with their isolated  *)
(* retry children, the periodic poll, GetCandles recovery and the shared   *)
(* continuity cursor (market_data/client.rs, continuity.rs).               *)
(*                                                                         *)
(* A worker is a task; between two awaits it may be overtaken by a call    *)
(* that replaces the snapshot, so what it read before is fenced by its key *)
(* when it publishes.  The broker forms a candle per traded minute, feeds  *)
(* it to the open streams and answers GetCandles with the complete ones.   *)
(*                                                                         *)
(* Left out: a candle that cannot be converted or whose event the host's   *)
(* closed channel refuses (a live one is dropped with a warning, and the   *)
(* next bar passes it), and a host that opts out of subscriptions on       *)
(* reconnect, whose connect forgets what was subscribed and how far it was *)
(* received.                                                               *)
(***************************************************************************)
EXTENDS Integers, SequencesExt

CONSTANTS
    Instruments,
    MaxMinute,     \* bound on the minutes the exchange closes
    MaxGeneration, \* bound on the bar stream generations
    MaxFaults,     \* bound on the failures of the broker and panics of workers
    MaxBuffer,     \* MAX_PRE_ACK_MESSAGES
    Lag,           \* how many minutes a closed candle may stay incomplete
    Trading,       \* the sets of instruments that may trade in a minute
    PollChoices,   \* what periodic_candle_poll_instrument_ids may be
    Cached         \* the instruments whose last bar the host's cache holds

\* The first minute that closes after the start.
FirstMinute == 2
CachedBar == FirstMinute - 1

\* The key of a group of streamed instruments.
Group == "group"

ASSUME BarsAssumption ==
    /\ MaxMinute \in Nat /\ MaxMinute >= FirstMinute /\ MaxGeneration \in Nat
    /\ MaxFaults \in Nat /\ MaxBuffer \in Nat /\ Lag \in Nat
    /\ IsFiniteSet(Instruments) /\ Group \notin Instruments
    /\ Trading \subseteq SUBSET Instruments /\ PollChoices \subseteq SUBSET Instruments

VARIABLES
    minute,      \* latest closed minute by the client's clock
    sealed,      \* latest minute whose candles the exchange has completed
    traded,      \* <<instrument, minute>>: the candles the exchange has formed
    faults,      \* failures so far
    polled,      \* periodic_candle_poll_instrument_ids
    subscribed,  \* bar_subscriptions, kept while disconnected
    online,      \* the session is connected
    generation,  \* bar_stream_generation
    expected,    \* the keys of the current snapshot (expected_groups)
    nonOp,       \* non_operational_groups
    watermark,   \* bar_watermarks, 0 if none
    worker,      \* the stream supervisors, retry children and poll loops
    readiness,   \* the last candle readiness published for an instrument
    published,   \* the bars sent to the host, in order
    base,        \* history: the bars after this minute are owed to the host
    skipped      \* history: asked of GetCandles before they were complete

exchange == <<minute, sealed, traded>>
desired  == <<subscribed, online>>
health   == <<expected, nonOp>>
data     == <<watermark, published, base, skipped>>
barVars == <<exchange, faults, polled, desired, generation, health, data, worker, readiness>>

\* A group carries the streamed instruments of a snapshot; an instrument's own
\* key is its poll when it is polled, else its isolated retry stream.
TaskKeys == [gen : 1..MaxGeneration, role : {Group} \cup Instruments]
Parent(k)   == [k EXCEPT !.role = Group]
Children(k) == IF k.role = Group
                 THEN {c \in TaskKeys : c.gen = k.gen /\ c.role \notin {Group} \cup polled} ELSE {}
IsPoll(k)   == k.role \in polled
Current(k)  == k \in expected
\* Readiness of a streamed instrument is fenced by the snapshot's group.
ReadinessKey(k) == IF IsPoll(k) THEN k ELSE Parent(k)

Idle == [pc |-> "off", asked |-> {}, kind |-> {}, cursor |-> [i \in Instruments |-> 0],
         pending |-> FALSE, ready |-> FALSE, refused |-> FALSE, feed |-> {},
         answer |-> <<>>, wire |-> <<>>, buffer |-> <<>>, hand |-> <<>>,
         jobs |-> {}, upto |-> 0, failed |-> FALSE, probe |-> FALSE]

BarsInit ==
    /\ minute = FirstMinute /\ sealed = FirstMinute /\ faults = 0
    /\ traded = Instruments \X {FirstMinute}
    /\ polled \in PollChoices
    /\ subscribed = Instruments /\ online = FALSE
    /\ generation = 0 /\ expected = {} /\ nonOp = {}
    /\ watermark = [i \in Instruments |-> 0]
    /\ published = [i \in Instruments |-> <<>>]
    /\ base = [i \in Instruments |-> 0]
    /\ skipped = [i \in Instruments |-> {}]
    /\ worker = [k \in TaskKeys |-> Idle]
    /\ readiness = [i \in Instruments |-> [state |-> "none", through |-> 0]]

-----------------------------------------------------------------------------
\* The exchange and the broker's streams

Larger(x, y)      == IF x > y THEN x ELSE y
Candle(i, m)      == [instrument |-> i, minute |-> m]
Answer(no, never) == [retry |-> no, never |-> never]
IsCandle(msg)     == "minute" \in DOMAIN msg

\* The client's clock passes a minute whose candles are not complete yet.
Tick ==
    /\ minute < MaxMinute /\ minute < sealed + Lag
    /\ minute' = minute + 1
    /\ UNCHANGED <<sealed, traded, faults, polled, desired, generation, health, data, worker, readiness>>

\* The exchange completes a minute and sends its candles (waiting_close).
Seal ==
    /\ sealed < MaxMinute
    /\ sealed' = sealed + 1 /\ minute' = Larger(minute, sealed')
    /\ \E S \in Trading :
          /\ traded' = traded \cup (S \X {sealed'})
          /\ worker' = [k \in TaskKeys |-> [worker[k] EXCEPT !.wire =
                @ \o SetToSeq({Candle(i, sealed') : i \in S \cap worker[k].feed})]]
    /\ UNCHANGED <<faults, polled, desired, generation, health, data, readiness>>

\* GetCandles: the complete candles after one minute, up to another.
GetCandles(i, from, to) ==
    [instrument |-> i, bars |-> {m \in 1..to : <<i, m>> \in traded /\ from < m},
     late |-> {m \in 1..to : sealed < m}]

\* The broker answers a subscription, possibly after it has sent candles.
Acknowledge(k) ==
    /\ worker[k].answer # <<>>
    /\ worker' = [worker EXCEPT ![k].wire = @ \o worker[k].answer, ![k].answer = <<>>]
    /\ UNCHANGED <<exchange, faults, polled, desired, generation, health, data, readiness>>

-----------------------------------------------------------------------------
\* The subscription snapshot

\* Work between two awaits goes on after a cancellation; the rest ends there.
MidStep == {"holding", "judging", "fetched"}
Cancelled(W) == IF W.pc \in MidStep THEN W ELSE Idle

\* Fences and cancels the old generation.
Invalidate ==
    /\ generation < MaxGeneration
    /\ generation' = generation + 1

Snapshot(S) ==
    {k \in TaskKeys : /\ k.gen = generation'
                  /\ \/ k.role = Group /\ S \ polled # {}
                     \/ k.role \in S \cap polled}

\* Seeds the watermarks from the cache and starts the tasks of a new snapshot.
Schedule(S) ==
    LET marks == [i \in Instruments |->
                    IF i \in S \cap Cached THEN Larger(watermark[i], CachedBar) ELSE watermark[i]]
    IN  /\ Invalidate
        /\ watermark' = marks
        /\ base' = [i \in Instruments |->
                      IF watermark[i] = 0 /\ marks[i] # 0 THEN marks[i] ELSE base[i]]
        /\ expected' = Snapshot(S) /\ nonOp' = Snapshot(S)
        /\ worker' = [k \in TaskKeys |->
              IF k \notin Snapshot(S) THEN Cancelled(worker[k])
              ELSE IF k.role = Group
                THEN [Idle EXCEPT !.pc = "starting", !.asked = S \ polled]
                ELSE [Idle EXCEPT !.pc = "polling", !.asked = {k.role},
                                  !.cursor[k.role] = marks[k.role]]]

\* Subscribe and unsubscribe replace the snapshot; offline only the wish is kept.
ChangeSubscriptions ==
    /\ \E i \in Instruments :
          subscribed' = IF i \in subscribed THEN subscribed \ {i} ELSE subscribed \cup {i}
    /\ IF online THEN Schedule(subscribed')
       ELSE Invalidate /\ UNCHANGED <<watermark, base, health, worker>>
    /\ UNCHANGED <<exchange, faults, polled, online, published, skipped, readiness>>

\* A connect first ends the session it replaces and waits for its tasks.
Connect ==
    /\ ~online /\ \A k \in TaskKeys : worker[k].pc = "off"
    /\ online' = TRUE
    /\ Schedule(subscribed)
    /\ UNCHANGED <<exchange, faults, polled, subscribed, published, skipped, readiness>>

Disconnect ==
    /\ online
    /\ online' = FALSE
    /\ Invalidate
    /\ expected' = {} /\ nonOp' = {}
    /\ worker' = [k \in TaskKeys |-> Cancelled(worker[k])]
    /\ UNCHANGED <<exchange, faults, polled, subscribed, data, readiness>>

-----------------------------------------------------------------------------
\* Steps of a stream worker

Fault == faults < MaxFaults /\ faults' = faults + 1
Move(k, W)  == worker' = [worker EXCEPT ![k] = W]
Down(k)     == nonOp' = IF Current(k) THEN nonOp \cup {k} ELSE nonOp
Up(k)       == nonOp' = nonOp \ {k}
Show(k, is, state, through) ==
    readiness' = IF Current(ReadinessKey(k))
      THEN [i \in Instruments |->
              IF i \in is THEN [state |-> state, through |-> through] ELSE readiness[i]]
      ELSE readiness
Stream(k) == ~IsPoll(k)

\* The broker's side and everything in flight go with the stream.
Closed(W) == [W EXCEPT !.ready = FALSE, !.feed = {}, !.answer = <<>>, !.wire = <<>>,
                       !.buffer = <<>>, !.hand = <<>>, !.jobs = {}, !.upto = 0,
                       !.failed = FALSE]

\* mutation: nothing is recovered behind a reopened stream
Backoff_Forgets(W) == [Closed(W) EXCEPT !.pc = "backoff"]

\* Whatever is missed until the next acknowledgement is to be recovered.
Backoff(W) == [Closed(W) EXCEPT !.pc = "backoff", !.pending = TRUE]

\* A worker begins with the original subscription and the shared watermarks.
Begin(k) ==
    /\ worker[k].pc \in {"starting", "restarting"}
    /\ Move(k, [Idle EXCEPT !.pc = "opening", !.asked = worker[k].asked, !.kind = worker[k].asked,
                            !.pending = TRUE,
                            !.cursor = [i \in Instruments |->
                               IF i \in worker[k].asked THEN watermark[i] ELSE 0]])
    /\ UNCHANGED <<exchange, faults, polled, desired, generation, health, data, readiness>>

\* The broker takes the request; it may refuse some instruments, for now or for good.
Open(k) ==
    /\ worker[k].pc = "opening"
    /\ \E no, never \in SUBSET worker[k].kind :
          /\ no \cap never = {}
          /\ IF no \cup never = {} THEN faults' = faults ELSE Fault
          /\ Move(k, [worker[k] EXCEPT !.pc = "listening", !.answer = <<Answer(no, never)>>,
                                       !.feed = worker[k].kind \ (no \cup never)])
    /\ UNCHANGED <<exchange, polled, desired, generation, health, data, readiness>>

\* The stream fails to open, closes, breaks or falls silent; what it held is lost.
Interrupted(k) ==
    /\ worker[k].pc \in {"opening", "listening"}
    /\ worker[k].ready => worker[k].buffer = <<>>
    /\ Fault
    /\ Move(k, Backoff(worker[k]))
    /\ Down(k)
    /\ UNCHANGED <<exchange, polled, desired, generation, expected, data, readiness>>

\* The wait before a stream is reopened; with the retry budget spent, history is
\* recovered first, on the closed stream and without announcing readiness.
Reopen(k) ==
    /\ worker[k].pc = "backoff"
    /\ \/ Move(k, [worker[k] EXCEPT !.pc = "opening"])
       \/ Move(k, [worker[k] EXCEPT !.pc = "recovering", !.probe = TRUE, !.upto = minute,
                     !.jobs = {i \in @ \cup worker[k].kind :
                                 worker[k].cursor[i] # 0 /\ worker[k].cursor[i] < minute}])
    /\ UNCHANGED <<exchange, faults, polled, desired, generation, health, data, readiness>>

\* A message is taken from the wire, or from the buffer once the stream is ready.
Receive(k) ==
    /\ worker[k].pc = "listening"
    /\ IF worker[k].ready /\ worker[k].buffer # <<>>
         THEN Move(k, [worker[k] EXCEPT !.pc = "holding", !.buffer = Tail(@),
                                        !.hand = <<Head(worker[k].buffer)>>])
         ELSE /\ worker[k].wire # <<>>
              /\ LET msg == Head(worker[k].wire)
                 IN  Move(k, [worker[k] EXCEPT !.wire = Tail(@), !.hand = <<msg>>,
                                !.pc = IF IsCandle(msg) THEN "holding" ELSE "judging"])
    /\ UNCHANGED <<exchange, faults, polled, desired, generation, health, data, readiness>>

\* A stale worker drops what it holds and meets its cancellation.
Superseded(k) ==
    /\ worker[k].pc \in MidStep /\ ~Current(k)
    /\ Move(k, Idle)
    /\ UNCHANGED <<exchange, faults, polled, desired, generation, health, data, readiness>>

\* Before the acknowledgement usable candles wait, up to a limit.
Hold(k) ==
    /\ worker[k].pc = "holding" /\ ~worker[k].ready /\ Current(k)
    /\ LET W == worker[k]
           usable == W.hand[1].instrument \in W.kind
       IN  IF usable /\ Len(W.buffer) >= MaxBuffer
             THEN Move(k, Backoff(W)) /\ Down(k)
             ELSE /\ Move(k, [W EXCEPT !.pc = "listening", !.hand = <<>>,
                                       !.buffer = IF usable THEN @ \o W.hand ELSE @])
                  /\ UNCHANGED nonOp
    /\ UNCHANGED <<exchange, faults, polled, desired, generation, expected, data, readiness>>

\* A live bar and its cursor are one step under the key's lock.
PublishLive(k) ==
    /\ worker[k].pc = "holding" /\ worker[k].ready /\ Current(k)
    /\ LET W == worker[k]
           i == W.hand[1].instrument
           m == W.hand[1].minute
           next == [W EXCEPT !.pc = "listening", !.hand = <<>>]
       IN  IF i \in W.kind /\ m > W.cursor[i]
             THEN /\ published' = [published EXCEPT ![i] = Append(@, m)]
                  /\ skipped' = skipped
                  /\ watermark' = [watermark EXCEPT ![i] = Larger(@, m)]
                  /\ base' = [base EXCEPT ![i] = IF watermark[i] = 0 THEN m - 1 ELSE @]
                  /\ Move(k, [next EXCEPT !.cursor[i] = m])
                  /\ IF watermark[i] = 0 THEN Show(k, {i}, "Ready", m) ELSE UNCHANGED readiness
             ELSE Move(k, next) /\ UNCHANGED <<data, readiness>>
    /\ UNCHANGED <<exchange, faults, polled, desired, generation, health>>

\* mutation: the latest closed minute is not asked for
Behind_Short(W, is) == {i \in is : W.pending /\ W.cursor[i] # 0 /\ W.cursor[i] + 1 < minute}

\* The gap to recover behind an acknowledgement, if one is due.
Behind(W, is)  == {i \in is : W.pending /\ W.cursor[i] # 0 /\ W.cursor[i] < minute}
\* mutation: ready as soon as acknowledged
Level_Eager(W, is) == {i \in is : W.pending}

Level(W, is) == {i \in is : W.pending /\ W.cursor[i] >= minute}
CatchUp(W, is) == [W EXCEPT !.pc = "recovering", !.kind = is, !.hand = <<>>, !.probe = FALSE,
                            !.upto = minute, !.jobs = Behind(W, is), !.pending = FALSE]

\* The isolated streams a worker owns end with it.
Owned(k)   == Children(k) \cap expected
Without(k) == [c \in TaskKeys |-> IF c \in Owned(k) THEN Cancelled(worker[c]) ELSE worker[c]]

\* Every instrument is accepted, or none of the ones still asked for is refused.
AcceptAll(k) ==
    /\ worker[k].pc = "judging" /\ Current(k)
    /\ LET W == worker[k] IN
          /\ W.kind \cap (W.hand[1].retry \cup W.hand[1].never) = {}
          /\ Move(k, CatchUp(W, W.kind))
          /\ Show(k, Level(W, W.kind), "Ready", minute)
    /\ UNCHANGED <<exchange, faults, polled, desired, generation, health, data>>

\* Some are refused: the retryable ones move to streams of their own, and one
\* refused for good keeps the group from being operational.
AcceptSome(k) ==
    /\ worker[k].pc = "judging" /\ Current(k)
    /\ LET W == worker[k]
           no == W.hand[1].retry
           never == W.hand[1].never
           ok == W.kind \ (no \cup never)
           started == {c \in Children(k) : c.role \in no}
       IN  /\ ok # {} /\ no \cup never # {}
           /\ worker' = [c \in TaskKeys |->
                 IF c = k THEN CatchUp([W EXCEPT !.refused = @ \/ never # {}], ok)
                 ELSE IF c \in started
                   THEN [Idle EXCEPT !.pc = "starting", !.asked = {c.role}]
                   ELSE worker[c]]
           /\ expected' = expected \cup started
           /\ nonOp' = nonOp \cup started \cup (IF never # {} THEN {k} ELSE {})
           /\ readiness' = [i \in Instruments |->
                 IF i \in never THEN [state |-> "Failed", through |-> 0]
                 ELSE IF i \in Level(W, ok) THEN [state |-> "Ready", through |-> minute]
                 ELSE readiness[i]]
    /\ UNCHANGED <<exchange, faults, polled, desired, generation, data>>

\* All are refused: those refused for good leave, and the rest is asked again.
RefuseAll(k) ==
    /\ worker[k].pc = "judging" /\ Current(k)
    /\ LET W == worker[k]
           no == W.hand[1].retry
           never == W.hand[1].never
       IN  /\ W.kind \subseteq no \cup never /\ no # {}
           /\ Move(k, Backoff([W EXCEPT !.kind = @ \ never, !.refused = @ \/ never # {}]))
           /\ Show(k, never, "Failed", 0)
    /\ Down(k)
    /\ UNCHANGED <<exchange, faults, polled, desired, generation, expected, data>>

\* mutation: the isolated streams stay in the account of the health
EndForGood_KeepsChildren(k, failed) ==
    /\ worker' = [Without(k) EXCEPT ![k] = [Idle EXCEPT !.pc = "done", !.asked = worker[k].asked]]
    /\ expected' = expected \ Owned(k)
    /\ nonOp' = nonOp \cup {k}
    /\ Show(k, failed, "Failed", 0)

\* The stream ends for good, by its acknowledgement or by its status.
EndForGood(k, failed) ==
    /\ worker' = [Without(k) EXCEPT ![k] = [Idle EXCEPT !.pc = "done", !.asked = worker[k].asked]]
    /\ expected' = expected \ Owned(k)
    /\ nonOp' = (nonOp \ Owned(k)) \cup {k}
    /\ Show(k, failed, "Failed", 0)

RefuseForGood(k) ==
    /\ worker[k].pc = "judging" /\ Current(k)
    /\ worker[k].kind \subseteq worker[k].hand[1].never
    /\ EndForGood(k, worker[k].kind)
    /\ UNCHANGED <<exchange, faults, polled, desired, generation, data>>

Permanent(k) ==
    /\ worker[k].pc \in {"opening", "listening"} /\ Current(k)
    /\ worker[k].ready => worker[k].buffer = <<>>
    /\ Fault
    /\ EndForGood(k, {})
    /\ UNCHANGED <<exchange, polled, desired, generation, data>>

\* One instrument's range is asked of GetCandles.
Fetch(k) ==
    /\ worker[k].pc = "recovering"
    /\ \E i \in worker[k].jobs :
          /\ Move(k, [worker[k] EXCEPT !.pc = "fetched",
                        !.hand = <<GetCandles(i, worker[k].cursor[i], worker[k].upto)>>])
          /\ Show(k, {i}, "Recovering", 0)
    /\ UNCHANGED <<exchange, faults, polled, desired, generation, health, data>>

FetchFails(k) ==
    /\ worker[k].pc = "recovering" /\ Fault
    /\ \E i \in worker[k].jobs :
          /\ Move(k, [worker[k] EXCEPT !.jobs = @ \ {i}, !.failed = TRUE])
          /\ Show(k, {i}, "Failed", 0)
    /\ UNCHANGED <<exchange, polled, desired, generation, health, data>>

\* The bars of a range are published in the order of their minutes.
Ascending(S) ==
    CHOOSE q \in [1..Cardinality(S) -> S] :
        \A x, y \in 1..Cardinality(S) : x < y => q[x] < q[y]

\* The batch, the cursor and the watermark are one step under the key's lock; the
\* cursor passes the whole range, traded or not.
Commit(i, answer, upto) ==
    /\ published' = [published EXCEPT ![i] = @ \o Ascending(answer.bars)]
    /\ watermark' = [watermark EXCEPT ![i] = Larger(@, upto)]
    /\ skipped' = [skipped EXCEPT ![i] = @ \cup answer.late]

\* mutation: the worker's cursor stays behind what was recovered
PublishBatch_Behind(k) ==
    /\ worker[k].pc = "fetched" /\ Current(k) /\ Stream(k)
    /\ LET W == worker[k]
           i == W.hand[1].instrument
       IN  /\ Commit(i, W.hand[1], W.upto)
           /\ Move(k, [W EXCEPT !.pc = "recovering", !.jobs = @ \ {i}, !.hand = <<>>])
           /\ IF W.probe THEN UNCHANGED readiness ELSE Show(k, {i}, "Ready", W.upto)
    /\ UNCHANGED <<exchange, faults, polled, desired, generation, health, base>>

PublishBatch(k) ==
    /\ worker[k].pc = "fetched" /\ Current(k) /\ Stream(k)
    /\ LET W == worker[k]
           i == W.hand[1].instrument
       IN  /\ Commit(i, W.hand[1], W.upto)
           /\ Move(k, [W EXCEPT !.pc = "recovering", !.jobs = @ \ {i}, !.hand = <<>>,
                                !.cursor[i] = Larger(@, W.upto)])
           /\ IF W.probe THEN UNCHANGED readiness ELSE Show(k, {i}, "Ready", W.upto)
    /\ UNCHANGED <<exchange, faults, polled, desired, generation, health, base>>

\* Recovery is over: a probe opens the stream again, a failure closes it, and
\* otherwise the stream is ready.
Recovered(k) ==
    /\ worker[k].pc = "recovering" /\ worker[k].jobs = {}
    /\ LET W == worker[k] IN
       \/ /\ W.probe
          /\ Move(k, [Closed(W) EXCEPT !.pc = "opening", !.pending = TRUE, !.probe = FALSE])
          /\ UNCHANGED nonOp
       \/ /\ ~W.probe /\ W.failed
          /\ Move(k, Backoff(W)) /\ Down(k)
       \/ /\ ~W.probe /\ ~W.failed
          /\ Move(k, [W EXCEPT !.pc = "listening", !.ready = TRUE, !.upto = 0])
          /\ IF W.refused THEN UNCHANGED nonOp ELSE Up(k)
    /\ UNCHANGED <<exchange, faults, polled, desired, generation, expected, data, readiness>>

\* A panic drops the worker and its children; the supervisor then starts it anew.
Panic(k) ==
    /\ worker[k].pc \in {"listening", "holding", "judging", "recovering", "fetched"}
    /\ Current(k) /\ Stream(k)
    /\ Fault
    /\ worker' = [Without(k) EXCEPT ![k] = [Idle EXCEPT !.pc = "crashed", !.asked = worker[k].asked]]
    /\ expected' = expected \ Owned(k)
    /\ nonOp' = nonOp \ Owned(k)
    /\ UNCHANGED <<exchange, polled, desired, generation, data, readiness>>

NoticePanic(k) ==
    /\ worker[k].pc = "crashed"
    /\ Move(k, [worker[k] EXCEPT !.pc = "restarting"])
    /\ Down(k)
    /\ UNCHANGED <<exchange, faults, polled, desired, generation, expected, data, readiness>>

-----------------------------------------------------------------------------
\* The periodic poll of one instrument

\* A panic ends the one task that polls for a snapshot.  Nobody starts it anew,
\* and the health keeps what it last said of its keys.
PollPanics(k) ==
    /\ worker[k].pc \in {"polling", "fetched"}
    /\ Current(k) /\ IsPoll(k)
    /\ Fault
    /\ worker' = [c \in TaskKeys |-> IF IsPoll(c) /\ c.gen = k.gen THEN Idle ELSE worker[c]]
    /\ UNCHANGED <<exchange, polled, desired, generation, health, data, readiness>>

\* Without a baseline the poll starts at the minute of its first round.
PollFrom(k) == IF worker[k].cursor[k.role] = 0 THEN minute - 1 ELSE worker[k].cursor[k.role]

PollLevel(k) ==
    /\ worker[k].pc = "polling" /\ PollFrom(k) >= minute
    /\ Up(k) /\ Show(k, {k.role}, "Ready", minute)
    /\ UNCHANGED <<exchange, faults, polled, desired, generation, expected, data, worker>>

Poll(k) ==
    /\ worker[k].pc = "polling" /\ PollFrom(k) < minute
    /\ LET asked == [worker[k] EXCEPT !.cursor[k.role] = PollFrom(k)]
       IN  \/ /\ Move(k, [asked EXCEPT !.pc = "fetched", !.upto = minute,
                   !.hand = <<GetCandles(k.role, PollFrom(k), minute)>>])
              /\ UNCHANGED <<faults, nonOp, readiness>>
           \/ /\ Fault
              /\ Move(k, asked)
              /\ Down(k) /\ Show(k, {k.role}, "Failed", 0)
    /\ UNCHANGED <<exchange, polled, desired, generation, expected, data>>

PollPublished(k) ==
    /\ worker[k].pc = "fetched" /\ Current(k) /\ IsPoll(k)
    /\ LET W == worker[k]
           i == k.role
       IN  /\ Commit(i, W.hand[1], W.upto)
           /\ base' = [base EXCEPT ![i] = IF watermark[i] = 0 THEN W.cursor[i] ELSE @]
           /\ Move(k, [W EXCEPT !.pc = "polling", !.hand = <<>>, !.upto = 0, !.cursor[i] = W.upto])
           /\ Show(k, {i}, "Ready", W.upto)
    /\ Up(k)
    /\ UNCHANGED <<exchange, faults, polled, desired, generation, expected>>

-----------------------------------------------------------------------------
\* Progress of a worker that waits for nobody's decision; Failures may be spared.
StreamStep(k) ==
    \/ Begin(k) \/ Open(k) \/ Reopen(k) \/ Receive(k) \/ Superseded(k) \/ Hold(k)
    \/ PublishLive(k) \/ AcceptAll(k) \/ AcceptSome(k) \/ RefuseAll(k) \/ RefuseForGood(k)
    \/ Fetch(k) \/ PublishBatch(k) \/ Recovered(k) \/ NoticePanic(k)
PollStep(k) == PollLevel(k) \/ Poll(k) \/ PollPublished(k)
Failure(k)  == Interrupted(k) \/ FetchFails(k) \/ Permanent(k) \/ Panic(k)
               \/ PollPanics(k)

BarsNext ==
    \/ Tick \/ Seal
    \/ ChangeSubscriptions \/ Connect \/ Disconnect
    \/ \E k \in TaskKeys : Acknowledge(k) \/ StreamStep(k) \/ PollStep(k) \/ Failure(k)

\* A task runs on, or the broker answers what it was asked.
Fairness == \A k \in TaskKeys : WF_barVars(Acknowledge(k) \/ StreamStep(k) \/ PollStep(k))

BarsSpec == BarsInit /\ [][BarsNext]_barVars /\ Fairness

-----------------------------------------------------------------------------
\* Properties

\* The bars the host may rely on: those the code's own cursor did not skip.
Owed(i) == {m \in 1..MaxMinute : <<i, m>> \in traded /\ base[i] < m}
Due(i)  == Owed(i) \ skipped[i]
Sent(i) == {published[i][n] : n \in DOMAIN published[i]}

\* The health bookkeeping is consistent: every key held against the session's
\* health belongs to the current snapshot, through retirements, children that
\* end with their parent and panics (no_operational_stream_count).
BarsTypeOK ==
    /\ nonOp \subseteq expected /\ expected \subseteq TaskKeys
    /\ \A i \in Instruments :
          /\ watermark[i] \in 0..MaxMinute /\ base[i] \in 0..MaxMinute
          /\ skipped[i] \subseteq 1..MaxMinute
    /\ \A k \in TaskKeys :
          /\ worker[k].asked \subseteq Instruments /\ worker[k].kind \subseteq worker[k].asked
          /\ Len(worker[k].buffer) <= MaxBuffer /\ Len(worker[k].hand) <= 1

\* The host gets the bars of an instrument in order and each one once, though a
\* live stream, the buffer before its acknowledgement, a recovered range, an
\* isolated retry stream, a poll and a worker of the last snapshot may all hold
\* the same bar.
BarsInOrder ==
    \A i \in Instruments : \A x, y \in DOMAIN published[i] :
       x < y => published[i][x] < published[i][y]

\* When a candle source is announced Ready through a minute, the host has every
\* bar of the instrument up to that minute (CandleReadiness::ready_through).
ReadyIsComplete ==
    \A i \in Instruments : readiness[i].state = "Ready" =>
       \A m \in Due(i) : m <= readiness[i].through => m \in Sent(i)

Carries(W, i, m) ==
    \E msg \in Range(W.wire) \cup Range(W.buffer) \cup Range(W.hand) :
       IsCandle(msg) /\ msg.instrument = i /\ msg.minute = m

\* While the session reports connected (nothing is non-operational), a bar of a
\* streamed instrument has been sent or is on its way: no interruption,
\* rejection or failed recovery may leave a hole behind a healthy stream.
NothingIsMissed ==
    online /\ nonOp = {} /\ (\A k \in expected : worker[k].pc # "crashed") =>
      \A i \in subscribed \ polled : \A m \in Due(i) :
         watermark[i] # 0 =>
            m \in Sent(i) \/ \E k \in expected : Carries(worker[k], i, m)

Wants(W, i) ==
    \/ i \in W.kind
    \/ W.pc \in {"starting", "restarting", "crashed", "polling", "fetched"} /\ i \in W.asked

\* A bar that is due is sent in the end, as long as some worker of the session
\* still has the instrument: retries, probes and polls get there.
BehindIsCaughtUp ==
    \A i \in Instruments :
       online /\ watermark[i] # 0 /\ ~(Due(i) \subseteq Sent(i))
          ~> Due(i) \subseteq Sent(i) \/ ~\E k \in expected : Wants(worker[k], i)

\* events.rs:94 "Latest closed-minute boundary authoritatively accepted for this
\* source, when ready": Ready through a minute leaves out no candle at all.
ReadyIsAuthoritative ==
    \A i \in Instruments : readiness[i].state = "Ready" =>
       \A m \in Owed(i) : m <= readiness[i].through => m \in Sent(i)

===============================================================================
