------------------------- MODULE HistoricalRecovery -------------------------
(***************************************************************************)
(* Coalescing of historical candle recoveries and their circuit breaker    *)
(* (market_data/supervisor.rs).  Callers that ask for the same range share *)
(* one flight: its owner queries the broker and publishes the bars, the    *)
(* followers wait for the owner's completion.  Each step below is one      *)
(* critical section of the flights lock, of the circuit lock, or one await.*)
(***************************************************************************)
EXTENDS Naturals, FiniteSets

CONSTANTS
    Callers,      \* concurrent recovery tasks (lifecycle groups, periodic polls)
    Keys,         \* recovered ranges: instrument, bar type and bounds
    Flights,      \* flight objects; one that nobody refers to any more is reused
    None,         \* no flight
    Threshold,    \* HISTORICAL_CIRCUIT_FAILURE_THRESHOLD
    MaxCancels    \* bound on cancelled owners

ASSUME ParametersOK ==
    /\ Threshold \in Nat \ {0} /\ MaxCancels \in Nat
    /\ None \notin Flights

Completions == {"succeeded", "failed", "cancelled"}

VARIABLES
    pc,         \* where each caller is in recover_range
    key,        \* the range each caller recovers
    flight,     \* the flight each caller owns or follows
    half,       \* the caller's permit is the half-open probe
    outcome,    \* the completion an owner is about to report, or the caller's result
    flights,    \* the shared map: the flight registered for each range
    state,      \* state of each flight
    circuit,    \* "closed", "open", or "cooled": open for the whole cooldown
    failures,   \* consecutive_failures, counted up to Threshold
    cancels,    \* cancelled owners so far
    fresh,      \* callers inside recover_range since before a flight of their
                \* range completed as published
    retrying    \* callers whose flight was cancelled and who must own the retry

vars == <<pc, key, flight, half, outcome, flights, state, circuit, failures,
          cancels, fresh, retrying>>

Pcs == {"idle", "look", "permit", "claim", "work", "complete", "release", "remove",
        "follow", "returned"}

Init ==
    /\ pc = [c \in Callers |-> "idle"]
    /\ key \in [Callers -> Keys]
    /\ flight = [c \in Callers |-> None]
    /\ half = [c \in Callers |-> FALSE]
    /\ outcome = [c \in Callers |-> "none"]
    /\ flights = [k \in Keys |-> None]
    /\ state = [f \in Flights |-> "pending"]
    /\ circuit = "closed" /\ failures = 0
    /\ cancels = 0
    /\ fresh = {} /\ retrying = {}

Goto(c, l) == pc' = [pc EXCEPT ![c] = l]

Return(c, result) ==
    /\ Goto(c, "returned")
    /\ outcome' = [outcome EXCEPT ![c] = result]
    /\ flight' = [flight EXCEPT ![c] = None]
    /\ half' = [half EXCEPT ![c] = FALSE]
    /\ retrying' = retrying \ {c}

\* A flight is registered for this range and its owner has not completed it.
Joinable(k) == flights[k] # None /\ state[flights[k]] = "pending"

-----------------------------------------------------------------------------
\* recover_range called for a range, at first or again

Enter(c) ==
    /\ pc[c] \in {"idle", "returned"}
    /\ \E k \in Keys : key' = [key EXCEPT ![c] = k]
    /\ outcome' = [outcome EXCEPT ![c] = "none"]
    /\ fresh' = fresh \ {c}
    /\ Goto(c, "look")
    /\ UNCHANGED <<flight, half, flights, state, circuit, failures, cancels, retrying>>

-----------------------------------------------------------------------------
\* begin_recovery: flights lock, circuit lock, flights lock

Follow(c) ==
    /\ flight' = [flight EXCEPT ![c] = flights[key[c]]]
    /\ Goto(c, "follow")
    /\ UNCHANGED <<flights, state>>

\* mutation: any registered flight is joined, completed or not
Look_JoinsCompleted(c) ==
    /\ pc[c] = "look"
    /\ IF flights[key[c]] # None
         THEN Follow(c)
         ELSE /\ Goto(c, "permit")
              /\ UNCHANGED <<flight, flights, state>>
    /\ UNCHANGED <<key, half, outcome, circuit, failures, cancels, fresh, retrying>>

Look(c) ==
    /\ pc[c] = "look"
    /\ IF Joinable(key[c])
         THEN Follow(c)
         ELSE /\ flights' = [flights EXCEPT ![key[c]] = None]
              /\ Goto(c, "permit")
              /\ UNCHANGED <<flight, state>>
    /\ UNCHANGED <<key, half, outcome, circuit, failures, cancels, fresh, retrying>>

Permit(c) ==
    /\ pc[c] = "permit"
    /\ circuit # "open"
    /\ half' = [half EXCEPT ![c] = circuit = "cooled"]
    /\ circuit' = IF circuit = "cooled" THEN "open" ELSE circuit
    /\ Goto(c, "claim")
    /\ UNCHANGED <<key, flight, outcome, flights, state, failures, cancels, fresh,
                   retrying>>

\* "historical candle recovery circuit is open"
Refuse(c) ==
    /\ pc[c] = "permit"
    /\ circuit = "open"
    /\ Return(c, "refused")
    /\ UNCHANGED <<key, flights, state, circuit, failures, cancels, fresh>>

Unused(f) == (\A k \in Keys : flights[k] # f) /\ (\A c \in Callers : flight[c] # f)

NewFlight(c) ==
    /\ \E f \in Flights :
          /\ Unused(f)
          /\ state' = [state EXCEPT ![f] = "pending"]
          /\ flights' = [flights EXCEPT ![key[c]] = f]
          /\ flight' = [flight EXCEPT ![c] = f]
    /\ Goto(c, "work")

\* mutation: the flight is registered without looking again
Claim_WithoutLooking(c) ==
    /\ pc[c] = "claim"
    /\ NewFlight(c)
    /\ UNCHANGED <<key, half, outcome, circuit, failures, cancels, fresh, retrying>>

Claim(c) ==
    /\ pc[c] = "claim"
    /\ IF Joinable(key[c]) THEN Follow(c) ELSE NewFlight(c)
    /\ UNCHANGED <<key, half, outcome, circuit, failures, cancels, fresh, retrying>>

-----------------------------------------------------------------------------
\* The owner

Decide(c, completion) ==
    /\ outcome' = [outcome EXCEPT ![c] = completion]
    /\ Goto(c, "complete")
    /\ UNCHANGED <<key, flight, half, flights, state, circuit, failures, fresh, retrying>>

\* The broker answered and the publish callback accepted the bars.
Publish(c) ==
    /\ pc[c] = "work"
    /\ Decide(c, "succeeded")
    /\ UNCHANGED cancels

\* The query, the conversion or the publication failed.
Fail(c) ==
    /\ pc[c] = "work"
    /\ Decide(c, "failed")
    /\ UNCHANGED cancels

\* The publish callback found the subscription superseded, or the owner's
\* future was dropped and its guard completes the flight.
Cancel(c) ==
    /\ pc[c] = "work"
    /\ cancels < MaxCancels
    /\ cancels' = cancels + 1
    /\ Decide(c, "cancelled")

CompleteWith(c, states) ==
    /\ pc[c] = "complete"
    /\ state' = states
    /\ fresh' = IF outcome[c] = "succeeded"
                  THEN fresh \cup {d \in Callers : key[d] = key[c] /\ pc[d] \notin {"idle", "returned"}}
                  ELSE fresh
    /\ Goto(c, "release")
    /\ UNCHANGED <<key, flight, half, outcome, flights, circuit, failures, cancels, retrying>>

\* mutation: a cancelled owner leaves its flight pending
Complete_OnlyWhenDecided(c) ==
    CompleteWith(c, IF outcome[c] = "cancelled" THEN state
                    ELSE [state EXCEPT ![flight[c]] = outcome[c]])

\* The completion reaches the followers before the circuit is updated.
Complete(c) == CompleteWith(c, [state EXCEPT ![flight[c]] = outcome[c]])

CircuitAfterSuccess == circuit' = "closed" /\ failures' = 0

CircuitAfterFailure ==
    /\ failures' = IF failures < Threshold THEN failures + 1 ELSE failures
    /\ circuit' = IF failures' = Threshold THEN "open" ELSE circuit

\* A cancelled probe is not a failed one: it closes the circuit.
CircuitAfterCancel(c) ==
    IF half[c] THEN circuit' = "closed" /\ failures' = 0
               ELSE UNCHANGED <<circuit, failures>>

Release(c) ==
    /\ pc[c] = "release"
    /\ CASE outcome[c] = "succeeded" -> CircuitAfterSuccess
         [] outcome[c] = "failed"    -> CircuitAfterFailure
         [] OTHER                    -> CircuitAfterCancel(c)
    /\ Goto(c, "remove")
    /\ UNCHANGED <<key, flight, half, outcome, flights, state, cancels, fresh, retrying>>

FinishRecovery(c) ==
    /\ pc[c] = "remove"
    /\ flights' = [flights EXCEPT ![key[c]] = IF @ = flight[c] THEN None ELSE @]
    /\ Return(c, outcome[c])
    /\ UNCHANGED <<key, state, circuit, failures, cancels, fresh>>

-----------------------------------------------------------------------------
\* A follower

\* mutation: the follower reads the flight without waiting for its completion
FollowResult_WithoutWaiting(c) ==
    /\ pc[c] = "follow"
    /\ Return(c, state[flight[c]])
    /\ UNCHANGED <<key, flights, state, circuit, failures, cancels, fresh>>

\* The owner published, and the follower commits its own cursor with no bars,
\* unless its own publication is superseded or fails; or the owner failed, and
\* the follower fails with it.
FollowResult(c) ==
    /\ pc[c] = "follow"
    /\ \/ state[flight[c]] = "succeeded" /\ \E result \in Completions : Return(c, result)
       \/ state[flight[c]] = "failed" /\ Return(c, "failed")
    /\ UNCHANGED <<key, flights, state, circuit, failures, cancels, fresh>>

\* The owner was superseded: the follower retries the same range itself.
FollowCancelled(c) ==
    /\ pc[c] = "follow" /\ state[flight[c]] = "cancelled"
    /\ Goto(c, "look")
    /\ flight' = [flight EXCEPT ![c] = None]
    /\ half' = [half EXCEPT ![c] = FALSE]
    /\ retrying' = retrying \cup {c}
    /\ UNCHANGED <<key, outcome, flights, state, circuit, failures, cancels, fresh>>

\* The follower's future was dropped.
AbandonFollow(c) ==
    /\ pc[c] = "follow"
    /\ Return(c, "cancelled")
    /\ UNCHANGED <<key, flights, state, circuit, failures, cancels, fresh>>

-----------------------------------------------------------------------------
\* The cooldown of 30 s ends.  It cannot end between two locks of one caller:
\* only at the awaits of a caller does time pass.
CoolDown ==
    /\ circuit = "open"
    /\ \A c \in Callers : pc[c] \in {"idle", "returned", "work", "follow"}
    /\ circuit' = "cooled"
    /\ UNCHANGED <<pc, key, flight, half, outcome, flights, state, failures, cancels,
                   fresh, retrying>>

CallerStep(c) ==
    \/ Look(c) \/ Permit(c) \/ Refuse(c) \/ Claim(c)
    \/ Publish(c) \/ Fail(c) \/ Cancel(c)
    \/ Complete(c) \/ Release(c) \/ FinishRecovery(c)
    \/ FollowResult(c) \/ FollowCancelled(c)

Next ==
    \/ \E c \in Callers : Enter(c) \/ CallerStep(c) \/ AbandonFollow(c)
    \/ CoolDown

Spec == Init /\ [][Next]_vars

\* Every request ends: GetCandles has a timeout and bounded retries.
FairSpec == Spec /\ \A c \in Callers : WF_vars(CallerStep(c))

-----------------------------------------------------------------------------
\* Properties

\* Every variable has its type.
TypeOK ==
    /\ pc \in [Callers -> Pcs] /\ key \in [Callers -> Keys]
    /\ flight \in [Callers -> Flights \cup {None}]
    /\ half \in [Callers -> BOOLEAN]
    /\ outcome \in [Callers -> Completions \cup {"none", "refused"}]
    /\ flights \in [Keys -> Flights \cup {None}]
    /\ state \in [Flights -> Completions \cup {"pending"}]
    /\ circuit \in {"closed", "open", "cooled"} /\ failures \in 0 .. Threshold
    /\ cancels \in Nat
    /\ fresh \subseteq Callers /\ retrying \subseteq Callers

Owns(c) == pc[c] \in {"work", "complete"}

\* A range has one owner at a time: it is never queried and published twice in
\* parallel.
SingleFlight ==
    \A c, d \in Callers : Owns(c) /\ Owns(d) /\ key[c] = key[d] => c = d

\* A flight somebody can join, or already follows, has an owner that will
\* complete it: no follower waits for a dropped owner.
PendingHasOwner ==
    /\ \A k \in Keys : Joinable(k) => \E c \in Callers : Owns(c) /\ flight[c] = flights[k]
    /\ \A d \in Callers : pc[d] = "follow" /\ state[flight[d]] = "pending" =>
          \E c \in Callers : Owns(c) /\ flight[c] = flight[d]

\* Every flight in progress has exactly one owner.
FlightsAreOwned == SingleFlight /\ PendingHasOwner

\* A caller reports success, and so commits its continuity cursor, only when a
\* flight of its range completed as published while the caller was inside
\* recover_range: never on the result of an older flight.
SuccessIsFresh ==
    \A c \in Callers : pc[c] = "returned" /\ outcome[c] = "succeeded" => c \in fresh

\* Every caller that entered recover_range returns.
EveryCallReturns ==
    \A c \in Callers : pc[c] = "look" ~> pc[c] = "returned"

=============================================================================
