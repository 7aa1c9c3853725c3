----------------------------- MODULE FuturesMargin -----------------------------
(***************************************************************************)
(* The metadata of a futures contract as commands and reports load it: the *)
(* definition that is fetched once and cached, and the current margin that *)
(* one caller asks for while the others follow its flight, across          *)
(* reconnects and callers that are dropped (execution/client.rs).          *)
(***************************************************************************)
EXTENDS Integers

CONSTANTS
    Callers,         \* loads of the contract's metadata
    MaxGeneration,   \* bound: reconnects
    MaxExpiries      \* bound: times FUTURES_MARGIN_CACHE_TTL passes

ASSUME MarginAssumption ==
    MaxGeneration \in Nat /\ MaxExpiries \in Nat /\ "none" \notin Callers

VARIABLES
    generation,  \* futures_margin_generation
    instruments, \* the cached metadata, shared by all generations
    refreshed,   \* per generation, whether futures_margin_refreshed_at is fresh
    flights,     \* per generation, the leader in futures_margin_inflight
    flight,      \* per leader, the state of its flight
    answer,      \* per leader, what it got, and per caller what it returned
    pc, gen,     \* per caller, where it is and the generation of its runtime
    metadata,    \* per caller, the metadata it came with
    lead,        \* per follower, whose flight it follows
    expiries

callers == <<pc, gen, metadata, lead>>
vars    == <<generation, instruments, refreshed, flights, flight, answer, callers, expiries>>

None        == "none"
Generations == 0..MaxGeneration

\* Metadata: the generation it was read in, and whether a caller of an older
\* generation than the current one stored it.
Nothing       == [some |-> FALSE, gen |-> 0, stray |-> FALSE]
ReadBy(c)     == [some |-> TRUE, gen |-> gen[c], stray |-> gen[c] # generation]
Ok(m)         == [ok |-> TRUE, metadata |-> m]
Error         == [ok |-> FALSE, metadata |-> Nothing]

Init ==
    /\ generation = 0 /\ instruments = Nothing /\ expiries = 0
    /\ refreshed = [g \in Generations |-> FALSE]
    /\ flights = [g \in Generations |-> None]
    /\ flight = [c \in Callers |-> None]
    /\ answer = [c \in Callers |-> Error]
    /\ pc = [c \in Callers |-> "idle"] /\ gen = [c \in Callers |-> 0]
    /\ metadata = [c \in Callers |-> Nothing]
    /\ lead = [c \in Callers |-> None]

At(c, place)   == pc[c] = place
Go(c, place)   == pc' = [pc EXCEPT ![c] = place]
Current(c)     == gen[c] = generation
Return(c, r)   == Go(c, "done") /\ answer' = [answer EXCEPT ![c] = r]

-----------------------------------------------------------------------------
\* load_instrument_metadata

Start(c) ==
    /\ At(c, "idle")
    /\ gen' = [gen EXCEPT ![c] = generation]
    /\ metadata' = [metadata EXCEPT ![c] = instruments]
    /\ Go(c, IF instruments.some THEN "enter" ELSE "fetch")
    /\ UNCHANGED <<generation, instruments, refreshed, flights, flight, answer, lead, expiries>>

\* The definition is stored by a caller of whatever generation.
Fetch(c) ==
    /\ At(c, "fetch")
    /\ instruments' = ReadBy(c) /\ metadata' = [metadata EXCEPT ![c] = ReadBy(c)]
    /\ Go(c, "enter")
    /\ UNCHANGED <<generation, refreshed, flights, flight, answer, gen, lead, expiries>>

FetchFails(c) ==
    /\ At(c, "fetch") /\ Return(c, Error)
    /\ UNCHANGED <<generation, instruments, refreshed, flights, flight, gen, metadata, lead, expiries>>

-----------------------------------------------------------------------------
\* refresh_futures_margin

Refuse(c) ==
    /\ At(c, "enter") /\ ~Current(c) /\ Return(c, Error)
    /\ UNCHANGED <<generation, instruments, refreshed, flights, flight, gen, metadata, lead, expiries>>

UseCached(c) ==
    /\ At(c, "enter") /\ Current(c) /\ refreshed[gen[c]]
    /\ Return(c, Ok(IF instruments.some THEN instruments ELSE metadata[c]))
    /\ UNCHANGED <<generation, instruments, refreshed, flights, flight, gen, metadata, lead, expiries>>

Lead(c) ==
    /\ At(c, "enter") /\ Current(c) /\ ~refreshed[gen[c]] /\ flights[gen[c]] = None
    /\ flights' = [flights EXCEPT ![gen[c]] = c]
    /\ flight' = [flight EXCEPT ![c] = "pending"]
    /\ Go(c, "ask")
    /\ UNCHANGED <<generation, instruments, refreshed, answer, gen, metadata, lead, expiries>>

Join(c) ==
    /\ At(c, "enter") /\ Current(c) /\ ~refreshed[gen[c]] /\ flights[gen[c]] # None
    /\ lead' = [lead EXCEPT ![c] = flights[gen[c]]]
    /\ Go(c, "follow")
    /\ UNCHANGED <<generation, instruments, refreshed, flights, flight, answer, gen, metadata, expiries>>

Follow(c) ==
    /\ At(c, "follow")
    /\ \/ flight[lead[c]] = "completed" /\ Return(c, IF Current(c) THEN answer[lead[c]] ELSE Error)
       \/ flight[lead[c]] = "cancelled" /\ Go(c, "enter") /\ UNCHANGED answer
    /\ UNCHANGED <<generation, instruments, refreshed, flights, flight, gen, metadata, lead, expiries>>

\* refresh_futures_margin_uncached: the margin is stored in its own generation only.
Commit(c) ==
    /\ At(c, "ask")
    /\ IF Current(c)
       THEN /\ instruments' = ReadBy(c) /\ refreshed' = [refreshed EXCEPT ![gen[c]] = TRUE]
            /\ answer' = [answer EXCEPT ![c] = Ok(ReadBy(c))]
       ELSE UNCHANGED <<instruments, refreshed, answer>>
    /\ Go(c, "tell")
    /\ UNCHANGED <<generation, flights, flight, gen, metadata, lead, expiries>>

AskFails(c) ==
    /\ At(c, "ask") /\ Go(c, "tell")
    /\ UNCHANGED <<generation, instruments, refreshed, flights, flight, answer, gen, metadata, lead, expiries>>

\* The generation may have moved since the margin was stored.
Tell(c) ==
    /\ At(c, "tell")
    /\ answer' = [answer EXCEPT ![c] = IF Current(c) THEN @ ELSE Error]
    /\ flight' = [flight EXCEPT ![c] = "completed"]
    /\ Go(c, "leave")
    /\ UNCHANGED <<generation, instruments, refreshed, flights, gen, metadata, lead, expiries>>

\* mutation: a dropped leader takes its flight out and tells nobody.
DropGuard_Silent(c) ==
    /\ flights' = [g \in Generations |->
                     IF g = gen[c] /\ flights[g] = c THEN None ELSE flights[g]]
    /\ UNCHANGED flight

\* TbankFuturesMarginFlightGuard: the flight is taken out, and cancelled if it
\* is still pending.
DropGuard(c) ==
    /\ flights' = [g \in Generations |->
                     IF g = gen[c] /\ flights[g] = c THEN None ELSE flights[g]]
    /\ flight' = [flight EXCEPT ![c] = IF @ = "pending" THEN "cancelled" ELSE @]

Leave(c) ==
    /\ At(c, "leave") /\ DropGuard(c) /\ Go(c, "done")
    /\ UNCHANGED <<generation, instruments, refreshed, answer, gen, metadata, lead, expiries>>

\* The future of a load is dropped at one of its awaits.
Drop(c) ==
    /\ pc[c] \in {"fetch", "follow", "ask"} /\ Go(c, "dropped")
    /\ IF At(c, "ask") THEN DropGuard(c) ELSE UNCHANGED <<flights, flight>>
    /\ UNCHANGED <<generation, instruments, refreshed, answer, gen, metadata, lead, expiries>>

-----------------------------------------------------------------------------

\* mutation: the times of the last session's answers are kept.
Reconnect_KeepsTimes ==
    /\ generation < MaxGeneration /\ generation' = generation + 1
    /\ refreshed' = [refreshed EXCEPT ![generation'] = refreshed[generation]]
    /\ flights' = [flights EXCEPT ![generation'] = None]
    /\ UNCHANGED <<instruments, flight, answer, callers, expiries>>

\* begin_connection_generation: fresh maps, but the metadata stays.
Reconnect ==
    /\ generation < MaxGeneration /\ generation' = generation + 1
    /\ refreshed' = [refreshed EXCEPT ![generation'] = FALSE]
    /\ flights' = [flights EXCEPT ![generation'] = None]
    /\ UNCHANGED <<instruments, flight, answer, callers, expiries>>

Expire(g) ==
    /\ refreshed[g] /\ expiries < MaxExpiries /\ expiries' = expiries + 1
    /\ refreshed' = [refreshed EXCEPT ![g] = FALSE]
    /\ UNCHANGED <<generation, instruments, flights, flight, answer, callers>>

Step(c) ==
    \/ Fetch(c) \/ FetchFails(c) \/ Refuse(c) \/ UseCached(c) \/ Lead(c) \/ Join(c) \/ Follow(c)
    \/ Commit(c) \/ AskFails(c) \/ Tell(c) \/ Leave(c)

Next ==
    \/ \E c \in Callers : Start(c) \/ Step(c) \/ Drop(c)
    \/ Reconnect \/ \E g \in Generations : Expire(g)

\* Every request is answered or times out, and every task is scheduled.
Fairness == \A c \in Callers : WF_vars(Step(c))

Spec == Init /\ [][Next]_vars /\ Fairness

-----------------------------------------------------------------------------

\* Type invariant; a flight in the map belongs to a leader of that generation
\* that is still under way.
TypeOK ==
    /\ generation \in Generations /\ expiries \in 0..MaxExpiries
    /\ refreshed \in [Generations -> BOOLEAN]
    /\ flight \in [Callers -> {None, "pending", "completed", "cancelled"}]
    /\ pc \in [Callers -> {"idle", "fetch", "enter", "follow", "ask", "tell", "leave", "done", "dropped"}]
    /\ gen \in [Callers -> Generations] /\ lead \in [Callers -> Callers \cup {None}]
    /\ \A g \in Generations : flights[g] # None =>
         /\ flights[g] \in Callers /\ gen[flights[g]] = g
         /\ pc[flights[g]] \in {"ask", "tell", "leave"}

\* A load that succeeds returns what was read in the session it belongs to,
\* though the cached metadata outlives a reconnect and answers of the last
\* session come late.  Set aside is a definition that a caller of an older
\* session stored over it (refresh_futures_margin, begin_connection_generation).
MarginIsOfThisSession ==
    \A c \in Callers : At(c, "done") /\ answer[c].ok =>
        LET m == answer[c].metadata IN m.some /\ (m.gen = gen[c] \/ m.stray)

\* A load that waits for the margin returns or is dropped, also when the leader
\* it follows is dropped or its session ends.
EveryLoadReturns ==
    \A c \in Callers : At(c, "enter") ~> pc[c] \in {"done", "dropped"}

=============================================================================
