------------------------------ MODULE AccountProofs ------------------------------
(***************************************************************************)
(* Proofs about the two parts of an account that the streams and the       *)
(* queries keep and that share nothing: the margin of a futures contract,  *)
(* for any callers and any number of reconnects (FuturesMargin), and its   *)
(* positions, for any instruments and quantities and any number of trades, *)
(* faults and queries (PositionProjection).                                *)
(***************************************************************************)
EXTENDS FuturesMargin, PositionProjection, SequenceTheorems, TLAPS

-----------------------------------------------------------------------------
\* FuturesMargin

Metadata == [some : BOOLEAN, gen : Generations, stray : BOOLEAN]

\* Metadata read in generation g, or left behind by a caller of an older one.
OfGeneration(m, g) == m.some /\ (m.gen = g \/ m.stray)

Shape ==
    /\ TypeOK
    /\ instruments \in Metadata
    /\ flights \in [Generations -> Callers \cup {None}]
    /\ answer \in [Callers -> [ok : BOOLEAN, metadata : Metadata]]
    /\ metadata \in [Callers -> Metadata]

\* A margin that counts as fresh is of the session.
FreshIsOfThisSession == refreshed[generation] => OfGeneration(instruments, generation)

\* A follower's leader is in its own generation.
FollowersStay ==
    \A c \in Callers : At(c, "follow") =>
        lead[c] \in Callers /\ gen[lead[c]] = gen[c] /\ ~At(lead[c], "idle")

\* A caller that has not begun has no answer, and what one has is of its session.
AnswersAreOfTheSession ==
    \A c \in Callers : answer[c].ok =>
        ~At(c, "idle") /\ OfGeneration(answer[c].metadata, gen[c])

IInv == Shape /\ FreshIsOfThisSession /\ FollowersStay /\ AnswersAreOfTheSession

LEMMA InitIInv == Init => IInv
<1> SUFFICES ASSUME Init PROVE IInv OBVIOUS
<1>1. 0 \in Generations BY MarginAssumption DEF Generations
<1>2. Nothing \in Metadata BY <1>1 DEF Nothing, Metadata
<1>3. Error \in [ok : BOOLEAN, metadata : Metadata] BY <1>2 DEF Error
<1>4. TypeOK BY <1>1, MarginAssumption DEF Init, TypeOK, None
<1>5. Shape BY <1>1, <1>2, <1>3, <1>4 DEF Init, Shape
<1>6. FreshIsOfThisSession BY <1>1 DEF Init, FreshIsOfThisSession
<1>7. FollowersStay BY DEF Init, FollowersStay, At
<1>8. AnswersAreOfTheSession BY DEF Init, AnswersAreOfTheSession, Error
<1> QED BY <1>5, <1>6, <1>7, <1>8 DEF IInv

\* What a caller reads has its type, and is of its session and of the current one
\* if the two are the same; of an older one it is marked.
LEMMA ReadsAreMetadata ==
    ASSUME IInv, NEW c \in Callers
    PROVE  /\ ReadBy(c) \in Metadata
           /\ OfGeneration(ReadBy(c), generation) /\ OfGeneration(ReadBy(c), gen[c])
<1>1. gen[c] \in Generations BY DEF IInv, Shape, TypeOK
<1> QED BY <1>1 DEF ReadBy, Metadata, OfGeneration

LEMMA AnswersAreTyped ==
    /\ Error \in [ok : BOOLEAN, metadata : Metadata] /\ ~Error.ok
    /\ \A m \in Metadata : Ok(m) \in [ok : BOOLEAN, metadata : Metadata] /\ Ok(m).metadata = m
<1>1. 0 \in Generations BY MarginAssumption DEF Generations
<1> QED BY <1>1 DEF Error, Ok, Nothing, Metadata

\* A caller that moves without touching its own or the shared data, outside the
\* flights' map, keeps the invariant if it keeps its place in the map.
LEMMA MovesKeepIInv ==
    ASSUME IInv, NEW c \in Callers,
           NEW place \in {"enter", "follow", "ask", "tell", "leave", "done", "dropped"},
           Go(c, place), ~At(c, "idle"),
           place = "follow" => At(c, "follow"),
           pc[c] \in {"ask", "tell", "leave"} => place \in {"ask", "tell", "leave"},
           UNCHANGED <<generation, instruments, refreshed, flights, answer, gen, metadata,
                       lead, expiries>>,
           flight' \in [Callers -> {None, "pending", "completed", "cancelled"}]
    PROVE  IInv'
<1>1. pc' = [pc EXCEPT ![c] = place] /\ pc[c] # "idle" BY DEF Go, At
<1>2. TypeOK' BY <1>1 DEF IInv, Shape, TypeOK
<1>3. Shape' BY <1>2 DEF IInv, Shape, Metadata
<1>4. FreshIsOfThisSession'
    BY DEF IInv, FreshIsOfThisSession, OfGeneration
<1>5. \A d \in Callers : (At(d, "idle"))' => At(d, "idle")
    BY <1>1 DEF IInv, Shape, TypeOK, At
<1>6. \A d \in Callers : (At(d, "follow"))' => At(d, "follow")
    BY <1>1 DEF IInv, Shape, TypeOK, At
<1>7. FollowersStay' BY <1>5, <1>6 DEF IInv, FollowersStay
<1>8. AnswersAreOfTheSession' BY <1>5 DEF IInv, AnswersAreOfTheSession, OfGeneration
<1> QED BY <1>3, <1>4, <1>7, <1>8 DEF IInv

\* A caller that returns with an answer of its session keeps the invariant.
LEMMA ReturnsKeepIInv ==
    ASSUME IInv, NEW c \in Callers,
           NEW r \in [ok : BOOLEAN, metadata : Metadata],
           r.ok => OfGeneration(r.metadata, gen[c]),
           Return(c, r), pc[c] \in {"fetch", "enter", "follow"},
           UNCHANGED <<generation, instruments, refreshed, flights, flight, gen, metadata,
                       lead, expiries>>
    PROVE  IInv'
<1>1. pc' = [pc EXCEPT ![c] = "done"] /\ answer' = [answer EXCEPT ![c] = r]
    BY DEF Return, Go
<1>2. TypeOK' BY <1>1 DEF IInv, Shape, TypeOK
<1>3. Shape' BY <1>1, <1>2 DEF IInv, Shape, Metadata
<1>4. FreshIsOfThisSession'
    BY DEF IInv, FreshIsOfThisSession, OfGeneration
<1>5. \A d \in Callers : ((At(d, "idle"))' => At(d, "idle")) /\ ((At(d, "follow"))' => At(d, "follow"))
    BY <1>1 DEF IInv, Shape, TypeOK, At
<1>6. FollowersStay' BY <1>5 DEF IInv, FollowersStay
<1>7. AnswersAreOfTheSession'
  <2> SUFFICES ASSUME NEW d \in Callers, answer'[d].ok
               PROVE  (~At(d, "idle"))' /\ OfGeneration(answer'[d].metadata, gen[d])
      BY DEF AnswersAreOfTheSession, OfGeneration
  <2>1. CASE d = c
      BY <2>1, <1>1 DEF IInv, Shape, TypeOK, At
  <2>2. CASE d # c
      BY <2>2, <1>1 DEF IInv, Shape, TypeOK, At, AnswersAreOfTheSession
  <2> QED BY <2>1, <2>2
<1> QED BY <1>3, <1>4, <1>6, <1>7 DEF IInv

\* A leader that leaves takes its flight out of the map.
LEMMA DropsKeepIInv ==
    ASSUME IInv, NEW c \in Callers, NEW place \in {"done", "dropped"},
           pc[c] \in {"ask", "leave"}, Go(c, place), DropGuard(c),
           UNCHANGED <<generation, instruments, refreshed, answer, gen, metadata, lead, expiries>>
    PROVE  IInv'
<1>1. pc' = [pc EXCEPT ![c] = place] BY DEF Go
<1>2. /\ flights' = [g \in Generations |->
                        IF g = gen[c] /\ flights[g] = c THEN None ELSE flights[g]]
      /\ flight' \in [Callers -> {None, "pending", "completed", "cancelled"}]
    BY DEF DropGuard, IInv, Shape, TypeOK
<1>3. flights' \in [Generations -> Callers \cup {None}] BY <1>2 DEF IInv, Shape
<1>4. ASSUME NEW g \in Generations, flights'[g] # None
      PROVE  flights'[g] \in Callers /\ gen[flights'[g]] = g
             /\ pc'[flights'[g]] \in {"ask", "tell", "leave"}
  <2>1. flights'[g] = flights[g] /\ flights[g] # None BY <1>2, <1>4
  <2>2. flights[g] \in Callers /\ gen[flights[g]] = g /\ pc[flights[g]] \in {"ask", "tell", "leave"}
      BY <2>1 DEF IInv, Shape, TypeOK
  <2>3. flights[g] # c BY <1>2, <2>1, <2>2, <1>4
  <2> QED BY <1>1, <2>1, <2>2, <2>3 DEF IInv, Shape, TypeOK
<1>5. TypeOK' BY <1>1, <1>2, <1>4 DEF IInv, Shape, TypeOK
<1>6. Shape' BY <1>3, <1>5 DEF IInv, Shape, Metadata
<1>7. FreshIsOfThisSession'
    BY DEF IInv, FreshIsOfThisSession, OfGeneration
<1>8. \A d \in Callers : ((At(d, "idle"))' => At(d, "idle")) /\ ((At(d, "follow"))' => At(d, "follow"))
    BY <1>1 DEF IInv, Shape, TypeOK, At
<1>9. FollowersStay' BY <1>8 DEF IInv, FollowersStay
<1>10. AnswersAreOfTheSession' BY <1>8 DEF IInv, AnswersAreOfTheSession, OfGeneration
<1> QED BY <1>6, <1>7, <1>9, <1>10 DEF IInv

LEMMA StartKeepsIInv == ASSUME IInv, NEW c \in Callers, Start(c) PROVE IInv'
<1> DEFINE place == IF instruments.some THEN "enter" ELSE "fetch"
<1>1. /\ pc' = [pc EXCEPT ![c] = place] /\ gen' = [gen EXCEPT ![c] = generation]
      /\ metadata' = [metadata EXCEPT ![c] = instruments]
      /\ pc[c] = "idle" /\ place \in {"enter", "fetch"}
    BY DEF Start, Go, At
<1> HIDE DEF place
<1>2. ASSUME NEW g \in Generations, flights[g] # None
      PROVE  gen'[flights[g]] = g /\ pc'[flights[g]] \in {"ask", "tell", "leave"}
    BY <1>1, <1>2 DEF IInv, Shape, TypeOK
<1>3. TypeOK' BY <1>1, <1>2 DEF IInv, Shape, TypeOK, Start
<1>4. Shape' BY <1>1, <1>3 DEF IInv, Shape, Metadata, Start
<1>5. FreshIsOfThisSession' BY DEF IInv, FreshIsOfThisSession, OfGeneration, Start
<1>6. \A d \in Callers : (~At(d, "idle") => (~At(d, "idle"))') /\ ((At(d, "follow"))' => At(d, "follow"))
    BY <1>1 DEF IInv, Shape, TypeOK, At
<1>7. \A d \in Callers : ~At(d, "idle") => gen'[d] = gen[d]
    BY <1>1 DEF IInv, Shape, TypeOK, At
<1>8. FollowersStay' BY <1>6, <1>7 DEF IInv, FollowersStay, Start, At
<1>9. AnswersAreOfTheSession'
    BY <1>6, <1>7 DEF IInv, AnswersAreOfTheSession, OfGeneration, Start
<1> QED BY <1>4, <1>5, <1>8, <1>9 DEF IInv

LEMMA FetchKeepsIInv == ASSUME IInv, NEW c \in Callers, Fetch(c) PROVE IInv'
<1>1. /\ pc' = [pc EXCEPT ![c] = "enter"] /\ pc[c] = "fetch"
      /\ instruments' = ReadBy(c) /\ metadata' = [metadata EXCEPT ![c] = ReadBy(c)]
    BY DEF Fetch, Go, At
<1>2. ReadBy(c) \in Metadata /\ (OfGeneration(ReadBy(c), generation))
    BY ReadsAreMetadata DEF OfGeneration
<1>3. TypeOK' BY <1>1 DEF IInv, Shape, TypeOK, Fetch
<1>4. Shape' BY <1>1, <1>2, <1>3 DEF IInv, Shape, Metadata, Fetch
<1>5. FreshIsOfThisSession' BY <1>1, <1>2 DEF FreshIsOfThisSession, OfGeneration, Fetch
<1>6. \A d \in Callers : (~At(d, "idle") => (~At(d, "idle"))') /\ ((At(d, "follow"))' => At(d, "follow"))
    BY <1>1 DEF IInv, Shape, TypeOK, At
<1>7. FollowersStay' BY <1>6 DEF IInv, FollowersStay, Fetch
<1>8. AnswersAreOfTheSession'
    BY <1>6 DEF IInv, AnswersAreOfTheSession, OfGeneration, Fetch
<1> QED BY <1>4, <1>5, <1>7, <1>8 DEF IInv

LEMMA LeadKeepsIInv == ASSUME IInv, NEW c \in Callers, Lead(c) PROVE IInv'
<1>1. /\ pc' = [pc EXCEPT ![c] = "ask"] /\ pc[c] = "enter"
      /\ flights' = [flights EXCEPT ![gen[c]] = c]
      /\ flight' = [flight EXCEPT ![c] = "pending"]
    BY DEF Lead, Go, At
<1>2. gen[c] \in Generations BY DEF IInv, Shape, TypeOK
<1>3. flights' \in [Generations -> Callers \cup {None}] BY <1>1 DEF IInv, Shape
<1>4. ASSUME NEW g \in Generations, flights'[g] # None
      PROVE  flights'[g] \in Callers /\ gen[flights'[g]] = g
             /\ pc'[flights'[g]] \in {"ask", "tell", "leave"}
  <2>1. CASE g = gen[c] BY <1>1, <1>2, <2>1 DEF IInv, Shape, TypeOK
  <2>2. CASE g # gen[c]
    <3>1. flights'[g] = flights[g] BY <1>1, <2>2 DEF IInv, Shape
    <3> QED BY <3>1, <1>4, <1>1 DEF IInv, Shape, TypeOK
  <2> QED BY <2>1, <2>2
<1>5. TypeOK' BY <1>1, <1>4 DEF IInv, Shape, TypeOK, Lead
<1>6. Shape' BY <1>3, <1>5 DEF IInv, Shape, Metadata, Lead
<1>7. FreshIsOfThisSession' BY DEF IInv, FreshIsOfThisSession, OfGeneration, Lead
<1>8. \A d \in Callers : (~At(d, "idle") => (~At(d, "idle"))') /\ ((At(d, "follow"))' => At(d, "follow"))
    BY <1>1 DEF IInv, Shape, TypeOK, At
<1>9. FollowersStay' BY <1>8 DEF IInv, FollowersStay, Lead
<1>10. AnswersAreOfTheSession'
    BY <1>8 DEF IInv, AnswersAreOfTheSession, OfGeneration, Lead
<1> QED BY <1>6, <1>7, <1>9, <1>10 DEF IInv

LEMMA JoinKeepsIInv == ASSUME IInv, NEW c \in Callers, Join(c) PROVE IInv'
<1>1. /\ pc' = [pc EXCEPT ![c] = "follow"] /\ pc[c] = "enter"
      /\ lead' = [lead EXCEPT ![c] = flights[gen[c]]]
    BY DEF Join, Go, At
<1>2. gen[c] \in Generations /\ flights[gen[c]] # None BY DEF Join, IInv, Shape, TypeOK
<1>3. /\ lead'[c] \in Callers /\ gen[lead'[c]] = gen[c]
      /\ pc[lead'[c]] \in {"ask", "tell", "leave"}
    BY <1>1, <1>2 DEF IInv, Shape, TypeOK
<1>4. lead' \in [Callers -> Callers \cup {None}]
    BY <1>1, <1>3 DEF IInv, Shape, TypeOK
<1>5. TypeOK' BY <1>1, <1>4 DEF IInv, Shape, TypeOK, Join
<1>6. Shape' BY <1>5 DEF IInv, Shape, Metadata, Join
<1>7. FreshIsOfThisSession' BY DEF IInv, FreshIsOfThisSession, OfGeneration, Join
<1>8. \A d \in Callers : ~At(d, "idle") => (~At(d, "idle"))'
    BY <1>1 DEF IInv, Shape, TypeOK, At
<1>9. FollowersStay'
  <2> SUFFICES ASSUME NEW d \in Callers, pc'[d] = "follow"
               PROVE  lead'[d] \in Callers /\ gen[lead'[d]] = gen[d] /\ (~At(lead[d], "idle"))'
      BY DEF FollowersStay, At, Join
  <2>1. CASE d = c BY <2>1, <1>1, <1>3 DEF At, IInv, Shape, TypeOK
  <2>2. CASE d # c
    <3>1. pc[d] = "follow" /\ lead'[d] = lead[d]
        BY <2>2, <1>1 DEF IInv, Shape, TypeOK
    <3> QED BY <3>1, <1>8 DEF IInv, FollowersStay, At
  <2> QED BY <2>1, <2>2
<1>10. AnswersAreOfTheSession'
    BY <1>8 DEF IInv, AnswersAreOfTheSession, OfGeneration, Join
<1> QED BY <1>6, <1>7, <1>9, <1>10 DEF IInv

\* The answer of a leader counts for its followers: they are of one generation.
LEMMA FollowKeepsIInv == ASSUME IInv, NEW c \in Callers, Follow(c) PROVE IInv'
<1>1. pc[c] = "follow" BY DEF Follow, At
<1>2. lead[c] \in Callers /\ gen[lead[c]] = gen[c]
    BY <1>1 DEF IInv, FollowersStay, At
<1>3. CASE Return(c, IF Current(c) THEN answer[lead[c]] ELSE Error)
  <2> DEFINE r == IF Current(c) THEN answer[lead[c]] ELSE Error
  <2>1. r \in [ok : BOOLEAN, metadata : Metadata]
      BY <1>2, AnswersAreTyped DEF IInv, Shape
  <2>2. r.ok => OfGeneration(r.metadata, gen[c])
      BY <1>2, AnswersAreTyped DEF IInv, AnswersAreOfTheSession
  <2>3. Return(c, r) BY <1>3
  <2> HIDE DEF r
  <2> QED BY <1>1, <2>1, <2>2, <2>3, ReturnsKeepIInv DEF Follow
<1>4. CASE Go(c, "enter") /\ UNCHANGED answer
  <2>1. flight' \in [Callers -> {None, "pending", "completed", "cancelled"}]
      BY DEF Follow, IInv, Shape, TypeOK
  <2> QED BY <1>1, <1>4, <2>1, MovesKeepIInv DEF Follow, At
<1> QED BY <1>3, <1>4 DEF Follow

LEMMA CommitKeepsIInv == ASSUME IInv, NEW c \in Callers, Commit(c) PROVE IInv'
<1>1. pc' = [pc EXCEPT ![c] = "tell"] /\ pc[c] = "ask" BY DEF Commit, Go, At
<1>2. ReadBy(c) \in Metadata /\ OfGeneration(ReadBy(c), generation) /\ OfGeneration(ReadBy(c), gen[c])
    BY ReadsAreMetadata
<1>3. CASE Current(c)
  <2>1. /\ instruments' = ReadBy(c) /\ refreshed' = [refreshed EXCEPT ![gen[c]] = TRUE]
        /\ answer' = [answer EXCEPT ![c] = Ok(ReadBy(c))]
      BY <1>3 DEF Commit
  <2>2. Ok(ReadBy(c)) \in [ok : BOOLEAN, metadata : Metadata] /\ Ok(ReadBy(c)).metadata = ReadBy(c)
      BY <1>2, AnswersAreTyped
  <2>3. TypeOK' BY <1>1, <2>1 DEF IInv, Shape, TypeOK, Commit
  <2>4. Shape' BY <1>2, <2>1, <2>2, <2>3 DEF IInv, Shape, Metadata, Commit
  <2>5. FreshIsOfThisSession' BY <1>2, <2>1 DEF FreshIsOfThisSession, OfGeneration, Commit
  <2>6. \A d \in Callers : (~At(d, "idle") => (~At(d, "idle"))') /\ ((At(d, "follow"))' => At(d, "follow"))
      BY <1>1 DEF IInv, Shape, TypeOK, At
  <2>7. FollowersStay' BY <2>6 DEF IInv, FollowersStay, Commit
  <2>8. ASSUME NEW d \in Callers, answer'[d].ok
        PROVE  (~At(d, "idle"))' /\ OfGeneration(answer'[d].metadata, gen[d])
    <3>1. CASE d = c BY <3>1, <1>1, <1>2, <2>1, <2>2 DEF IInv, Shape, TypeOK, At
    <3>2. CASE d # c BY <3>2, <2>1, <2>6, <2>8 DEF IInv, Shape, AnswersAreOfTheSession
    <3> QED BY <3>1, <3>2
  <2>9. AnswersAreOfTheSession' BY <2>8 DEF AnswersAreOfTheSession, OfGeneration, Commit
  <2> QED BY <2>4, <2>5, <2>7, <2>9 DEF IInv
<1>4. CASE ~Current(c)
  <2>1. flight' \in [Callers -> {None, "pending", "completed", "cancelled"}]
      BY DEF Commit, IInv, Shape, TypeOK
  <2> QED BY <1>1, <1>4, <2>1, MovesKeepIInv DEF Commit, At
<1> QED BY <1>3, <1>4

LEMMA TellKeepsIInv == ASSUME IInv, NEW c \in Callers, Tell(c) PROVE IInv'
<1>1. /\ pc' = [pc EXCEPT ![c] = "leave"] /\ pc[c] = "tell"
      /\ flight' = [flight EXCEPT ![c] = "completed"]
      /\ answer' = [answer EXCEPT ![c] = IF Current(c) THEN answer[c] ELSE Error]
    BY DEF Tell, Go, At
<1>2. TypeOK' BY <1>1 DEF IInv, Shape, TypeOK, Tell
<1>3. Shape' BY <1>1, <1>2, AnswersAreTyped DEF IInv, Shape, Metadata, Tell
<1>4. FreshIsOfThisSession' BY DEF IInv, FreshIsOfThisSession, OfGeneration, Tell
<1>5. \A d \in Callers : (~At(d, "idle") => (~At(d, "idle"))') /\ ((At(d, "follow"))' => At(d, "follow"))
    BY <1>1 DEF IInv, Shape, TypeOK, At
<1>6. FollowersStay' BY <1>5 DEF IInv, FollowersStay, Tell
<1>7. \A d \in Callers : answer'[d].ok => answer'[d] = answer[d]
    BY <1>1, AnswersAreTyped DEF IInv, Shape
<1>8. AnswersAreOfTheSession'
    BY <1>5, <1>7 DEF IInv, AnswersAreOfTheSession, OfGeneration, Tell
<1> QED BY <1>3, <1>4, <1>6, <1>8 DEF IInv

\* A new session begins with fresh maps; the cached metadata stays.
LEMMA ReconnectKeepsIInv == ASSUME IInv, Reconnect PROVE IInv'
<1>1. /\ generation' = generation + 1 /\ generation' \in Generations
      /\ refreshed' = [refreshed EXCEPT ![generation'] = FALSE]
      /\ flights' = [flights EXCEPT ![generation'] = None]
      /\ UNCHANGED <<instruments, flight, answer, pc, gen, metadata, lead, expiries>>
    BY MarginAssumption DEF Reconnect, callers, IInv, Shape, TypeOK, Generations
<1>2. flights' \in [Generations -> Callers \cup {None}] BY <1>1 DEF IInv, Shape
<1>3. \A g \in Generations : flights'[g] # None => flights'[g] = flights[g]
    BY <1>1 DEF IInv, Shape
<1>4. TypeOK' BY <1>1, <1>3 DEF IInv, Shape, TypeOK
<1>5. Shape' BY <1>1, <1>2, <1>4 DEF IInv, Shape, Metadata
<1>6. FreshIsOfThisSession' BY <1>1 DEF FreshIsOfThisSession, IInv, Shape, TypeOK
<1>7. FollowersStay' BY <1>1 DEF IInv, FollowersStay, At
<1>8. AnswersAreOfTheSession' BY <1>1 DEF IInv, AnswersAreOfTheSession, OfGeneration, At
<1> QED BY <1>5, <1>6, <1>7, <1>8 DEF IInv

LEMMA ExpireKeepsIInv == ASSUME IInv, NEW g \in Generations, Expire(g) PROVE IInv'
<1>1. /\ refreshed' = [refreshed EXCEPT ![g] = FALSE] /\ expiries' \in 0..MaxExpiries
      /\ UNCHANGED <<generation, instruments, flights, flight, answer, pc, gen, metadata, lead>>
    BY MarginAssumption DEF Expire, callers, IInv, Shape, TypeOK
<1>2. TypeOK' BY <1>1 DEF IInv, Shape, TypeOK
<1>3. Shape' BY <1>1, <1>2 DEF IInv, Shape, Metadata
<1>4. FreshIsOfThisSession'
    BY <1>1 DEF FreshIsOfThisSession, IInv, Shape, TypeOK, OfGeneration
<1>5. FollowersStay' BY <1>1 DEF IInv, FollowersStay, At
<1>6. AnswersAreOfTheSession' BY <1>1 DEF IInv, AnswersAreOfTheSession, OfGeneration, At
<1> QED BY <1>3, <1>4, <1>5, <1>6 DEF IInv

LEMMA StepKeepsIInv == ASSUME IInv, NEW c \in Callers, Step(c) PROVE IInv'
<1>1. flight' = flight => flight' \in [Callers -> {None, "pending", "completed", "cancelled"}]
    BY DEF IInv, Shape, TypeOK
<1>2. CASE FetchFails(c) \/ Refuse(c)
    BY <1>2, AnswersAreTyped, ReturnsKeepIInv DEF FetchFails, Refuse, At
<1>3. CASE UseCached(c)
  <2> DEFINE m == IF instruments.some THEN instruments ELSE metadata[c]
  <2>1. OfGeneration(instruments, gen[c])
      BY <1>3 DEF UseCached, Current, IInv, FreshIsOfThisSession
  <2>2. m = instruments BY <2>1 DEF OfGeneration
  <2>3. Ok(m) \in [ok : BOOLEAN, metadata : Metadata] /\ OfGeneration(Ok(m).metadata, gen[c])
      BY <2>1, <2>2, AnswersAreTyped DEF IInv, Shape
  <2>4. Return(c, Ok(m)) /\ pc[c] = "enter" BY <1>3 DEF UseCached, At
  <2> HIDE DEF m
  <2> QED BY <1>3, <2>3, <2>4, ReturnsKeepIInv DEF UseCached
<1>4. CASE AskFails(c) BY <1>4, <1>1, MovesKeepIInv DEF AskFails, At
<1>5. CASE Leave(c) BY <1>5, DropsKeepIInv DEF Leave, At
<1> QED
    BY <1>2, <1>3, <1>4, <1>5, FetchKeepsIInv, LeadKeepsIInv, JoinKeepsIInv, FollowKeepsIInv,
       CommitKeepsIInv, TellKeepsIInv DEF Step

\* Every step keeps the inductive invariant.
LEMMA NextIInv == IInv /\ [Next]_vars => IInv'
<1> SUFFICES ASSUME IInv, [Next]_vars PROVE IInv' OBVIOUS
<1>1. CASE UNCHANGED vars
    BY <1>1 DEF vars, callers, IInv, Shape, TypeOK, Metadata, FreshIsOfThisSession,
        FollowersStay, AnswersAreOfTheSession, OfGeneration, At
<1>2. ASSUME NEW c \in Callers, Drop(c) PROVE IInv'
  <2>1. CASE At(c, "ask") BY <1>2, <2>1, DropsKeepIInv DEF Drop, At
  <2>2. CASE ~At(c, "ask")
    <3>1. flight' \in [Callers -> {None, "pending", "completed", "cancelled"}]
        BY <1>2, <2>2 DEF Drop, IInv, Shape, TypeOK
    <3> QED BY <1>2, <2>2, <3>1, MovesKeepIInv DEF Drop, At
  <2> QED BY <2>1, <2>2
<1> QED
    BY <1>1, <1>2, StartKeepsIInv, StepKeepsIInv, ReconnectKeepsIInv, ExpireKeepsIInv DEF Next

-----------------------------------------------------------------------------

\* The state of the margin's flights has its shape, and a flight in the map
\* always has a leader of its generation that is under way
\* (client.rs refresh_futures_margin).
THEOREM TypeCorrect == Spec => []TypeOK
<1>1. IInv => TypeOK BY DEF IInv, Shape
<1> QED BY InitIInv, NextIInv, <1>1, PTL DEF Spec

\* For any number of callers and reconnects: a load that succeeds returns what
\* was read in its own session, or what a caller of an older one stored since.
THEOREM MarginIsCurrent == Spec => []MarginIsOfThisSession
<1>1. IInv => MarginIsOfThisSession
    BY DEF IInv, AnswersAreOfTheSession, MarginIsOfThisSession, OfGeneration
<1> QED BY InitIInv, NextIInv, <1>1, PTL DEF Spec

-----------------------------------------------------------------------------
\* PositionProjection

\* The positions a message or an answer tells of.
Reports  == UNION {[S -> Quantities] : S \in SUBSET Instruments}
Messages == [whole : BOOLEAN, reports : Reports]
Marked   == [seen : BOOLEAN, source : Sources \cup {"none"}, flat : BOOLEAN, ts : Nat,
             mark : [Sources -> Nat]]
Queries  == [pc : {"idle", "asked", "read"}, ts : Nat, wanted : SUBSET Instruments,
             mass : BOOLEAN, held : {<<>>} \cup [Instruments -> Quantities]]

PositionsShape ==
    /\ PositionsTypeOK
    /\ wire \in [Sources -> Seq(Messages)]
    /\ query \in Queries /\ (query.pc = "read" => query.held \in [Instruments -> Quantities])
    /\ projection \in [Instruments -> Marked]

\* What a message says of a position: one a snapshot does not have is flat.
Mentions(m, i) == m.whole \/ i \in DOMAIN m.reports
Says(r, i)     == IF i \in DOMAIN r THEN r[i] ELSE 0

\* The stream will still say something of the position.
Pending(s, i) == ~open[s] \/ \E k \in 1..Len(wire[s]) : Mentions(wire[s][k], i)

\* The last message that mentions a position says what is held.
LastWord ==
    \A s \in Sources : \A k \in 1..Len(wire[s]) : \A i \in Instruments :
        Mentions(wire[s][k], i) /\ (\A l \in (k + 1)..Len(wire[s]) : ~Mentions(wire[s][l], i))
            => Says(wire[s][k].reports, i) = held[i]

UnseenIsFlat == \A i \in Instruments : ~projection[i].seen => shown[i] = 0

FlatIsShown ==
    \A i \in Instruments \ unsure : projection[i].seen => (projection[i].flat <=> shown[i] = 0)

\* A position that a stream has nothing more to say of is shown as it is held
\* if that stream was the last to tell of it, and is flat if nobody ever did.
CaughtUp ==
    \A i \in Instruments \ unsure, s \in Sources : ~Pending(s, i) =>
        /\ projection[i].seen /\ projection[i].source = s => shown[i] = held[i]
        /\ ~projection[i].seen => held[i] = 0

\* The projection p takes neither a report of the securities of that time nor
\* its absence from a snapshot.
Refuses(p, ts) ==
    p.ts > ts \/ (p.mark["securities"] > ts /\ ~(p.source = "securities" /\ ~p.flat))

\* An answer that was overtaken by the stream of its source will be refused.
StaleIsRefused ==
    query.pc = "read" =>
        \A i \in Instruments \ unsure :
            query.held[i] # held[i] /\ ~Pending("securities", i) /\ projection[i].seen
                => Refuses(projection[i], query.ts)

PositionsIInv ==
    /\ PositionsShape /\ LastWord /\ UnseenIsFlat /\ FlatIsShown /\ CaughtUp /\ StaleIsRefused

LEMMA InitPositions == PositionsInit => PositionsIInv
<1> SUFFICES ASSUME PositionsInit PROVE PositionsIInv OBVIOUS
<1>1. \A i \in Instruments : projection[i] = Unseen BY DEF PositionsInit
<1>2. Unseen \in Marked BY DEF Unseen, Marked
<1>3. wire \in [Sources -> Seq(Messages)] /\ (\A s \in Sources : wire[s] = <<>>)
    BY DEF PositionsInit
<1>4. NoQuery \in Queries BY DEF NoQuery, Queries
<1>5. PositionsTypeOK
    BY <1>1, <1>3, PositionsAssumption DEF PositionsInit, PositionsTypeOK, Unseen, NoQuery, Sources
<1>6. PositionsShape
    BY <1>2, <1>3, <1>4, <1>5 DEF PositionsInit, PositionsShape, NoQuery
<1>7. LastWord BY <1>3 DEF LastWord
<1>8. UnseenIsFlat BY DEF PositionsInit, UnseenIsFlat
<1>9. FlatIsShown BY <1>1 DEF FlatIsShown, Unseen
<1>10. CaughtUp BY DEF PositionsInit, CaughtUp, Pending
<1>11. StaleIsRefused BY DEF PositionsInit, StaleIsRefused, NoQuery
<1> QED BY <1>6, <1>7, <1>8, <1>9, <1>10, <1>11 DEF PositionsIInv

-----------------------------------------------------------------------------
\* Reports and messages

LEMMA ReportsAre ==
    \A r : r \in Reports <=>
        /\ DOMAIN r \subseteq Instruments /\ r = [i \in DOMAIN r |-> r[i]]
        /\ \A i \in DOMAIN r : r[i] \in Quantities
<1> TAKE r
<1>1. ASSUME r \in Reports
      PROVE  /\ DOMAIN r \subseteq Instruments /\ r = [i \in DOMAIN r |-> r[i]]
             /\ \A i \in DOMAIN r : r[i] \in Quantities
    BY <1>1 DEF Reports
<1>2. ASSUME DOMAIN r \subseteq Instruments, r = [i \in DOMAIN r |-> r[i]],
             \A i \in DOMAIN r : r[i] \in Quantities
      PROVE  r \in Reports
  <2>1. r \in [DOMAIN r -> Quantities] BY <1>2
  <2> QED BY <2>1, <1>2 DEF Reports
<1> QED BY <1>1, <1>2

LEMMA WithoutIsReports ==
    ASSUME NEW r \in Reports, NEW S
    PROVE  /\ Without(r, S) \in Reports /\ DOMAIN Without(r, S) = DOMAIN r \ S
           /\ \A i \in DOMAIN Without(r, S) : Without(r, S)[i] = r[i]
           /\ S = {} => Without(r, S) = r
<1>1. /\ DOMAIN r \subseteq Instruments /\ r = [i \in DOMAIN r |-> r[i]]
      /\ \A i \in DOMAIN r : r[i] \in Quantities
    BY ReportsAre
<1>2. /\ DOMAIN Without(r, S) = DOMAIN r \ S
      /\ \A i \in DOMAIN r \ S : Without(r, S)[i] = r[i]
      /\ Without(r, S) = [i \in DOMAIN r \ S |-> r[i]]
    BY DEF Without
<1>3. Without(r, S) \in [DOMAIN r \ S -> Quantities] BY <1>1, <1>2
<1>4. Without(r, S) \in Reports BY <1>1, <1>3 DEF Reports
<1>5. S = {} => Without(r, S) = r BY <1>1, <1>2
<1> QED BY <1>2, <1>4, <1>5

LEMMA SnapshotSays ==
    ASSUME NEW h \in [Instruments -> Quantities]
    PROVE  /\ Snapshot(h) \in Messages /\ Snapshot(h).whole
           /\ \A i \in Instruments : Mentions(Snapshot(h), i) /\ Says(Snapshot(h).reports, i) = h[i]
<1> DEFINE S == {j \in Instruments : h[j] # 0}
           r == [i \in S |-> h[i]]
<1>1. Snapshot(h) = [whole |-> TRUE, reports |-> r] BY DEF Snapshot
<1>2. r \in [S -> Quantities] /\ S \in SUBSET Instruments OBVIOUS
<1>3. r \in Reports BY <1>2 DEF Reports
<1>4. \A i \in Instruments : Says(r, i) = h[i] BY DEF Says
<1> HIDE DEF r
<1> QED BY <1>1, <1>3, <1>4 DEF Messages, Mentions

LEMMA ChangeSays ==
    ASSUME NEW i \in Instruments, NEW q \in Quantities
    PROVE  /\ Change(i, q) \in Messages /\ Says(Change(i, q).reports, i) = q
           /\ \A j \in Instruments : Mentions(Change(i, q), j) <=> j = i
<1> DEFINE r == [j \in {i} |-> q]
<1>1. Change(i, q) = [whole |-> FALSE, reports |-> r] BY DEF Change
<1>2. r \in [{i} -> Quantities] /\ {i} \in SUBSET Instruments OBVIOUS
<1>3. r \in Reports BY <1>2 DEF Reports
<1>4. DOMAIN r = {i} /\ Says(r, i) = q BY DEF Says
<1> HIDE DEF r
<1>5. Change(i, q) \in Messages BY <1>1, <1>3 DEF Messages
<1>6. Change(i, q).reports = r /\ ~Change(i, q).whole BY <1>1
<1> QED BY <1>4, <1>5, <1>6 DEF Mentions

-----------------------------------------------------------------------------
\* The projection

LEMMA ProjectedIs ==
    ASSUME NEW p \in Marked, NEW s \in Sources, NEW ts \in Nat, NEW q
    PROVE  LET n == Projected(p, s, ts, q) IN
           /\ n \in Marked /\ n.seen /\ n.source = s /\ (n.flat <=> q = 0) /\ n.ts = ts
           /\ \A t \in Sources : n.mark[t] = IF t = s THEN Later(p.mark[s], ts) ELSE p.mark[t]
<1>1. Later(p.mark[s], ts) \in Nat BY DEF Later, Marked
<1> QED BY <1>1 DEF Projected, Advance, Marked

LEMMA AfterSnapshotIs ==
    ASSUME NEW p \in Marked, NEW i, NEW s \in Sources, NEW ts \in Nat, NEW reports
    PROVE  LET n == AfterSnapshot(i, p, s, ts, reports) IN
           /\ n \in Marked /\ n.seen = p.seen /\ n.source = p.source /\ n.flat = p.flat
           /\ n.ts \in {p.ts, ts} /\ p.ts <= n.ts
           /\ \A t \in Sources : n.mark[t] \in {p.mark[t], ts} /\ p.mark[t] <= n.mark[t]
           /\ p.seen => ts <= n.mark[s]
<1>1. Later(p.mark[s], ts) \in Nat /\ Later(p.mark[s], ts) \in {p.mark[s], ts}
      /\ p.mark[s] <= Later(p.mark[s], ts) /\ ts <= Later(p.mark[s], ts)
    BY DEF Later, Marked
<1>2. CASE ~p.seen BY <1>2 DEF AfterSnapshot, Marked
<1>3. CASE p.seen
  <2> DEFINE older == p.source = s /\ p.flat /\ i \notin DOMAIN reports /\ p.ts < ts
             time  == IF older THEN ts ELSE p.ts
             n     == AfterSnapshot(i, p, s, ts, reports)
  <2>1. n = [[p EXCEPT !.ts = time] EXCEPT !.mark[s] = Later(p.mark[s], ts)]
      BY <1>3 DEF AfterSnapshot, Advance, Marked
  <2>2. time \in Nat /\ time \in {p.ts, ts} /\ p.ts <= time BY DEF Marked
  <2> HIDE DEF time, n
  <2>3. /\ n \in Marked /\ n.seen = p.seen /\ n.source = p.source /\ n.flat = p.flat
        /\ n.ts = time
        /\ \A t \in Sources : n.mark[t] = IF t = s THEN Later(p.mark[s], ts) ELSE p.mark[t]
      BY <1>1, <2>1, <2>2 DEF Marked
  <2>4. \A t \in Sources : p.mark[t] \in Nat BY DEF Marked
  <2> QED BY <1>1, <2>2, <2>3, <2>4 DEF n
<1> QED BY <1>2, <1>3

\* A step of the projection of one position: no mark goes back, and no time or
\* mark is another than that of the message or the one there was.
Moved(p, n, s, ts) ==
    /\ n \in Marked /\ n.ts \in {p.ts, ts}
    /\ \A t \in Sources : p.mark[t] <= n.mark[t] /\ n.mark[t] \in {p.mark[t], ts}

\* What is told is recorded with its source, time and flatness; of the rest only
\* the times move, and in a complete snapshot the mark of its source to its time.
Projects(i, s, ts, whole, reports) ==
    LET p == projection[i] n == projection'[i] IN
    /\ Moved(p, n, s, ts)
    /\ i \in Told(s, ts, whole, reports) =>
         /\ n.seen /\ n.source = s /\ (n.flat <=> Says(reports, i) = 0) /\ n.ts = ts
         /\ p.seen => p.ts <= ts
         /\ i \in DOMAIN reports => (p.seen => p.mark[s] <= ts)
         /\ i \notin DOMAIN reports =>
              whole /\ p.seen /\ p.source = s /\ ~p.flat
    /\ i \notin Told(s, ts, whole, reports) =>
         /\ n.seen = p.seen /\ n.source = p.source /\ n.flat = p.flat /\ p.ts <= n.ts
         /\ i \in DOMAIN reports => ~Accepts(p, s, ts)
         /\ whole /\ i \notin DOMAIN reports =>
              ~(p.seen /\ p.source = s /\ ~p.flat /\ p.ts <= ts)
         /\ whole /\ p.seen => ts <= n.mark[s]

LEMMA Applied ==
    ASSUME projection \in [Instruments -> Marked], NEW s \in Sources, NEW ts \in Nat,
           NEW whole \in BOOLEAN, NEW reports \in Reports,
           ApplySnapshot(s, ts, whole, reports)
    PROVE  /\ projection' \in [Instruments -> Marked]
           /\ Told(s, ts, whole, reports) \subseteq Instruments
           /\ \A i \in Instruments : Projects(i, s, ts, whole, reports)
<1> DEFINE A == Accepted(s, ts, reports)
           M == Missing(s, ts, reports)
           next(i) == IF i \in A THEN Projected(projection[i], s, ts, reports[i])
                      ELSE IF i \in M THEN Projected(projection[i], s, ts, 0)
                      ELSE projection[i]
           part(i) == IF i \in A THEN Projected(projection[i], s, ts, reports[i])
                      ELSE projection[i]
<1>1. DOMAIN reports \subseteq Instruments BY ReportsAre
<1>2. /\ A = {i \in DOMAIN reports : Accepts(projection[i], s, ts)}
      /\ M = {i \in Instruments \ DOMAIN reports :
                 projection[i].seen /\ projection[i].source = s
                 /\ ~projection[i].flat /\ projection[i].ts <= ts}
      /\ Told(s, ts, whole, reports) = A \cup (IF whole THEN M ELSE {})
    BY DEF Accepted, Missing, Told
<1>3. projection' = [i \in Instruments |-> IF whole THEN AfterSnapshot(i, next(i), s, ts, reports)
                                            ELSE part(i)]
  <2>1. CASE whole BY <2>1 DEF ApplySnapshot, Reconcile
  <2>2. CASE ~whole BY <2>2 DEF ApplySnapshot, Record
  <2> QED BY <2>1, <2>2
<1> HIDE DEF A, M
<1>4. ASSUME NEW i \in Instruments
      PROVE  Projects(i, s, ts, whole, reports)
  <2> DEFINE p == projection[i]
             n == projection'[i]
  <2>1. p \in Marked OBVIOUS
  <2>2. n = IF whole THEN AfterSnapshot(i, next(i), s, ts, reports) ELSE part(i)
      BY <1>3
  <2>3. i \in A => Accepts(p, s, ts) /\ i \in DOMAIN reports /\ Says(reports, i) = reports[i]
      BY <1>2 DEF Says
  <2>4. i \in M => i \notin DOMAIN reports /\ Says(reports, i) = 0
                   /\ p.seen /\ p.source = s /\ ~p.flat /\ p.ts <= ts
      BY <1>2 DEF Says
  <2>5. Accepts(p, s, ts) => (p.seen => p.ts <= ts /\ p.mark[s] <= ts) BY DEF Accepts
  <2>6. ts <= ts /\ (\A x \in Nat : x <= x) OBVIOUS
  <2>7. CASE i \in Told(s, ts, whole, reports)
    <3> DEFINE q == Says(reports, i)
               m == Projected(p, s, ts, q)
    <3>1. n = IF whole THEN AfterSnapshot(i, m, s, ts, reports) ELSE m
        BY <1>2, <2>2, <2>3, <2>4, <2>7
    <3>2. /\ m \in Marked /\ m.seen /\ m.source = s /\ (m.flat <=> q = 0) /\ m.ts = ts
          /\ \A t \in Sources : m.mark[t] = IF t = s THEN Later(p.mark[s], ts) ELSE p.mark[t]
        BY <2>1, ProjectedIs
    <3>3. p.seen => p.ts <= ts BY <1>2, <2>3, <2>4, <2>5, <2>7
    <3>4. i \in DOMAIN reports => (p.seen => p.mark[s] <= ts)
        BY <1>2, <2>3, <2>4, <2>5, <2>7
    <3>5. i \notin DOMAIN reports => whole /\ p.seen /\ p.source = s /\ ~p.flat
        BY <1>2, <2>3, <2>4, <2>7
    <3> HIDE DEF m, q
    <3>6. n \in Marked /\ n.seen /\ n.source = s /\ (n.flat <=> q = 0) /\ n.ts = ts
          /\ \A t \in Sources : n.mark[t] \in {m.mark[t], ts} /\ m.mark[t] <= n.mark[t]
      <4>1. CASE whole BY <3>1, <3>2, <4>1, AfterSnapshotIs
      <4>2. CASE ~whole BY <3>1, <3>2, <4>2 DEF Marked
      <4> QED BY <4>1, <4>2
    <3>7. Moved(p, n, s, ts)
      <4>1. \A t \in Sources : m.mark[t] \in {p.mark[t], ts} /\ p.mark[t] <= m.mark[t]
          BY <2>1, <3>2 DEF Later, Marked
      <4> QED BY <2>1, <3>2, <3>6, <4>1 DEF Moved, Marked
    <3> QED BY <2>7, <3>3, <3>4, <3>5, <3>6, <3>7 DEF q, Projects
  <2>8. CASE i \notin Told(s, ts, whole, reports)
    <3>1. n = IF whole THEN AfterSnapshot(i, p, s, ts, reports) ELSE p
        BY <1>2, <2>2, <2>8
    <3>2. /\ i \in DOMAIN reports => ~Accepts(p, s, ts)
          /\ whole /\ i \notin DOMAIN reports =>
                ~(p.seen /\ p.source = s /\ ~p.flat /\ p.ts <= ts)
        BY <1>2, <2>8
    <3>3. Moved(p, n, s, ts) /\ n.seen = p.seen /\ n.source = p.source /\ n.flat = p.flat
          /\ p.ts <= n.ts /\ (whole /\ p.seen => ts <= n.mark[s])
      <4>1. CASE whole BY <2>1, <3>1, <4>1, AfterSnapshotIs DEF Moved
      <4>2. CASE ~whole BY <2>1, <3>1, <4>2 DEF Moved, Marked
      <4> QED BY <4>1, <4>2
    <3> QED BY <2>8, <3>2, <3>3 DEF Projects
  <2> QED BY <2>7, <2>8
<1>5. projection' \in [Instruments -> Marked]
  <2>1. \A i \in Instruments : projection'[i] \in Marked BY <1>4 DEF Projects, Moved
  <2> QED BY <1>3, <2>1
<1>6. Told(s, ts, whole, reports) \subseteq Instruments BY <1>1, <1>2
<1> QED BY <1>4, <1>5, <1>6

-----------------------------------------------------------------------------
\* The broker and the streams

\* A step that adds nothing to what the host knows keeps the invariant if it
\* keeps its shape and the last words, and no stream has less left to say.
LEMMA BrokerStepsKeep ==
    ASSUME PositionsIInv, PositionsShape', LastWord',
           UNCHANGED <<query, projection, shown, unsure>>,
           \A s \in Sources, i \in Instruments :
               ~Pending(s, i)' => ~Pending(s, i) /\ held'[i] = held[i]
    PROVE  PositionsIInv'
<1>1. UnseenIsFlat' /\ FlatIsShown' BY DEF PositionsIInv, UnseenIsFlat, FlatIsShown
<1>2. CaughtUp' BY DEF PositionsIInv, CaughtUp
<1>3. StaleIsRefused' BY DEF PositionsIInv, StaleIsRefused, Refuses, Sources
<1> QED BY <1>1, <1>2, <1>3 DEF PositionsIInv

LEMMA TradeKeeps ==
    ASSUME PositionsIInv, NEW i \in Instruments, NEW q \in Quantities, Trade(i, q)
    PROVE  PositionsIInv'
<1>1. /\ held' = [held EXCEPT ![i] = q] /\ trades' \in 0..MaxTrades
      /\ UNCHANGED <<now, open, query, projection, shown, faults, queries, unsure>>
    BY PositionsAssumption DEF Trade, PositionsIInv, PositionsShape, PositionsTypeOK
<1>2. held' \in [Instruments -> Quantities] /\ held'[i] = q
      /\ \A j \in Instruments : j # i => held'[j] = held[j]
    BY <1>1 DEF PositionsIInv, PositionsShape, PositionsTypeOK
<1> DEFINE word(s) == IF s = "portfolio" THEN Snapshot(held') ELSE Change(i, q)
<1>3. \A s \in Sources :
        /\ word(s) \in Messages /\ Mentions(word(s), i)
        /\ \A j \in Instruments : Mentions(word(s), j) => Says(word(s).reports, j) = held'[j]
    BY <1>2, SnapshotSays, ChangeSays
<1> HIDE DEF word
<1>4. wire' = [s \in Sources |-> IF ~open[s] THEN wire[s] ELSE Append(wire[s], word(s))]
    BY DEF Trade, word
<1>5. \A s \in Sources : wire[s] \in Seq(Messages) /\ (~open[s] => wire[s] = <<>>)
    BY DEF PositionsIInv, PositionsShape, PositionsTypeOK
<1>6. ASSUME NEW s \in Sources, open[s]
      PROVE  /\ wire'[s] \in Seq(Messages) /\ Len(wire'[s]) = Len(wire[s]) + 1
             /\ \A k \in 1..Len(wire[s]) : wire'[s][k] = wire[s][k]
             /\ wire'[s][Len(wire[s]) + 1] = word(s)
  <2>1. wire'[s] = Append(wire[s], word(s)) BY <1>4, <1>6
  <2> QED BY <2>1, <1>3, <1>5, AppendProperties
<1>7. \A s \in Sources : ~open[s] => wire'[s] = <<>> BY <1>4, <1>5
<1>8. wire' \in [Sources -> Seq(Messages)]
  <2>1. \A s \in Sources : wire'[s] \in Seq(Messages) BY <1>5, <1>6, <1>7
  <2> QED BY <1>4, <2>1
<1>9. PositionsTypeOK'
    BY <1>1, <1>2, <1>7 DEF PositionsIInv, PositionsShape, PositionsTypeOK
<1>10. PositionsShape' BY <1>1, <1>8, <1>9 DEF PositionsIInv, PositionsShape
<1>11. LastWord'
  <2> SUFFICES ASSUME NEW s \in Sources, NEW k \in 1..Len(wire'[s]), NEW j \in Instruments,
                      Mentions(wire'[s][k], j),
                      \A l \in (k + 1)..Len(wire'[s]) : ~Mentions(wire'[s][l], j)
               PROVE  Says(wire'[s][k].reports, j) = held'[j]
      BY DEF LastWord
  <2>1. open[s] BY <1>7
  <2>2. Len(wire[s]) \in Nat /\ Len(wire'[s]) = Len(wire[s]) + 1 BY <1>5, <1>6, <2>1, LenProperties
  <2>3. CASE k = Len(wire[s]) + 1 BY <2>1, <2>3, <1>3, <1>6
  <2>4. CASE k \in 1..Len(wire[s])
    <3>1. Len(wire[s]) + 1 \in (k + 1)..Len(wire'[s]) BY <2>2, <2>4
    <3>2. ~Mentions(word(s), j) BY <3>1, <1>6, <2>1
    <3>3. j # i /\ held'[j] = held[j] BY <3>2, <1>2, <1>3
    <3>4. \A l \in (k + 1)..Len(wire[s]) : ~Mentions(wire[s][l], j) /\ wire'[s][l] = wire[s][l]
        BY <1>6, <2>1, <2>2, <2>4
    <3>5. wire'[s][k] = wire[s][k] BY <1>6, <2>1, <2>4
    <3> QED BY <2>4, <3>3, <3>4, <3>5 DEF PositionsIInv, LastWord
  <2> QED BY <2>2, <2>3, <2>4
<1>12. ASSUME NEW s \in Sources, NEW j \in Instruments, ~Pending(s, j)'
       PROVE  ~Pending(s, j) /\ held'[j] = held[j]
  <2>1. open[s] /\ \A k \in 1..Len(wire'[s]) : ~Mentions(wire'[s][k], j)
      BY <1>12, <1>1 DEF Pending, Mentions
  <2>2. Len(wire[s]) \in Nat /\ Len(wire'[s]) = Len(wire[s]) + 1 BY <1>5, <1>6, <2>1, LenProperties
  <2>3. ~Mentions(word(s), j) BY <2>1, <2>2, <1>6
  <2>4. j # i BY <2>3, <1>3
  <2>5. \A k \in 1..Len(wire[s]) : ~Mentions(wire[s][k], j) BY <2>1, <2>2, <1>6
  <2> QED BY <2>1, <2>4, <2>5, <1>2 DEF Pending
<1> QED BY <1>1, <1>10, <1>11, <1>12, BrokerStepsKeep

LEMMA OpenKeeps ==
    ASSUME PositionsIInv, NEW s \in Sources, OpenStream(s)
    PROVE  PositionsIInv'
<1>1. /\ ~open[s] /\ open' = [open EXCEPT ![s] = TRUE]
      /\ wire' = [wire EXCEPT ![s] = <<Snapshot(held)>>]
      /\ UNCHANGED <<now, held, query, projection, shown, trades, faults, queries, unsure>>
    BY DEF OpenStream, counters
<1>2. held \in [Instruments -> Quantities] /\ wire \in [Sources -> Seq(Messages)]
    BY DEF PositionsIInv, PositionsShape, PositionsTypeOK
<1>3. Snapshot(held) \in Messages /\ \A i \in Instruments :
          Mentions(Snapshot(held), i) /\ Says(Snapshot(held).reports, i) = held[i]
    BY <1>2, SnapshotSays
<1>4. /\ wire'[s] = <<Snapshot(held)>> /\ Len(wire'[s]) = 1 /\ wire'[s][1] = Snapshot(held)
      /\ wire'[s] \in Seq(Messages)
      /\ \A t \in Sources : t # s => wire'[t] = wire[t] /\ open'[t] = open[t]
    BY <1>1, <1>2, <1>3 DEF PositionsIInv, PositionsShape, PositionsTypeOK
<1>5. PositionsTypeOK' BY <1>1, <1>4 DEF PositionsIInv, PositionsShape, PositionsTypeOK
<1>6. PositionsShape' BY <1>1, <1>2, <1>4, <1>5 DEF PositionsIInv, PositionsShape
<1>7. LastWord'
  <2> SUFFICES ASSUME NEW t \in Sources, NEW k \in 1..Len(wire'[t]), NEW i \in Instruments,
                      Mentions(wire'[t][k], i),
                      \A l \in (k + 1)..Len(wire'[t]) : ~Mentions(wire'[t][l], i)
               PROVE  Says(wire'[t][k].reports, i) = held[i]
      BY <1>1 DEF LastWord
  <2>1. CASE t = s BY <2>1, <1>3, <1>4
  <2>2. CASE t # s BY <2>2, <1>4 DEF PositionsIInv, LastWord
  <2> QED BY <2>1, <2>2
<1>8. ASSUME NEW t \in Sources, NEW i \in Instruments, ~Pending(t, i)' PROVE ~Pending(t, i)
  <2>1. t # s BY <1>3, <1>4, <1>8 DEF Pending, Mentions
  <2> QED BY <2>1, <1>4, <1>8 DEF Pending, Mentions
<1> QED BY <1>1, <1>6, <1>7, <1>8, BrokerStepsKeep

LEMMA BreakKeeps ==
    ASSUME PositionsIInv, NEW s \in Sources, Break(s)
    PROVE  PositionsIInv'
<1>1. /\ open' = [open EXCEPT ![s] = FALSE] /\ wire' = [wire EXCEPT ![s] = <<>>]
      /\ faults' \in 0..MaxFaults
      /\ UNCHANGED <<now, held, query, projection, shown, trades, queries, unsure>>
    BY PositionsAssumption DEF Break, PositionsIInv, PositionsShape, PositionsTypeOK
<1>2. wire \in [Sources -> Seq(Messages)] /\ open \in [Sources -> BOOLEAN]
    BY DEF PositionsIInv, PositionsShape, PositionsTypeOK
<1>3. /\ wire'[s] = <<>> /\ ~open'[s]
      /\ \A t \in Sources : t # s => wire'[t] = wire[t] /\ open'[t] = open[t]
    BY <1>1, <1>2
<1>4. PositionsTypeOK' BY <1>1, <1>3 DEF PositionsIInv, PositionsShape, PositionsTypeOK
<1>5. wire' \in [Sources -> Seq(Messages)] BY <1>1, <1>2
<1>6. PositionsShape' BY <1>1, <1>4, <1>5 DEF PositionsIInv, PositionsShape
<1>7. LastWord'
  <2> SUFFICES ASSUME NEW t \in Sources, NEW k \in 1..Len(wire'[t]), NEW i \in Instruments,
                      Mentions(wire'[t][k], i),
                      \A l \in (k + 1)..Len(wire'[t]) : ~Mentions(wire'[t][l], i)
               PROVE  Says(wire'[t][k].reports, i) = held[i]
      BY <1>1 DEF LastWord
  <2>1. t # s BY <1>3
  <2> QED BY <2>1, <1>3 DEF PositionsIInv, LastWord
<1>8. ASSUME NEW t \in Sources, NEW i \in Instruments, ~Pending(t, i)' PROVE ~Pending(t, i)
    BY <1>3, <1>8 DEF Pending, Mentions
<1> QED BY <1>1, <1>6, <1>7, <1>8, BrokerStepsKeep

LEMMA TailOfWire ==
    ASSUME NEW S, NEW w \in Seq(S), w # <<>>
    PROVE  /\ Head(w) = w[1] /\ Head(w) \in S /\ Tail(w) \in Seq(S)
           /\ Len(w) \in Nat /\ Len(w) >= 1 /\ Len(Tail(w)) = Len(w) - 1
           /\ \A k \in 1..Len(Tail(w)) : Tail(w)[k] = w[k + 1]
<1>1. Len(w) \in Nat \ {0} BY EmptySeq
<1>2. Head(w) = w[1] OBVIOUS
<1> QED BY <1>1, <1>2, HeadTailProperties

LEMMA ShowIs ==
    ASSUME shown \in [Instruments -> Quantities], NEW who \in SUBSET Instruments,
           NEW reports \in Reports, Show(who, reports)
    PROVE  /\ shown' \in [Instruments -> Quantities]
           /\ \A i \in Instruments :
                shown'[i] = IF i \in who THEN Says(reports, i) ELSE shown[i]
<1>1. \A i \in DOMAIN reports : reports[i] \in Quantities BY ReportsAre
<1>2. 0 \in Quantities BY PositionsAssumption
<1> QED BY <1>1, <1>2 DEF Show, Says

\* What a stream's message does to a position whose last report is not in doubt:
\* all that it says of it is taken, since no time of the projection is later.
Heard(s, m, i) ==
    \/ /\ Mentions(m, i) /\ projection'[i].seen /\ projection'[i].source = s
       /\ shown'[i] = Says(m.reports, i) /\ (projection'[i].flat <=> shown'[i] = 0)
       /\ projection'[i].ts = now'
    \/ /\ i \notin unsure /\ shown'[i] = shown[i]
       /\ projection'[i].seen = projection[i].seen
       /\ projection'[i].source = projection[i].source
       /\ projection'[i].flat = projection[i].flat
       /\ projection[i].ts <= projection'[i].ts
       /\ \A t \in Sources : projection[i].mark[t] <= projection'[i].mark[t]
       /\ Mentions(m, i) =>
            /\ Says(m.reports, i) = 0
            /\ ~(projection[i].seen /\ projection[i].source = s /\ ~projection[i].flat)
            /\ projection[i].seen => now' <= projection'[i].mark[s]

LEMMA ReceiveKeeps ==
    ASSUME PositionsIInv, NEW s \in Sources, Receive(s)
    PROVE  PositionsIInv'
<1> DEFINE m == Head(wire[s])
<1>1. /\ wire[s] # <<>> /\ now' = now + 1 /\ wire' = [wire EXCEPT ![s] = Tail(wire[s])]
      /\ UNCHANGED <<held, open, query, trades, queries>> /\ now' \in 0..MaxTime
    BY PositionsAssumption DEF Receive, PositionsIInv, PositionsShape, PositionsTypeOK
<1>2. PICK skipped \in Refusals(m), partial \in BOOLEAN :
        LET reports == Without(m.reports, skipped)
            whole   == m.whole /\ ~partial
            told    == Told(s, now', whole, reports)
        IN /\ skipped # {} => partial
           /\ partial => faults < MaxFaults /\ (m.whole \/ skipped # {})
           /\ faults' = IF partial THEN faults + 1 ELSE faults
           /\ ApplySnapshot(s, now', whole, reports)
           /\ Show(told, reports)
           /\ unsure' = (unsure \ told)
                        \cup (IF m.whole /\ partial THEN Instruments \ DOMAIN reports ELSE skipped)
    BY DEF Receive
<1> DEFINE reports == Without(m.reports, skipped)
           whole   == m.whole /\ ~partial
           told    == Told(s, now', whole, reports)
<1>3. /\ wire \in [Sources -> Seq(Messages)] /\ projection \in [Instruments -> Marked]
      /\ shown \in [Instruments -> Quantities] /\ unsure \subseteq Instruments
      /\ held \in [Instruments -> Quantities] /\ now \in Nat
    BY DEF PositionsIInv, PositionsShape, PositionsTypeOK
<1>4. /\ m = wire[s][1] /\ m \in Messages /\ Tail(wire[s]) \in Seq(Messages)
      /\ Len(wire[s]) \in Nat /\ Len(wire[s]) >= 1 /\ Len(Tail(wire[s])) = Len(wire[s]) - 1
      /\ \A k \in 1..Len(Tail(wire[s])) : Tail(wire[s])[k] = wire[s][k + 1]
    BY <1>1, <1>3, TailOfWire
<1>5. m.reports \in Reports /\ m.whole \in BOOLEAN BY <1>4 DEF Messages
<1> HIDE DEF m
<1>6. /\ reports \in Reports /\ DOMAIN reports = DOMAIN m.reports \ skipped
      /\ \A i \in DOMAIN reports : reports[i] = m.reports[i]
      /\ skipped = {} => reports = m.reports
    BY <1>5, WithoutIsReports
<1>7. DOMAIN m.reports \subseteq Instruments /\ skipped \subseteq DOMAIN m.reports
    BY <1>5, ReportsAre DEF Refusals
<1>8. /\ skipped # {} => partial
      /\ partial => faults < MaxFaults
      /\ faults' = IF partial THEN faults + 1 ELSE faults
      /\ ApplySnapshot(s, now', whole, reports)
      /\ Show(told, reports)
      /\ unsure' = (unsure \ told)
                   \cup (IF m.whole /\ partial THEN Instruments \ DOMAIN reports ELSE skipped)
    BY <1>2
<1> HIDE DEF reports
<1>9. whole \in BOOLEAN /\ now' \in Nat BY <1>1
<1>taken. /\ projection' \in [Instruments -> Marked] /\ told \subseteq Instruments
       /\ \A i \in Instruments : Projects(i, s, now', whole, reports)
    BY <1>3, <1>6, <1>8, <1>9, Applied
<1>10. /\ projection' \in [Instruments -> Marked] /\ told \subseteq Instruments
       /\ \A i \in Instruments : LET p == projection[i] n == projection'[i] IN
            /\ Moved(p, n, s, now')
            /\ i \in told =>
                 /\ n.seen /\ n.source = s /\ (n.flat <=> Says(reports, i) = 0) /\ n.ts = now'
                 /\ i \notin DOMAIN reports => whole
            /\ i \notin told =>
                 /\ n.seen = p.seen /\ n.source = p.source /\ n.flat = p.flat /\ p.ts <= n.ts
                 /\ i \in DOMAIN reports => ~Accepts(p, s, now')
                 /\ whole /\ i \notin DOMAIN reports =>
                      ~(p.seen /\ p.source = s /\ ~p.flat /\ p.ts <= now')
                 /\ whole /\ p.seen => now' <= n.mark[s]
    BY <1>taken DEF Projects
<1> HIDE DEF told
<1>11. \A i \in Instruments : projection[i].ts <= now /\ \A t \in Sources : projection[i].mark[t] <= now
    BY DEF PositionsIInv, PositionsShape, PositionsTypeOK
<1>12. \A i \in Instruments : Accepts(projection[i], s, now')
  <2> TAKE i \in Instruments
  <2>1. projection[i].ts \in Nat /\ projection[i].mark[s] \in Nat BY <1>3 DEF Marked
  <2>2. projection[i].ts <= now' /\ projection[i].mark[s] <= now' /\ projection[i].ts # now'
      BY <2>1, <1>1, <1>3, <1>11
  <2> QED BY <2>2 DEF Accepts
<1>13. /\ shown' \in [Instruments -> Quantities]
       /\ \A i \in Instruments : shown'[i] = IF i \in told THEN Says(reports, i) ELSE shown[i]
    BY <1>3, <1>6, <1>8, <1>10, ShowIs
<1>14. ASSUME NEW i \in Instruments \ unsure' PROVE Heard(s, m, i)
  <2>1. CASE i \in told
    <3>1. i \notin DOMAIN reports => skipped = {} /\ m.whole BY <2>1, <1>8, <1>10
    <3>2. Mentions(m, i) BY <3>1, <1>6 DEF Mentions
    <3>3. Says(reports, i) = Says(m.reports, i) BY <3>1, <1>6 DEF Says
    <3> QED BY <2>1, <3>2, <3>3, <1>10, <1>13 DEF Heard
  <2>2. CASE i \notin told
    <3>1. i \notin unsure BY <2>2, <1>8
    <3>2. i \notin DOMAIN reports BY <2>2, <1>10, <1>12
    <3>3. shown'[i] = shown[i] BY <2>2, <1>13
    <3>4. \A t \in Sources : projection[i].mark[t] <= projection'[i].mark[t]
        BY <1>10 DEF Moved
    <3>5. ASSUME Mentions(m, i)
          PROVE  /\ Says(m.reports, i) = 0
                 /\ ~(projection[i].seen /\ projection[i].source = s /\ ~projection[i].flat)
                 /\ projection[i].seen => now' <= projection'[i].mark[s]
      <4>1. ~(m.whole /\ partial) BY <1>8, <3>2
      <4>2. i \notin skipped BY <4>1, <1>8
      <4>3. i \notin DOMAIN m.reports BY <3>2, <4>2, <1>6
      <4>4. whole BY <3>5, <4>1, <4>3 DEF Mentions
      <4>5. projection[i].ts <= now'
        <5>1. projection[i].ts \in Nat BY <1>3 DEF Marked
        <5> QED BY <5>1, <1>1, <1>3, <1>11
      <4> QED BY <2>2, <3>2, <4>3, <4>4, <4>5, <1>10 DEF Says
    <3> QED BY <2>2, <3>1, <3>3, <3>4, <3>5, <1>10 DEF Heard
  <2> QED BY <2>1, <2>2
<1>15. PositionsTypeOK'
  <2>1. faults' \in 0..MaxFaults
      BY <1>8, PositionsAssumption DEF PositionsIInv, PositionsShape, PositionsTypeOK
  <2>2. unsure' \subseteq Instruments BY <1>3, <1>7, <1>8
  <2>3. \A t \in Sources : wire'[t] # <<>> => open'[t]
      BY <1>1, <1>3 DEF PositionsIInv, PositionsShape, PositionsTypeOK
  <2>4. query'.pc \in {"idle", "asked", "read"} /\ query'.ts <= now'
    <3>1. query.ts \in Nat /\ query.ts <= now
        BY DEF PositionsIInv, PositionsShape, PositionsTypeOK, Queries
    <3> QED BY <3>1, <1>1, <1>3 DEF PositionsIInv, PositionsShape, PositionsTypeOK
  <2>5. ASSUME NEW i \in Instruments
        PROVE  /\ projection'[i].ts <= now' /\ \A t \in Sources : projection'[i].mark[t] <= now'
               /\ projection'[i].seen <=> projection'[i].source \in Sources
    <3>1. /\ projection[i] \in Marked /\ projection'[i] \in Marked
          /\ projection[i].seen <=> projection[i].source \in Sources
        BY <1>3, <1>10 DEF PositionsIInv, PositionsShape, PositionsTypeOK
    <3>2. projection'[i].ts <= now' /\ \A t \in Sources : projection'[i].mark[t] <= now'
      <4>1. projection[i].ts \in Nat /\ \A t \in Sources : projection[i].mark[t] \in Nat
          BY <3>1 DEF Marked
      <4>2. projection'[i].ts \in {projection[i].ts, now'}
            /\ \A t \in Sources : projection'[i].mark[t] \in {projection[i].mark[t], now'}
          BY <1>10 DEF Moved
      <4>3. projection[i].ts <= now' /\ \A t \in Sources : projection[i].mark[t] <= now'
          BY <4>1, <1>1, <1>3, <1>11
      <4> QED BY <4>2, <4>3, <1>9
    <3>3. projection'[i].seen <=> projection'[i].source \in Sources BY <3>1, <1>10
    <3> QED BY <3>2, <3>3
  <2> QED
      BY <1>1, <1>13, <2>1, <2>2, <2>3, <2>4, <2>5
      DEF PositionsIInv, PositionsShape, PositionsTypeOK
<1>16. PositionsShape'
    BY <1>1, <1>3, <1>4, <1>10, <1>15 DEF PositionsIInv, PositionsShape
<1>17. LastWord'
  <2> SUFFICES ASSUME NEW t \in Sources, NEW k \in 1..Len(wire'[t]), NEW i \in Instruments,
                      Mentions(wire'[t][k], i),
                      \A l \in (k + 1)..Len(wire'[t]) : ~Mentions(wire'[t][l], i)
               PROVE  Says(wire'[t][k].reports, i) = held[i]
    <3>1. held' = held BY <1>1
    <3> QED BY <3>1 DEF LastWord
  <2>1. CASE t # s BY <2>1, <1>1, <1>3 DEF PositionsIInv, LastWord
  <2>2. CASE t = s
    <3>1. wire'[t] = Tail(wire[s]) BY <2>2, <1>1, <1>3
    <3>2. k + 1 \in 1..Len(wire[s]) /\ wire'[t][k] = wire[s][k + 1] BY <3>1, <1>4
    <3>3. ASSUME NEW l \in (k + 1 + 1)..Len(wire[s]) PROVE ~Mentions(wire[s][l], i)
      <4>1. l - 1 \in (k + 1)..Len(wire'[t]) /\ wire'[t][l - 1] = wire[s][l]
          BY <3>1, <1>4
      <4> QED BY <4>1
    <3> QED BY <3>2, <3>3 DEF PositionsIInv, LastWord
  <2> QED BY <2>1, <2>2
<1>18. UnseenIsFlat'
    BY <1>10, <1>13 DEF PositionsIInv, UnseenIsFlat
<1>19. FlatIsShown'
    BY <1>14 DEF Heard, PositionsIInv, FlatIsShown
<1>20. \A i \in Instruments : ~Pending(s, i)' /\ ~Mentions(m, i) => ~Pending(s, i)
  <2> SUFFICES ASSUME NEW i \in Instruments, ~Pending(s, i)', ~Mentions(m, i)
               PROVE  ~Pending(s, i)
      OBVIOUS
  <2>1. open[s] BY <1>1 DEF Pending
  <2> SUFFICES ASSUME NEW k \in 1..Len(wire[s]) PROVE ~Mentions(wire[s][k], i)
      BY <2>1 DEF Pending
  <2>2. CASE k = 1 BY <2>1, <2>2, <1>4
  <2>3. CASE k # 1
    <3>1. k - 1 \in 1..Len(Tail(wire[s])) /\ Tail(wire[s])[k - 1] = wire[s][k]
        BY <2>3, <1>4
    <3> QED BY <3>1, <1>1, <1>3 DEF Pending, Mentions
  <2> QED BY <2>2, <2>3
<1>21. \A t \in Sources, i \in Instruments : t # s /\ ~Pending(t, i)' => ~Pending(t, i)
    BY <1>1, <1>3 DEF Pending, Mentions
<1>22. \A i \in Instruments : ~Pending(s, i)' /\ Mentions(m, i) => Says(m.reports, i) = held[i]
  <2> SUFFICES ASSUME NEW i \in Instruments, ~Pending(s, i)', Mentions(m, i)
               PROVE  Says(m.reports, i) = held[i]
      OBVIOUS
  <2>1. \A k \in 1..Len(Tail(wire[s])) : ~Mentions(Tail(wire[s])[k], i)
      BY <1>1, <1>3 DEF Pending, Mentions
  <2>2. ASSUME NEW l \in (1 + 1)..Len(wire[s]) PROVE ~Mentions(wire[s][l], i)
    <3>1. l - 1 \in 1..Len(Tail(wire[s])) /\ Tail(wire[s])[l - 1] = wire[s][l] BY <1>4
    <3> QED BY <3>1, <2>1
  <2>3. 1 \in 1..Len(wire[s]) BY <1>4
  <2> QED BY <2>2, <2>3, <1>4 DEF PositionsIInv, LastWord
<1>23. CaughtUp'
  <2> SUFFICES ASSUME NEW i \in Instruments \ unsure', NEW t \in Sources, ~Pending(t, i)'
               PROVE  /\ projection'[i].seen /\ projection'[i].source = t => shown'[i] = held[i]
                      /\ ~projection'[i].seen => held[i] = 0
      BY <1>1 DEF CaughtUp
  <2>1. Heard(s, m, i) BY <1>14
  <2>2. CASE t # s
    <3>1. ~Pending(t, i) BY <2>2, <1>21
    <3> QED BY <2>1, <2>2, <3>1 DEF Heard, PositionsIInv, CaughtUp
  <2>3. CASE t = s /\ Mentions(m, i)
    <3>1. Says(m.reports, i) = held[i] BY <2>3, <1>22
    <3>2. i \notin unsure /\ projection[i].seen /\ projection[i].flat => shown[i] = 0
        BY DEF PositionsIInv, FlatIsShown
    <3> QED BY <2>1, <2>3, <3>1, <3>2 DEF Heard
  <2>4. CASE t = s /\ ~Mentions(m, i)
    <3>1. ~Pending(t, i) BY <2>4, <1>20
    <3> QED BY <2>1, <2>4, <3>1 DEF Heard, PositionsIInv, CaughtUp
  <2> QED BY <2>2, <2>3, <2>4
<1>24. StaleIsRefused'
  <2> SUFFICES ASSUME query.pc = "read", NEW i \in Instruments \ unsure',
                      query.held[i] # held[i], ~Pending("securities", i)', projection'[i].seen
               PROVE  Refuses(projection'[i], query.ts)
      BY <1>1 DEF StaleIsRefused, Refuses
  <2>1. Heard(s, m, i) BY <1>14
  <2>2. query.ts \in Nat /\ query.ts < now'
    <3>1. query.ts \in Nat /\ query.ts <= now
        BY DEF PositionsIInv, PositionsShape, PositionsTypeOK, Queries
    <3> QED BY <3>1, <1>1, <1>3
  <2>3. "securities" \in Sources BY DEF Sources
  <2>4. /\ projection[i].ts \in Nat /\ projection'[i].ts \in Nat
        /\ projection[i].mark["securities"] \in Nat /\ projection'[i].mark["securities"] \in Nat
      BY <2>3, <1>3, <1>10 DEF Marked
  <2>5. CASE projection'[i].ts = now' BY <2>2, <2>5 DEF Refuses
  <2>6. CASE projection'[i].ts # now'
    <3>1. /\ i \notin unsure /\ projection[i].seen
          /\ projection'[i].source = projection[i].source
          /\ projection'[i].flat = projection[i].flat
          /\ projection[i].ts <= projection'[i].ts
          /\ projection[i].mark["securities"] <= projection'[i].mark["securities"]
          /\ Mentions(m, i) =>
               /\ ~(projection[i].source = s /\ ~projection[i].flat)
               /\ now' <= projection'[i].mark[s]
        BY <2>1, <2>3, <2>6 DEF Heard
    <3>2. CASE s = "securities" /\ Mentions(m, i)
        BY <2>2, <2>4, <3>1, <3>2, <1>9 DEF Refuses
    <3>3. CASE ~(s = "securities" /\ Mentions(m, i))
      <4>1. ~Pending("securities", i) BY <2>3, <3>3, <1>20, <1>21
      <4>2. Refuses(projection[i], query.ts)
          BY <3>1, <4>1 DEF PositionsIInv, StaleIsRefused
      <4> QED BY <2>2, <2>4, <3>1, <4>2 DEF Refuses
    <3> QED BY <3>2, <3>3
  <2> QED BY <2>5, <2>6
<1> QED BY <1>16, <1>17, <1>18, <1>19, <1>23, <1>24 DEF PositionsIInv

-----------------------------------------------------------------------------
\* The queries

\* A step that leaves alone everything but the clock, the query and the counters
\* keeps the invariant when it starts or ends a query.
LEMMA QuietStepsKeep ==
    ASSUME PositionsIInv, PositionsShape', query'.pc # "read",
           UNCHANGED <<broker, projection, shown, unsure>>
    PROVE  PositionsIInv'
<1>1. UNCHANGED <<held, open, wire, projection, shown, unsure>> BY DEF broker
<1>2. LastWord' BY <1>1 DEF PositionsIInv, LastWord
<1>3. UnseenIsFlat' /\ FlatIsShown' BY <1>1 DEF PositionsIInv, UnseenIsFlat, FlatIsShown
<1>4. \A s, i : Pending(s, i) => Pending(s, i)' BY <1>1 DEF Pending, Mentions
<1>5. CaughtUp' BY <1>1, <1>4 DEF PositionsIInv, CaughtUp
<1>6. StaleIsRefused' BY DEF StaleIsRefused
<1> QED BY <1>2, <1>3, <1>5, <1>6 DEF PositionsIInv

LEMMA AskForKeeps ==
    ASSUME PositionsIInv, NEW wanted \in SUBSET Instruments, NEW mass \in BOOLEAN,
           AskFor(wanted, mass)
    PROVE  PositionsIInv'
<1>1. /\ now' = now + 1 /\ now' \in 0..MaxTime /\ queries' \in 0..MaxQueries /\ query = NoQuery
      /\ query' = [NoQuery EXCEPT !.pc = "asked", !.ts = now', !.wanted = wanted, !.mass = mass]
      /\ UNCHANGED <<broker, projection, shown, trades, faults, unsure>>
    BY PositionsAssumption DEF AskFor, PositionsIInv, PositionsShape, PositionsTypeOK
<1>2. query' \in Queries /\ query'.pc = "asked" /\ query'.ts = now'
  <2>1. query' = [pc |-> "asked", ts |-> now', wanted |-> wanted, mass |-> mass, held |-> <<>>]
      BY <1>1 DEF NoQuery
  <2>2. now' \in Nat BY <1>1, PositionsAssumption
  <2> QED BY <2>1, <2>2 DEF Queries
<1>3. ASSUME NEW i \in Instruments
      PROVE  /\ projection[i].ts <= now' /\ \A s \in Sources : projection[i].mark[s] <= now'
  <2>1. /\ projection[i].ts \in Nat /\ \A s \in Sources : projection[i].mark[s] \in Nat
        /\ projection[i].ts <= now /\ \A s \in Sources : projection[i].mark[s] <= now
        /\ now \in Nat
      BY DEF PositionsIInv, PositionsShape, PositionsTypeOK, Marked
  <2> QED BY <2>1, <1>1
<1>4. PositionsTypeOK'
    BY <1>1, <1>2, <1>3 DEF PositionsIInv, PositionsShape, PositionsTypeOK, broker
<1>5. PositionsShape' BY <1>1, <1>2, <1>4 DEF PositionsIInv, PositionsShape, broker
<1> QED BY <1>1, <1>2, <1>5, QuietStepsKeep

LEMMA FailKeeps == ASSUME PositionsIInv, Fail PROVE PositionsIInv'
<1>1. /\ query' = NoQuery /\ faults' \in 0..MaxFaults
      /\ UNCHANGED <<now, broker, projection, shown, trades, queries, unsure>>
    BY PositionsAssumption DEF Fail, PositionsIInv, PositionsShape, PositionsTypeOK
<1>2. query' \in Queries /\ query'.pc = "idle" /\ query'.ts = 0
    BY <1>1 DEF NoQuery, Queries
<1>3. PositionsTypeOK'
    BY <1>1, <1>2 DEF PositionsIInv, PositionsShape, PositionsTypeOK, broker
<1>4. PositionsShape' BY <1>1, <1>2, <1>3 DEF PositionsIInv, PositionsShape, broker
<1> QED BY <1>1, <1>2, <1>4, QuietStepsKeep

LEMMA ReadKeeps == ASSUME PositionsIInv, Read PROVE PositionsIInv'
<1>1. /\ query.pc = "asked" /\ query' = [query EXCEPT !.pc = "read", !.held = held]
      /\ UNCHANGED <<now, held, open, wire, projection, shown, trades, faults, queries, unsure>>
    BY DEF Read, broker, counters
<1>2. query \in Queries /\ held \in [Instruments -> Quantities]
    BY DEF PositionsIInv, PositionsShape, PositionsTypeOK
<1>3. query' \in Queries /\ query'.pc = "read" /\ query'.ts = query.ts /\ query'.held = held
    BY <1>1, <1>2 DEF Queries
<1>4. PositionsTypeOK' BY <1>1, <1>3 DEF PositionsIInv, PositionsShape, PositionsTypeOK
<1>5. PositionsShape' BY <1>1, <1>2, <1>3, <1>4 DEF PositionsIInv, PositionsShape
<1>6. LastWord' BY <1>1 DEF PositionsIInv, LastWord
<1>7. UnseenIsFlat' /\ FlatIsShown' BY <1>1 DEF PositionsIInv, UnseenIsFlat, FlatIsShown
<1>8. \A s, i : Pending(s, i) => Pending(s, i)' BY <1>1 DEF Pending, Mentions
<1>9. CaughtUp' BY <1>1, <1>8 DEF PositionsIInv, CaughtUp
<1>10. StaleIsRefused' BY <1>1, <1>3 DEF StaleIsRefused
<1> QED BY <1>5, <1>6, <1>7, <1>9, <1>10 DEF PositionsIInv

\* An answer changes only what it is the last to know of: what the stream of its
\* source has overtaken, the projection refuses.
LEMMA ApplyKeeps ==
    ASSUME PositionsIInv, query.pc = "read",
           NEW skipped \in SUBSET DOMAIN Snapshot(query.held).reports,
           Apply(skipped), faults' \in 0..MaxFaults
    PROVE  PositionsIInv'
<1> DEFINE reports == Without(Snapshot(query.held).reports, skipped)
           whole   == skipped = {}
           told    == Told("securities", query.ts, whole, reports)
<1>1. /\ ApplySnapshot("securities", query.ts, whole, reports)
      /\ Show(told \cap query.wanted, reports)
      /\ unsure' = unsure \cup {i \in told : ~projection[i].seen \/ i \notin query.wanted}
      /\ query' = NoQuery
      /\ UNCHANGED <<now, held, open, wire, trades, queries>>
    BY DEF Apply, broker
<1>2. /\ projection \in [Instruments -> Marked] /\ query \in Queries /\ query.ts \in Nat
      /\ query.held \in [Instruments -> Quantities] /\ query.wanted \subseteq Instruments
      /\ shown \in [Instruments -> Quantities] /\ unsure \subseteq Instruments
      /\ now \in Nat /\ query.ts <= now /\ "securities" \in Sources
    BY DEF PositionsIInv, PositionsShape, PositionsTypeOK, Queries, Sources
<1>3. Snapshot(query.held).reports \in Reports
      /\ \A i \in Instruments : Says(Snapshot(query.held).reports, i) = query.held[i]
    BY <1>2, SnapshotSays DEF Messages
<1>4. /\ reports \in Reports /\ DOMAIN reports = DOMAIN Snapshot(query.held).reports \ skipped
      /\ \A i \in DOMAIN reports : reports[i] = Snapshot(query.held).reports[i]
      /\ whole => reports = Snapshot(query.held).reports
    BY <1>3, WithoutIsReports
<1> HIDE DEF reports
<1>5. whole \in BOOLEAN OBVIOUS
<1> HIDE DEF whole
<1>6. /\ projection' \in [Instruments -> Marked] /\ told \subseteq Instruments
      /\ \A i \in Instruments : Projects(i, "securities", query.ts, whole, reports)
    BY <1>1, <1>2, <1>4, <1>5, Applied
<1>7. \A i \in Instruments :
        /\ projection'[i].ts \in {projection[i].ts, query.ts}
        /\ \A t \in Sources : projection'[i].mark[t] \in {projection[i].mark[t], query.ts}
        /\ i \in told =>
             /\ projection'[i].seen /\ projection'[i].source = "securities"
             /\ (projection'[i].flat <=> Says(reports, i) = 0)
             /\ (projection[i].seen =>
                  /\ projection[i].ts <= query.ts
                  /\ i \in DOMAIN reports => projection[i].mark["securities"] <= query.ts)
             /\ (i \notin DOMAIN reports =>
                  whole /\ projection[i].source = "securities" /\ ~projection[i].flat)
        /\ i \notin told =>
             /\ projection'[i].seen = projection[i].seen
             /\ projection'[i].source = projection[i].source
             /\ projection'[i].flat = projection[i].flat
    BY <1>6 DEF Projects, Moved
<1> HIDE DEF told
<1>8. \A i \in told : Says(reports, i) = query.held[i]
  <2> TAKE i \in told
  <2>1. CASE i \in DOMAIN reports BY <2>1, <1>3, <1>4, <1>6 DEF Says
  <2>2. CASE i \notin DOMAIN reports BY <2>2, <1>3, <1>4, <1>6, <1>7
  <2> QED BY <2>1, <2>2
<1>9. /\ shown' \in [Instruments -> Quantities]
      /\ \A i \in Instruments :
           shown'[i] = IF i \in told \cap query.wanted THEN Says(reports, i) ELSE shown[i]
  <2>1. told \cap query.wanted \in SUBSET Instruments BY <1>6
  <2> QED BY <2>1, <1>1, <1>2, <1>4, ShowIs
<1>10. \A i \in Instruments \ unsure' :
         /\ i \notin unsure
         /\ i \in told => projection[i].seen /\ shown'[i] = query.held[i]
         /\ i \notin told => shown'[i] = shown[i]
    BY <1>1, <1>8, <1>9
<1>11. PositionsTypeOK'
  <2>1. unsure' \subseteq Instruments BY <1>1, <1>2, <1>6
  <2>2. query'.pc \in {"idle", "asked", "read"} /\ query'.ts <= now' BY <1>1, <1>2 DEF NoQuery
  <2>3. ASSUME NEW i \in Instruments
        PROVE  /\ projection'[i].ts <= now' /\ \A t \in Sources : projection'[i].mark[t] <= now'
               /\ projection'[i].seen <=> projection'[i].source \in Sources
    <3>1. /\ projection[i].ts <= now /\ \A t \in Sources : projection[i].mark[t] <= now
          /\ projection[i].seen <=> projection[i].source \in Sources
        BY DEF PositionsIInv, PositionsShape, PositionsTypeOK
    <3>2. projection'[i].ts <= now' /\ \A t \in Sources : projection'[i].mark[t] <= now'
        BY <3>1, <1>1, <1>2, <1>7
    <3>3. projection'[i].seen <=> projection'[i].source \in Sources BY <3>1, <1>2, <1>7
    <3> QED BY <3>2, <3>3
  <2> QED
      BY <1>1, <1>9, <2>1, <2>2, <2>3 DEF PositionsIInv, PositionsShape, PositionsTypeOK
<1>12. PositionsShape'
  <2>1. query' \in Queries /\ query'.pc # "read" BY <1>1 DEF NoQuery, Queries
  <2> QED BY <1>1, <1>6, <1>11, <2>1 DEF PositionsIInv, PositionsShape
<1>13. LastWord' BY <1>1 DEF PositionsIInv, LastWord
<1>14. UnseenIsFlat' BY <1>7, <1>9 DEF PositionsIInv, UnseenIsFlat
<1>15. FlatIsShown' BY <1>7, <1>8, <1>10, <1>6 DEF PositionsIInv, FlatIsShown
<1>16. \A s, i : Pending(s, i) => Pending(s, i)' BY <1>1 DEF Pending, Mentions
<1>17. ASSUME NEW i \in told, i \notin unsure, projection[i].seen, ~Pending("securities", i)
       PROVE  query.held[i] = held[i]
  <2>1. i \in Instruments BY <1>6
  <2>2. ~Refuses(projection[i], query.ts)
    <3>1. projection[i].ts \in Nat /\ projection[i].mark["securities"] \in Nat
        BY <1>2, <2>1 DEF Marked
    <3>2. /\ projection[i].ts <= query.ts
          /\ i \in DOMAIN reports => projection[i].mark["securities"] <= query.ts
          /\ i \notin DOMAIN reports => projection[i].source = "securities" /\ ~projection[i].flat
        BY <1>7, <1>17, <2>1
    <3> QED BY <3>1, <3>2, <1>2 DEF Refuses
  <2> QED BY <1>17, <2>1, <2>2 DEF PositionsIInv, StaleIsRefused
<1>18. CaughtUp'
  <2> SUFFICES ASSUME NEW i \in Instruments \ unsure', NEW s \in Sources, ~Pending(s, i)'
               PROVE  /\ projection'[i].seen /\ projection'[i].source = s => shown'[i] = held[i]
                      /\ ~projection'[i].seen => held[i] = 0
    <3>1. held' = held BY <1>1
    <3> QED BY <3>1 DEF CaughtUp
  <2>1. ~Pending(s, i) BY <1>16
  <2>2. CASE i \in told
    <3>1. i \notin unsure /\ projection[i].seen /\ shown'[i] = query.held[i] BY <2>2, <1>10
    <3>2. s = "securities" => query.held[i] = held[i] BY <2>1, <2>2, <3>1, <1>17
    <3> QED BY <2>2, <3>1, <3>2, <1>7
  <2>3. CASE i \notin told
      BY <2>1, <2>3, <1>7, <1>10 DEF PositionsIInv, CaughtUp
  <2> QED BY <2>2, <2>3
<1>19. StaleIsRefused' BY <1>1 DEF StaleIsRefused, NoQuery
<1> QED BY <1>12, <1>13, <1>14, <1>15, <1>18, <1>19 DEF PositionsIInv

-----------------------------------------------------------------------------

LEMMA NextPositions == PositionsIInv /\ [PositionsNext]_positionVars => PositionsIInv'
<1> SUFFICES ASSUME PositionsIInv, [PositionsNext]_positionVars PROVE PositionsIInv' OBVIOUS
<1>1. CASE UNCHANGED positionVars
  <2>1. UNCHANGED <<now, held, open, wire, query, projection, shown, trades, faults, queries, unsure>>
      BY <1>1 DEF positionVars, broker, counters
  <2>2. PositionsShape' BY <2>1 DEF PositionsIInv, PositionsShape, PositionsTypeOK
  <2>3. LastWord' BY <2>1 DEF PositionsIInv, LastWord
  <2>4. \A s, i : Pending(s, i) => Pending(s, i)' BY <2>1 DEF Pending, Mentions
  <2> QED BY <2>1, <2>2, <2>3, <2>4, BrokerStepsKeep
<1>2. CASE \E i \in Instruments, q \in Quantities : Trade(i, q) BY <1>2, TradeKeeps
<1>3. CASE \E s \in Sources : OpenStream(s) \/ Break(s) \/ Receive(s)
    BY <1>3, OpenKeeps, BreakKeeps, ReceiveKeeps
<1>4. CASE (\E i \in Instruments : Ask({i})) \/ Ask(Instruments) \/ AskMass
  <2>1. \A i \in Instruments : {i} \in SUBSET Instruments OBVIOUS
  <2> QED BY <1>4, <2>1, AskForKeeps DEF Ask, AskMass
<1>5. faults \in 0..MaxFaults BY DEF PositionsIInv, PositionsShape, PositionsTypeOK
<1>6. CASE Answer BY <1>5, <1>6, ApplyKeeps DEF Answer
<1>7. CASE AnswerMass
  <2>1. PICK skipped \in SUBSET DOMAIN Snapshot(query.held).reports :
          /\ skipped # {} => faults < MaxFaults
          /\ faults' = IF skipped = {} THEN faults ELSE faults + 1
          /\ Apply(skipped)
      BY <1>7 DEF AnswerMass
  <2>2. faults' \in 0..MaxFaults BY <2>1, <1>5, PositionsAssumption
  <2> QED BY <1>7, <2>1, <2>2, ApplyKeeps DEF AnswerMass
<1> QED BY <1>1, <1>2, <1>3, <1>4, <1>6, <1>7, ReadKeeps, FailKeeps DEF PositionsNext

\* The inductive invariant of the positions: what the last word on its way says,
\* and what was shown when nothing is on its way.
THEOREM PositionsInvariant == PositionsSpec => []PositionsIInv
<1> QED BY InitPositions, NextPositions, PTL DEF PositionsSpec

\* The state of the positions has its shape, and no time or watermark of the
\* projection is ever ahead of the clock (position_projection).
THEOREM PositionsTypeCorrect == PositionsSpec => []PositionsTypeOK
<1>1. PositionsIInv => PositionsTypeOK BY DEF PositionsIInv, PositionsShape
<1> QED BY <1>1, PositionsInvariant, PTL

\* For any instruments, quantities and numbers of trades, faults and queries:
\* when both streams are read to their end the host knows every position as it
\* is, but for those whose last report was refused or kept back
\* (apply_position_snapshot, reconcile_position_source_snapshot).
THEOREM PositionsAreSettled == PositionsSpec => []PositionsSettle
<1>1. ASSUME PositionsIInv PROVE PositionsSettle
  <2> SUFFICES ASSUME Quiet, NEW i \in Instruments \ unsure PROVE shown[i] = held[i]
      BY DEF PositionsSettle
  <2>1. \A s \in Sources : open[s] /\ wire[s] = <<>> BY DEF Quiet
  <2>2. \A s \in Sources : ~Pending(s, i) BY <2>1 DEF Pending
  <2>3. CASE projection[i].seen
    <3>1. projection[i].source \in Sources
        BY <1>1, <2>3 DEF PositionsIInv, PositionsShape, PositionsTypeOK
    <3> QED BY <1>1, <2>2, <2>3, <3>1 DEF PositionsIInv, CaughtUp
  <2>4. CASE ~projection[i].seen
    <3>1. held[i] = 0 BY <1>1, <2>2, <2>4 DEF PositionsIInv, CaughtUp, Sources
    <3> QED BY <1>1, <2>4, <3>1 DEF PositionsIInv, UnseenIsFlat
  <2> QED BY <2>3, <2>4
<1> QED BY <1>1, PositionsInvariant, PTL

=============================================================================
